--------------------------- MODULE History_proofs ---------------------------
(***************************************************************************)
(* Proofs about History: what the chart of the month shows of a day is at  *)
(* most twice, and in regular passes no less than, what the passes found,  *)
(* for any number of users, any interval and any pauses.                   *)
(***************************************************************************)
EXTENDS History, FiniteSetTheorems, SequenceTheorems, WellFoundedInduction, TLAPS

-----------------------------------------------------------------------------
(* Induction, on sets that are given rather than described.                *)

\* A set that holds 0, and with every number the next, holds all.
LEMMA NatInd ==
  ASSUME NEW S, 0 \in S, \A n \in Nat : n \in S => n + 1 \in S
  PROVE  Nat \subseteq S
<1> DEFINE Less == {s \in Nat \X Nat : s[1] < s[2]}
           Left == Nat \ S
<1>1. IsWellFoundedOn(Less, Nat)
  BY NatLessThanWellFounded DEF OpToRel
<1> SUFFICES ASSUME Left # {} PROVE FALSE
  OBVIOUS
<1>2. PICK x \in Left : \A y \in Left : <<y, x>> \notin Less
  <2>1. Left \subseteq Nat
    OBVIOUS
  <2> HIDE DEF Less, Left
  <2> QED  BY <1>1, <2>1, WFMin
<1>3. x - 1 \in Nat /\ (x - 1) + 1 = x
  <2>1. x \in Nat /\ x # 0
    BY <1>2
  <2> QED  BY <2>1
<1>4. x - 1 \notin S
  BY <1>2, <1>3
<1>5. <<x - 1, x>> \in Less /\ x - 1 \in Left
  BY <1>3, <1>4
<1> QED  BY <1>2, <1>5

\* The element that a sum over a set takes first.
One(S) == CHOOSE x \in S : TRUE
Rest(S) == S \ {One(S)}

\* A finite set that is not empty is one of its elements and a smaller finite set.
LEMMA OneRest ==
  ASSUME NEW S, IsFiniteSet(S), S # {}
  PROVE  /\ One(S) \in S /\ IsFiniteSet(Rest(S))
         /\ Cardinality(S) \in Nat /\ Cardinality(Rest(S)) = Cardinality(S) - 1
<1>1. One(S) \in S
  BY DEF One
<1> QED  BY <1>1, FS_RemoveElement, FS_CardinalityType DEF Rest

\* A family that holds the empty set, and a set with the rest of it, holds
\* every finite set.
LEMMA SetInd ==
  ASSUME NEW U, IsFiniteSet(U), NEW P, {} \in P,
         \A S \in SUBSET U : S # {} /\ Rest(S) \in P => S \in P
  PROVE  U \in P
<1> DEFINE N == {n \in Nat : \A S \in SUBSET U : Cardinality(S) = n => S \in P}
<1>1. 0 \in N
  <2>1. ASSUME NEW S \in SUBSET U, Cardinality(S) = 0 PROVE S = {}
    BY <2>1, FS_Subset, FS_EmptySet
  <2> QED  BY <2>1
<1>2. ASSUME NEW n \in Nat, n \in N PROVE n + 1 \in N
  <2>1. ASSUME NEW S \in SUBSET U, Cardinality(S) = n + 1 PROVE S \in P
    <3>1. IsFiniteSet(S) /\ S # {}
      BY <2>1, FS_Subset, FS_EmptySet
    <3>2. Cardinality(Rest(S)) = n
      BY <2>1, <3>1, OneRest
    <3>3. Rest(S) \in SUBSET U
      BY DEF Rest
    <3>4. Rest(S) \in P
      BY <1>2, <3>2, <3>3
    <3> QED  BY <3>1, <3>4
  <2> QED  BY <2>1
<1>3. Nat \subseteq N
  <2> HIDE DEF N
  <2> QED  BY <1>1, <1>2, NatInd
<1>4. Cardinality(U) \in N
  BY <1>3, FS_CardinalityType
<1> QED  BY <1>4

-----------------------------------------------------------------------------
(* Sums over finite sets.                                                   *)

Sum(x, S) == SumFunctionOnSet(x, S)

\* The recursion that sums x over the subsets of S.
Sums(g, x, S) ==
  g = [s \in SUBSET S |-> IF s = {} THEN 0 ELSE x[One(s)] + g[Rest(s)]]

\* The sum is that function on sets, taken at this one.
LEMMA SumIs == ASSUME NEW x, NEW S PROVE Sum(x, S) = (CHOOSE g : Sums(g, x, S))[S]
BY DEF Sum, SumFunctionOnSet, FoldFunctionOnSet, MapThenFoldSet, Sums, One, Rest

\* There is such a function, for any finite set.
LEMMA SumsExist == ASSUME NEW x, NEW S, IsFiniteSet(S) PROVE \E g : Sums(g, x, S)
<1> DEFINE Small(n) == {s \in SUBSET S : Cardinality(s) <= n}
           Part(g, n) == g = [s \in Small(n) |-> IF s = {} THEN 0 ELSE x[One(s)] + g[Rest(s)]]
           N == {n \in Nat : \E g : Part(g, n)}
<1>1. 0 \in N
  <2> DEFINE g == [s \in Small(0) |-> 0]
  <2>1. \A s \in Small(0) : s = {}
    <3> SUFFICES ASSUME NEW s \in Small(0) PROVE s = {}
      OBVIOUS
    <3>1. IsFiniteSet(s) /\ Cardinality(s) \in Nat /\ Cardinality(s) <= 0
      BY FS_Subset, FS_CardinalityType
    <3> QED  BY <3>1, FS_EmptySet
  <2> HIDE DEF Small
  <2>2. Part(g, 0)
    BY <2>1
  <2> QED  BY <2>2
<1>2. ASSUME NEW n \in Nat, n \in N PROVE n + 1 \in N
  <2>1. PICK f : Part(f, n)
    BY <1>2
  <2> DEFINE g == [s \in Small(n + 1) |-> IF s = {} THEN 0 ELSE x[One(s)] + f[Rest(s)]]
  <2>2. ASSUME NEW s \in Small(n + 1), s # {} PROVE Rest(s) \in Small(n) /\ Rest(s) \in Small(n + 1)
    <3>1. IsFiniteSet(s)
      BY FS_Subset
    <3>2. /\ Cardinality(s) \in Nat /\ Cardinality(s) <= n + 1
          /\ Cardinality(Rest(s)) = Cardinality(s) - 1
      BY <2>2, <3>1, OneRest
    <3>3. Rest(s) \in SUBSET S
      BY DEF Rest
    <3> QED  BY <3>2, <3>3
  <2>3. ASSUME NEW s \in Small(n) PROVE s \in Small(n + 1)
    <3>1. Cardinality(s) \in Nat
      BY FS_Subset, FS_CardinalityType
    <3> QED  BY <3>1
  <2> HIDE DEF Small
  <2>4. ASSUME NEW s \in Small(n) PROVE g[s] = f[s]
    <3>1. g[s] = IF s = {} THEN 0 ELSE x[One(s)] + f[Rest(s)]
      BY <2>3
    <3>2. f[s] = IF s = {} THEN 0 ELSE x[One(s)] + f[Rest(s)]
      BY <2>1
    <3> QED  BY <3>1, <3>2
  <2>5. ASSUME NEW s \in Small(n + 1)
        PROVE  g[s] = IF s = {} THEN 0 ELSE x[One(s)] + g[Rest(s)]
    BY <2>2, <2>4
  <2>6. Part(g, n + 1)
    <3>1. g = [s \in Small(n + 1) |-> g[s]]
      OBVIOUS
    <3> HIDE DEF g
    <3> QED  BY <2>5, <3>1
  <2> HIDE DEF g, Part
  <2> QED  BY <2>6
<1>3. Nat \subseteq N
  <2> HIDE DEF N
  <2> QED  BY <1>1, <1>2, NatInd
<1>4. Cardinality(S) \in Nat /\ Small(Cardinality(S)) = SUBSET S
  BY FS_CardinalityType, FS_Subset
<1>5. \E g : Part(g, Cardinality(S))
  <2>1. Cardinality(S) \in N
    BY <1>3, <1>4
  <2> HIDE DEF Part
  <2> QED  BY <2>1
<1> HIDE DEF Small
<1> QED  BY <1>4, <1>5 DEF Sums

\* And one only.
LEMMA SumsAgree ==
  ASSUME NEW x, NEW S, IsFiniteSet(S), NEW T \in SUBSET S, NEW g, NEW h,
         Sums(g, x, S), Sums(h, x, T)
  PROVE  g[T] = h[T]
<1> DEFINE P == {s \in SUBSET T : g[s] = h[s]}
<1>1. \A s \in SUBSET S : g[s] = IF s = {} THEN 0 ELSE x[One(s)] + g[Rest(s)]
  BY DEF Sums
<1>2. \A s \in SUBSET T : h[s] = IF s = {} THEN 0 ELSE x[One(s)] + h[Rest(s)]
  BY DEF Sums
<1>3. {} \in P
  BY <1>1, <1>2
<1>4. ASSUME NEW s \in SUBSET T, s # {}, Rest(s) \in P PROVE s \in P
  BY <1>1, <1>2, <1>4
<1>5. IsFiniteSet(T)
  BY FS_Subset
<1> HIDE DEF P
<1>6. T \in P
  BY <1>3, <1>4, <1>5, SetInd
<1> QED  BY <1>6 DEF P

\* A sum over a set is one summand and the sum over the rest.
LEMMA SumStep ==
  ASSUME NEW x, NEW S, IsFiniteSet(S)
  PROVE  Sum(x, S) = IF S = {} THEN 0 ELSE x[One(S)] + Sum(x, Rest(S))
<1> DEFINE g == CHOOSE g : Sums(g, x, S)
           h == CHOOSE h : Sums(h, x, Rest(S))
<1>1. Sums(g, x, S)
  BY SumsExist
<1>2. IsFiniteSet(Rest(S)) /\ Rest(S) \in SUBSET S
  BY FS_Subset DEF Rest
<1>3. Sums(h, x, Rest(S))
  BY <1>2, SumsExist
<1>4. Sum(x, S) = g[S] /\ Sum(x, Rest(S)) = h[Rest(S)]
  BY SumIs
<1> HIDE DEF g, h
<1>5. g[S] = IF S = {} THEN 0 ELSE x[One(S)] + g[Rest(S)]
  BY <1>1 DEF Sums
<1>6. g[Rest(S)] = h[Rest(S)]
  BY <1>1, <1>2, <1>3, SumsAgree
<1> QED  BY <1>4, <1>5, <1>6

\* The sum over no keys is zero.
LEMMA SumEmpty == ASSUME NEW x PROVE Sum(x, {}) = 0
<1>1. IsFiniteSet({})
  BY FS_EmptySet
<1> QED  BY <1>1, SumStep

\* What the lemmas below take for granted of the summands.
Numbers(x, S) == \A k \in S : x[k] \in Nat

\* A finite sum of natural numbers is one.
LEMMA SumNat ==
  ASSUME NEW x, NEW S, IsFiniteSet(S), Numbers(x, S) PROVE Sum(x, S) \in Nat
<1> DEFINE P == {s \in SUBSET S : Sum(x, s) \in Nat}
<1>1. ASSUME NEW s \in SUBSET S PROVE IsFiniteSet(s)
  BY FS_Subset
<1>2. {} \in P
  BY SumEmpty
<1>3. ASSUME NEW s \in SUBSET S, s # {}, Rest(s) \in P PROVE s \in P
  <2>1. Sum(x, s) = x[One(s)] + Sum(x, Rest(s))
    BY <1>1, <1>3, SumStep
  <2>2. One(s) \in s
    BY <1>1, <1>3, OneRest
  <2>3. x[One(s)] \in Nat /\ Sum(x, Rest(s)) \in Nat
    BY <1>3, <2>2 DEF Numbers
  <2> QED  BY <2>1, <2>3
<1> HIDE DEF P
<1>4. S \in P
  BY <1>2, <1>3, SetInd
<1> QED  BY <1>4 DEF P

\* Any element may be taken first.
LEMMA SumRemove ==
  ASSUME NEW x, NEW S, IsFiniteSet(S), Numbers(x, S), NEW e \in S
  PROVE  Sum(x, S) = x[e] + Sum(x, S \ {e})
<1> DEFINE P == {s \in SUBSET S : \A d \in s : Sum(x, s) = x[d] + Sum(x, s \ {d})}
<1>1. ASSUME NEW s \in SUBSET S
      PROVE  IsFiniteSet(s) /\ Sum(x, s) \in Nat /\ \A d \in s : x[d] \in Nat
  <2>1. IsFiniteSet(s) /\ Numbers(x, s)
    BY FS_Subset DEF Numbers
  <2> QED  BY <2>1, SumNat DEF Numbers
<1>2. {} \in P
  OBVIOUS
\* The rest of a set has this property before the set has it, and so has the
\* set without the element in question: the family is one of all sizes below.
<1> DEFINE N == {n \in Nat : \A s \in SUBSET S : Cardinality(s) = n => s \in P}
<1>3. 0 \in N
  <2>1. ASSUME NEW s \in SUBSET S, Cardinality(s) = 0 PROVE s = {}
    BY <1>1, <2>1, FS_EmptySet
  <2> QED  BY <1>2, <2>1
<1>4. ASSUME NEW n \in Nat, n \in N PROVE n + 1 \in N
  <2>1. ASSUME NEW s \in SUBSET S, Cardinality(s) = n + 1, NEW d \in s
        PROVE  Sum(x, s) = x[d] + Sum(x, s \ {d})
    <3> DEFINE c == One(s)
    <3>1. c \in s /\ Sum(x, s) = x[c] + Sum(x, s \ {c})
      BY <1>1, <2>1, OneRest, SumStep DEF Rest
    <3> HIDE DEF c
    <3>2. CASE c = d
      BY <3>1, <3>2
    <3>3. CASE c # d
      <4>1. Cardinality(s \ {c}) = n /\ Cardinality(s \ {d}) = n
        <5>1. IsFiniteSet(s) /\ c \in s /\ d \in s /\ (n + 1) - 1 = n
          BY <1>1, <3>1
        <5>2. Cardinality(s \ {c}) = Cardinality(s) - 1
          BY <5>1, FS_RemoveElement
        <5>3. Cardinality(s \ {d}) = Cardinality(s) - 1
          BY <5>1, FS_RemoveElement
        <5> QED  BY <2>1, <5>1, <5>2, <5>3
      <4>2. s \ {c} \in P /\ s \ {d} \in P
        BY <1>4, <4>1
      <4>3. /\ Sum(x, s \ {c}) = x[d] + Sum(x, (s \ {c}) \ {d})
            /\ Sum(x, s \ {d}) = x[c] + Sum(x, (s \ {d}) \ {c})
        BY <3>1, <3>3, <4>2
      <4>4. (s \ {c}) \ {d} = (s \ {d}) \ {c}
        OBVIOUS
      <4> DEFINE r == Sum(x, (s \ {c}) \ {d})
      <4>5. x[c] \in Nat /\ x[d] \in Nat /\ r \in Nat
        BY <1>1, <3>1
      <4>6. Sum(x, s) = x[c] + (x[d] + r) /\ Sum(x, s \ {d}) = x[c] + r
        BY <3>1, <4>3, <4>4
      <4> HIDE DEF r
      <4> QED  BY <4>5, <4>6
    <3> QED  BY <3>2, <3>3
  <2> QED  BY <2>1
<1>5. Nat \subseteq N
  <2> HIDE DEF N
  <2> QED  BY <1>3, <1>4, NatInd
<1>6. Cardinality(S) \in N
  BY <1>5, FS_CardinalityType
<1>7. S \in P
  <2> HIDE DEF P
  <2> QED  BY <1>6
<1> QED  BY <1>7

\* A bound on each summand bounds the sum, from above and from below.
LEMMA SumAtMost ==
  ASSUME NEW x, NEW y, NEW S, IsFiniteSet(S), Numbers(x, S), Numbers(y, S),
         NEW a \in Nat, NEW c \in Nat, \A k \in S : x[k] <= a * y[k] + c
  PROVE  Sum(x, S) <= a * Sum(y, S) + Cardinality(S) * c
<1> DEFINE P == {s \in SUBSET S : Sum(x, s) <= a * Sum(y, s) + Cardinality(s) * c}
<1>1. ASSUME NEW s \in SUBSET S
      PROVE  IsFiniteSet(s) /\ Sum(x, s) \in Nat /\ Sum(y, s) \in Nat
  <2>1. IsFiniteSet(s) /\ Numbers(x, s) /\ Numbers(y, s)
    BY FS_Subset DEF Numbers
  <2> QED  BY <2>1, SumNat
<1>2. {} \in P
  BY SumEmpty, FS_EmptySet
<1>3. ASSUME NEW s \in SUBSET S, s # {}, Rest(s) \in P PROVE s \in P
  <2> DEFINE k == One(s)  X == Sum(x, Rest(s))  Y == Sum(y, Rest(s))
             n == Cardinality(Rest(s))
  <2>1. /\ Sum(x, s) = x[k] + X /\ Sum(y, s) = y[k] + Y
        /\ k \in s /\ Cardinality(s) \in Nat /\ n = Cardinality(s) - 1
    BY <1>1, <1>3, SumStep, OneRest
  <2>2. X \in Nat /\ Y \in Nat /\ n \in Nat /\ X <= a * Y + n * c
    BY <1>1, <1>3, FS_CardinalityType
  <2>3. x[k] \in Nat /\ y[k] \in Nat /\ x[k] <= a * y[k] + c
    BY <2>1 DEF Numbers
  <2>4. Cardinality(s) = n + 1
    BY <2>1, <2>2
  <2> HIDE DEF k, X, Y, n
  <2>5. a * (y[k] + Y) = a * y[k] + a * Y /\ (n + 1) * c = n * c + c
    BY <2>2, <2>3
  <2>6. a * y[k] \in Nat /\ a * Y \in Nat /\ n * c \in Nat
    BY <2>2, <2>3
  <2>7. x[k] + X <= a * (y[k] + Y) + (n + 1) * c
    BY <2>2, <2>3, <2>5, <2>6
  <2> QED  BY <2>1, <2>4, <2>7
<1> HIDE DEF P
<1>4. S \in P
  BY <1>2, <1>3, SetInd
<1> QED  BY <1>4 DEF P

\* If each term of x is a times that of y or more, so is the sum.
LEMMA SumAtLeast ==
  ASSUME NEW x, NEW y, NEW S, IsFiniteSet(S), Numbers(x, S), Numbers(y, S),
         NEW a \in Nat, \A k \in S : a * y[k] <= x[k]
  PROVE  a * Sum(y, S) <= Sum(x, S)
<1> DEFINE P == {s \in SUBSET S : a * Sum(y, s) <= Sum(x, s)}
<1>1. ASSUME NEW s \in SUBSET S
      PROVE  IsFiniteSet(s) /\ Sum(x, s) \in Nat /\ Sum(y, s) \in Nat
  <2>1. IsFiniteSet(s) /\ Numbers(x, s) /\ Numbers(y, s)
    BY FS_Subset DEF Numbers
  <2> QED  BY <2>1, SumNat
<1>2. {} \in P
  BY SumEmpty
<1>3. ASSUME NEW s \in SUBSET S, s # {}, Rest(s) \in P PROVE s \in P
  <2> DEFINE k == One(s)  X == Sum(x, Rest(s))  Y == Sum(y, Rest(s))
  <2>1. Sum(x, s) = x[k] + X /\ Sum(y, s) = y[k] + Y /\ k \in s
    BY <1>1, <1>3, SumStep, OneRest
  <2>2. X \in Nat /\ Y \in Nat /\ a * Y <= X
    BY <1>1, <1>3
  <2>3. x[k] \in Nat /\ y[k] \in Nat /\ a * y[k] <= x[k]
    BY <2>1 DEF Numbers
  <2> HIDE DEF k, X, Y
  <2>4. a * (y[k] + Y) = a * y[k] + a * Y /\ a * y[k] \in Nat /\ a * Y \in Nat
    BY <2>2, <2>3
  <2>5. a * (y[k] + Y) <= x[k] + X
    BY <2>2, <2>3, <2>4
  <2> QED  BY <2>1, <2>5
<1> HIDE DEF P
<1>4. S \in P
  BY <1>2, <1>3, SetInd
<1> QED  BY <1>4 DEF P

\* Larger terms have a larger sum.
LEMMA SumMonotone ==
  ASSUME NEW x, NEW y, NEW S, IsFiniteSet(S), Numbers(x, S), Numbers(y, S),
         \A k \in S : x[k] <= y[k]
  PROVE  Sum(x, S) <= Sum(y, S)
<1>1. \A k \in S : 1 * x[k] <= y[k]
  BY DEF Numbers
<1>2. 1 * Sum(x, S) <= Sum(y, S)
  BY <1>1, SumAtLeast
<1>3. Sum(x, S) \in Nat /\ Sum(y, S) \in Nat
  BY SumNat
<1> QED  BY <1>2, <1>3

\* Only the values on the set matter to the sum.
LEMMA SumSame ==
  ASSUME NEW x, NEW y, NEW S, IsFiniteSet(S), Numbers(x, S), \A k \in S : x[k] = y[k]
  PROVE  Sum(x, S) = Sum(y, S)
<1>1. Numbers(y, S) /\ \A k \in S : x[k] <= y[k] /\ y[k] <= x[k]
  BY DEF Numbers
<1>2. Sum(x, S) <= Sum(y, S) /\ Sum(y, S) <= Sum(x, S)
  BY <1>1, SumMonotone
<1>3. Sum(x, S) \in Nat /\ Sum(y, S) \in Nat
  BY <1>1, SumNat
<1> QED  BY <1>2, <1>3

\* One summand grows, and so does the sum.
LEMMA SumGrow ==
  ASSUME NEW x, NEW y, NEW S, IsFiniteSet(S), Numbers(x, S), Numbers(y, S),
         NEW e \in S, NEW c \in Nat, \A k \in S \ {e} : x[k] = y[k]
  PROVE  /\ y[e] <= x[e] + c => Sum(y, S) <= Sum(x, S) + c
         /\ x[e] + c <= y[e] => Sum(x, S) + c <= Sum(y, S)
<1> DEFINE X == Sum(x, S \ {e})  Y == Sum(y, S \ {e})
<1>1. Sum(x, S) = x[e] + X /\ Sum(y, S) = y[e] + Y
  BY SumRemove
<1>2. IsFiniteSet(S \ {e}) /\ Numbers(x, S \ {e})
  BY FS_RemoveElement DEF Numbers
<1>3. X = Y /\ X \in Nat
  BY <1>2, SumSame, SumNat
<1>4. x[e] \in Nat /\ y[e] \in Nat
  BY DEF Numbers
<1> HIDE DEF X, Y
<1> QED  BY <1>1, <1>3, <1>4

\* A part of a sum is no more than the sum; what it leaves out may be zeros.
LEMMA SumPart ==
  ASSUME NEW x, NEW S, IsFiniteSet(S), Numbers(x, S), NEW T \in SUBSET S
  PROVE  /\ Sum(x, T) <= Sum(x, S)
         /\ (\A k \in S \ T : x[k] = 0) => Sum(x, T) = Sum(x, S)
<1> DEFINE P == {s \in SUBSET (S \ T) :
                   /\ Sum(x, T) <= Sum(x, T \cup s)
                   /\ (\A k \in S \ T : x[k] = 0) => Sum(x, T) = Sum(x, T \cup s)}
<1>1. ASSUME NEW s \in SUBSET S PROVE IsFiniteSet(s) /\ Numbers(x, s) /\ Sum(x, s) \in Nat
  <2>1. IsFiniteSet(s) /\ Numbers(x, s)
    BY FS_Subset DEF Numbers
  <2> QED  BY <2>1, SumNat
<1>2. {} \in P
  <2>1. T \cup {} = T /\ Sum(x, T) \in Nat
    BY <1>1
  <2> QED  BY <2>1
<1>3. ASSUME NEW s \in SUBSET (S \ T), s # {}, Rest(s) \in P PROVE s \in P
  <2> DEFINE k == One(s)  A == T \cup Rest(s)  B == T \cup s
  <2>1. k \in s /\ k \in S \ T /\ IsFiniteSet(s)
    BY <1>1, <1>3, OneRest
  <2>2. B \ {k} = A /\ k \in B /\ A \in SUBSET S /\ B \in SUBSET S
    BY <2>1 DEF Rest
  <2>3. Sum(x, B) = x[k] + Sum(x, A)
    BY <1>1, <2>2, SumRemove
  <2>4. Sum(x, A) \in Nat /\ Sum(x, T) \in Nat /\ x[k] \in Nat
    BY <1>1, <2>1, <2>2 DEF Numbers
  <2>5. /\ Sum(x, T) <= Sum(x, A)
        /\ (\A j \in S \ T : x[j] = 0) => Sum(x, T) = Sum(x, A)
    BY <1>3
  <2> HIDE DEF k, A
  <2>6. Sum(x, T) <= Sum(x, B) /\ ((\A j \in S \ T : x[j] = 0) => Sum(x, T) = Sum(x, B))
    BY <2>1, <2>3, <2>4, <2>5
  <2> QED  BY <2>6
<1>4. IsFiniteSet(S \ T)
  BY <1>1
<1>5. S \ T \in P
  <2> HIDE DEF P
  <2> QED  BY <1>2, <1>3, <1>4, SetInd
<1>6. T \cup (S \ T) = S
  OBVIOUS
<1> QED  BY <1>5, <1>6

\* The community modules' sum of a function is the sum over its domain.
LEMMA SumOfFunction ==
  ASSUME NEW x PROVE SumFunction(x) = Sum(x, DOMAIN x)
BY DEF SumFunction, Sum

-----------------------------------------------------------------------------
(* The invariant.                                                           *)

\* What a rate of a user would be made of: the gain of a counter, now at p,
\* since a pass that saw it at q.
GainOf(p, q, d) == IF p # None /\ p[d] > q[d] THEN p[d] - q[d] ELSE 0

Gains(d) == [u \in Users |-> GainOf(peers[u], prev[u], d)]

\* No counter gained what was not carried; as long as no counter is cut off,
\* what was carried was gained, and no counter is behind.
GainsWereCarried == \A d \in Dirs : Sum(Gains(d), Users) <= since.carried[d]

CarriedIsGained ==
  ~since.cut =>
    /\ \A u \in Users : peers[u] # None => \A d \in Dirs : prev[u][d] <= peers[u][d]
    /\ \A d \in Dirs : since.carried[d] <= Sum(Gains(d), Users)

\* Passes follow one another in time.
InOrder == \A j, k \in DOMAIN log : j <= k => log[j].t <= log[k].t

\* A row tells of its pass what the pass found, rounded for every user.
RateIsOf(rate, entry) ==
  \A d \in Dirs :
    /\ Interval * rate[d] <= entry.carried[d]
    /\ entry.whole =>
         entry.carried[d] <= Interval * rate[d] + Cardinality(Users) * (Interval - 1)

RowsTell ==
  \A k \in DOMAIN snaps : snaps[k].t = log[k].t /\ RateIsOf(snaps[k].rate, log[k])

\* The rows of the last day are there.
DayIsKept == \A k \in DOMAIN log : Kept(log[k], now) => k \in DOMAIN snaps

Accounted == GainsWereCarried /\ CarriedIsGained

IInv == TypeOK /\ Accounted /\ InOrder /\ RowsTell /\ DayIsKept

\* Counters are added direction by direction.
LEMMA BytesTyped ==
  /\ Zero \in Bytes /\ \A d \in Dirs : Zero[d] = 0
  /\ \A a, b \in Bytes : Plus(a, b) \in Bytes /\ \A d \in Dirs : Plus(a, b)[d] = a[d] + b[d]
  /\ \A a \in Bytes, d \in Dirs : a[d] \in Nat
BY DEF Zero, Plus, Bytes

\* What a pass counts of a peer is a natural number, zero if its counter fell.
LEMMA GainTyped ==
  ASSUME NEW p \in Bytes \cup {None}, NEW q \in Bytes, NEW d \in Dirs
  PROVE  GainOf(p, q, d) \in Nat
<1>1. CASE p = None
  BY <1>1 DEF GainOf
<1>2. CASE p # None
  <2>1. p[d] \in Nat /\ q[d] \in Nat
    BY <1>2, BytesTyped
  <2> QED  BY <2>1 DEF GainOf
<1> QED  BY <1>1, <1>2

\* What a pass finds of all the users has a sum.
LEMMA GainsTyped ==
  ASSUME TypeOK, NEW d \in Dirs
  PROVE  Numbers(Gains(d), Users) /\ Sum(Gains(d), Users) \in Nat
<1>1. Numbers(Gains(d), Users)
  BY GainTyped DEF Numbers, Gains, TypeOK
<1> QED  BY <1>1, SumNat, HistoryAssumption

\* Steps of the world leave passes and rows alone.
LEMMA WorldStep ==
  ASSUME IInv, UNCHANGED <<now, snaps, log>>, Accounted',
         peers' \in [Users -> Bytes \cup {None}], prev' \in [Users -> Bytes],
         since' \in [carried : Bytes, cut : BOOLEAN]
  PROVE  IInv'
<1>1. TypeOK'
  BY DEF IInv, TypeOK
<1>2. InOrder' /\ DayIsKept'
  BY DEF IInv, InOrder, DayIsKept, Kept
<1>3. RowsTell'
  BY DEF IInv, RowsTell, RateIsOf
<1> QED  BY <1>1, <1>2, <1>3 DEF IInv

\* Where one user's gain changes, and what was carried changes with it.
LEMMA OneGains ==
  ASSUME TypeOK, GainsWereCarried, NEW u \in Users, NEW c \in Bytes,
         peers' \in [Users -> Bytes \cup {None}], prev' \in [Users -> Bytes],
         \A v \in Users \ {u} : peers'[v] = peers[v] /\ prev'[v] = prev[v],
         \A d \in Dirs : since'.carried[d] = since.carried[d] + c[d],
         \A d \in Dirs : GainOf(peers'[u], prev'[u], d) <= GainOf(peers[u], prev[u], d) + c[d]
  PROVE  /\ GainsWereCarried'
         /\ \A d \in Dirs :
              GainOf(peers[u], prev[u], d) + c[d] <= GainOf(peers'[u], prev'[u], d)
                => Sum(Gains(d), Users) + c[d] <= Sum(Gains(d)', Users)
<1>1. ASSUME NEW d \in Dirs
      PROVE  /\ Sum(Gains(d)', Users) <= Sum(Gains(d), Users) + c[d]
             /\ GainOf(peers[u], prev[u], d) + c[d] <= GainOf(peers'[u], prev'[u], d)
                  => Sum(Gains(d), Users) + c[d] <= Sum(Gains(d)', Users)
  <2> DEFINE x == Gains(d)  y == Gains(d)'
  <2>1. Numbers(x, Users)
    BY GainsTyped
  <2>2. Numbers(y, Users)
    BY GainTyped DEF Numbers, Gains
  <2>3. \A v \in Users \ {u} : x[v] = y[v]
    BY DEF Gains
  <2>4. x[u] = GainOf(peers[u], prev[u], d) /\ y[u] = GainOf(peers'[u], prev'[u], d)
    BY DEF Gains
  <2>5. c[d] \in Nat
    BY BytesTyped
  <2> HIDE DEF x, y
  <2>6. /\ y[u] <= x[u] + c[d] => Sum(y, Users) <= Sum(x, Users) + c[d]
        /\ x[u] + c[d] <= y[u] => Sum(x, Users) + c[d] <= Sum(y, Users)
    BY <2>1, <2>2, <2>3, <2>5, SumGrow, HistoryAssumption
  <2> QED  BY <2>4, <2>6 DEF x, y
<1>2. GainsWereCarried'
  <2> SUFFICES ASSUME NEW d \in Dirs
               PROVE  Sum(Gains(d)', Users) <= since'.carried[d]
    BY DEF GainsWereCarried
  <2>1. Sum(Gains(d), Users) <= since.carried[d] /\ Sum(Gains(d), Users) \in Nat
    BY GainsTyped DEF GainsWereCarried
  <2>2. Sum(Gains(d)', Users) \in Nat
    <3>1. Numbers(Gains(d)', Users)
      BY GainTyped DEF Numbers, Gains
    <3> QED  BY <3>1, SumNat, HistoryAssumption
  <2>3. c[d] \in Nat /\ since.carried[d] \in Nat
    BY BytesTyped DEF TypeOK
  <2> QED  BY <1>1, <2>1, <2>2, <2>3
<1> QED  BY <1>1, <1>2

\* Traffic keeps the invariant.
LEMMA TrafficStep ==
  ASSUME IInv, NEW u \in Users, NEW b \in Loads, Traffic(u, b) PROVE IInv'
<1> DEFINE p == peers[u]  q == prev[u]  p1 == Plus(p, b)
<1>1. TypeOK /\ GainsWereCarried /\ CarriedIsGained
  BY DEF IInv, Accounted
<1>2. /\ b \in Bytes /\ p \in Bytes /\ q \in Bytes /\ p # None /\ None \notin Bytes
      /\ since.carried \in Bytes
  BY <1>1, HistoryAssumption DEF Traffic, TypeOK
<1>3. /\ peers' = [peers EXCEPT ![u] = p1] /\ prev' = prev
      /\ since' = [since EXCEPT !.carried = Plus(@, b)]
      /\ UNCHANGED <<now, snaps, log>>
  BY DEF Traffic
<1>4. /\ p1 \in Bytes /\ p1 # None
      /\ \A d \in Dirs : p1[d] = p[d] + b[d] /\ p[d] \in Nat /\ b[d] \in Nat /\ q[d] \in Nat
  BY <1>2, BytesTyped
<1>5. /\ since' \in [carried : Bytes, cut : BOOLEAN] /\ since'.cut = since.cut
      /\ \A d \in Dirs : since'.carried[d] = since.carried[d] + b[d]
  <2>1. since' = [carried |-> Plus(since.carried, b), cut |-> since.cut]
    BY <1>1, <1>3 DEF TypeOK
  <2> QED  BY <1>1, <1>2, <2>1, BytesTyped DEF TypeOK
<1>6. /\ peers' \in [Users -> Bytes \cup {None}] /\ prev' \in [Users -> Bytes]
      /\ peers'[u] = p1 /\ prev'[u] = q
      /\ \A v \in Users \ {u} : peers'[v] = peers[v] /\ prev'[v] = prev[v]
  BY <1>1, <1>3, <1>4 DEF TypeOK
<1> HIDE DEF p1
<1>7. \A d \in Dirs : GainOf(peers'[u], prev'[u], d) <= GainOf(peers[u], prev[u], d) + b[d]
  BY <1>2, <1>4, <1>6 DEF GainOf
<1>8. /\ GainsWereCarried'
      /\ \A d \in Dirs :
           GainOf(peers[u], prev[u], d) + b[d] <= GainOf(peers'[u], prev'[u], d)
             => Sum(Gains(d), Users) + b[d] <= Sum(Gains(d)', Users)
  BY <1>1, <1>2, <1>5, <1>6, <1>7, OneGains
<1>9. CarriedIsGained'
  <2> SUFFICES ASSUME ~since.cut
               PROVE  /\ \A v \in Users : peers'[v] # None
                           => \A d \in Dirs : prev'[v][d] <= peers'[v][d]
                      /\ \A d \in Dirs : since'.carried[d] <= Sum(Gains(d)', Users)
    BY <1>5 DEF CarriedIsGained
  <2>1. \A v \in Users : peers[v] # None => \A d \in Dirs : prev[v][d] <= peers[v][d]
    BY <1>1 DEF CarriedIsGained
  <2>2. \A d \in Dirs : q[d] <= p[d]
    BY <1>2, <2>1
  <2>3. ASSUME NEW v \in Users, peers'[v] # None, NEW d \in Dirs
        PROVE  prev'[v][d] <= peers'[v][d]
    <3>1. CASE v = u
      BY <1>4, <1>6, <2>2, <3>1
    <3>2. CASE v # u
      BY <1>6, <2>1, <2>3, <3>2
    <3> QED  BY <3>1, <3>2
  <2>4. ASSUME NEW d \in Dirs PROVE since'.carried[d] <= Sum(Gains(d)', Users)
    <3>1. GainOf(p, q, d) + b[d] <= GainOf(p1, q, d)
      BY <1>2, <1>4, <2>2 DEF GainOf
    <3>2. Sum(Gains(d), Users) + b[d] <= Sum(Gains(d)', Users)
      BY <1>6, <1>8, <3>1
    <3>3. since.carried[d] <= Sum(Gains(d), Users)
      BY <1>1 DEF CarriedIsGained
    <3>4. Sum(Gains(d), Users) \in Nat /\ since.carried[d] \in Nat /\ b[d] \in Nat
      BY <1>1, <1>2, <1>4, GainsTyped, BytesTyped
    <3>5. Sum(Gains(d)', Users) \in Nat
      <4>1. Numbers(Gains(d)', Users)
        BY <1>6, GainTyped DEF Numbers, Gains
      <4> QED  BY <4>1, SumNat, HistoryAssumption
    <3> QED  BY <1>5, <3>2, <3>3, <3>4, <3>5
  <2> QED  BY <2>3, <2>4
<1> QED  BY <1>3, <1>5, <1>6, <1>8, <1>9, WorldStep DEF Accounted

\* A peer that joins the interface keeps the invariant.
LEMMA JoinStep ==
  ASSUME IInv, NEW u \in Users, Join(u) PROVE IInv'
<1>1. TypeOK /\ GainsWereCarried /\ CarriedIsGained
  BY DEF IInv, Accounted
<1>2. /\ peers[u] = None /\ prev[u] \in Bytes
      /\ peers' = [peers EXCEPT ![u] = Zero] /\ prev' = prev
      /\ since' = [since EXCEPT !.cut = @ \/ prev[u] # Zero]
      /\ UNCHANGED <<now, snaps, log>>
  BY <1>1 DEF Join, TypeOK
<1>3. /\ peers' \in [Users -> Bytes \cup {None}] /\ prev' \in [Users -> Bytes]
      /\ peers'[u] = Zero /\ \A v \in Users \ {u} : peers'[v] = peers[v]
  BY <1>1, <1>2, BytesTyped DEF TypeOK
<1>4. /\ since' \in [carried : Bytes, cut : BOOLEAN]
      /\ since'.carried = since.carried /\ since'.cut = (since.cut \/ prev[u] # Zero)
  BY <1>1, <1>2 DEF TypeOK
<1>5. \A d \in Dirs : Gains(d)' = Gains(d)
  <2> SUFFICES ASSUME NEW d \in Dirs, NEW v \in Users
               PROVE  GainOf(peers'[v], prev'[v], d) = GainOf(peers[v], prev[v], d)
    BY DEF Gains
  <2>1. CASE v = u
    <3>1. Zero[d] = 0 /\ prev[u][d] \in Nat
      BY <1>2, BytesTyped
    <3> QED  BY <1>2, <1>3, <2>1, <3>1 DEF GainOf
  <2>2. CASE v # u
    BY <1>2, <1>3, <2>2
  <2> QED  BY <2>1, <2>2
<1>6. GainsWereCarried'
  BY <1>1, <1>4, <1>5 DEF GainsWereCarried
<1>7. CarriedIsGained'
  <2> SUFFICES ASSUME ~since.cut, prev[u] = Zero
               PROVE  /\ \A v \in Users : peers'[v] # None
                           => \A d \in Dirs : prev'[v][d] <= peers'[v][d]
                      /\ \A d \in Dirs : since'.carried[d] <= Sum(Gains(d)', Users)
    BY <1>4 DEF CarriedIsGained
  <2>1. ASSUME NEW v \in Users, peers'[v] # None, NEW d \in Dirs
        PROVE  prev'[v][d] <= peers'[v][d]
    <3>1. CASE v = u
      BY <1>2, <1>3, <3>1, BytesTyped
    <3>2. CASE v # u
      BY <1>1, <1>2, <1>3, <2>1, <3>2 DEF CarriedIsGained
    <3> QED  BY <3>1, <3>2
  <2>2. \A d \in Dirs : since'.carried[d] <= Sum(Gains(d)', Users)
    BY <1>1, <1>4, <1>5 DEF CarriedIsGained
  <2> QED  BY <2>1, <2>2
<1> QED  BY <1>2, <1>3, <1>4, <1>6, <1>7, WorldStep DEF Accounted

\* A peer that leaves the interface keeps the invariant.
LEMMA LeaveStep ==
  ASSUME IInv, NEW u \in Users, Leave(u) PROVE IInv'
<1>1. TypeOK /\ GainsWereCarried
  BY DEF IInv, Accounted
<1>2. /\ peers' = [peers EXCEPT ![u] = None] /\ prev' = prev
      /\ since' = [since EXCEPT !.cut = TRUE]
      /\ UNCHANGED <<now, snaps, log>>
  BY DEF Leave
<1>3. /\ peers' \in [Users -> Bytes \cup {None}] /\ prev' \in [Users -> Bytes]
      /\ peers'[u] = None /\ \A v \in Users \ {u} : peers'[v] = peers[v] /\ prev'[v] = prev[v]
  BY <1>1, <1>2 DEF TypeOK
<1>4. /\ since' \in [carried : Bytes, cut : BOOLEAN]
      /\ since'.carried = since.carried /\ since'.cut
  BY <1>1, <1>2 DEF TypeOK
<1>5. ASSUME NEW d \in Dirs
      PROVE  /\ since'.carried[d] = since.carried[d] + Zero[d]
             /\ GainOf(peers'[u], prev'[u], d) <= GainOf(peers[u], prev[u], d) + Zero[d]
  <2>1. Zero[d] = 0 /\ since.carried[d] \in Nat
    BY <1>1, BytesTyped DEF TypeOK
  <2>2. GainOf(peers[u], prev[u], d) \in Nat
    BY <1>1, GainTyped DEF TypeOK
  <2>3. GainOf(peers'[u], prev'[u], d) = 0
    BY <1>3 DEF GainOf
  <2> QED  BY <1>4, <2>1, <2>2, <2>3
<1>6. GainsWereCarried'
  BY <1>1, <1>3, <1>5, OneGains, BytesTyped
<1>7. CarriedIsGained'
  BY <1>4 DEF CarriedIsGained
<1> QED  BY <1>2, <1>3, <1>4, <1>6, <1>7, WorldStep DEF Accounted

\* A user made anew keeps the invariant.
LEMMA RecreateStep ==
  ASSUME IInv, NEW u \in Users, Recreate(u) PROVE IInv'
<1> DEFINE p == peers[u]
<1>1. TypeOK /\ GainsWereCarried
  BY DEF IInv, Accounted
<1>2. /\ prev' = [prev EXCEPT ![u] = Zero] /\ peers' = peers
      /\ since' = [carried |-> Plus(since.carried, p), cut |-> TRUE]
      /\ UNCHANGED <<now, snaps, log>>
      /\ p \in Bytes /\ p # None /\ since.carried \in Bytes
  BY <1>1 DEF Recreate, TypeOK
<1>3. /\ peers' \in [Users -> Bytes \cup {None}] /\ prev' \in [Users -> Bytes]
      /\ prev'[u] = Zero /\ \A v \in Users \ {u} : peers'[v] = peers[v] /\ prev'[v] = prev[v]
  BY <1>1, <1>2, BytesTyped DEF TypeOK
<1>4. /\ since' \in [carried : Bytes, cut : BOOLEAN] /\ since'.cut
      /\ \A d \in Dirs : since'.carried[d] = since.carried[d] + p[d]
  BY <1>2, BytesTyped
<1>5. ASSUME NEW d \in Dirs
      PROVE  GainOf(peers'[u], prev'[u], d) <= GainOf(peers[u], prev[u], d) + p[d]
  <2>1. Zero[d] = 0 /\ p[d] \in Nat
    BY <1>2, BytesTyped
  <2>2. GainOf(p, prev[u], d) \in Nat
    BY <1>1, <1>2, GainTyped DEF TypeOK
  <2>3. GainOf(peers'[u], prev'[u], d) <= p[d]
    BY <1>2, <1>3, <2>1 DEF GainOf
  <2>4. GainOf(peers'[u], prev'[u], d) \in Nat
    BY <1>3, GainTyped
  <2> QED  BY <2>1, <2>2, <2>3, <2>4
<1>6. GainsWereCarried'
  BY <1>1, <1>2, <1>3, <1>4, <1>5, OneGains
<1>7. CarriedIsGained'
  BY <1>4 DEF CarriedIsGained
<1> QED  BY <1>2, <1>3, <1>4, <1>6, <1>7, WorldStep DEF Accounted

-----------------------------------------------------------------------------
(* A pass.                                                                  *)

\* Dividing by the interval loses less than the interval.
LEMMA Quotient ==
  ASSUME NEW n \in Nat
  PROVE  /\ n \div Interval \in Nat /\ Interval * (n \div Interval) <= n
         /\ n <= Interval * (n \div Interval) + (Interval - 1)
BY HistoryAssumption

\* A rate is the gain over the interval, or nothing.
LEMMA RateTyped ==
  ASSUME TypeOK, NEW u \in Users, peers[u] # None, NEW d \in Dirs
  PROVE  /\ Rate(u)[d] \in Nat
         /\ Interval * Rate(u)[d] <= Gains(d)[u]
         /\ (\A e \in Dirs : prev[u][e] <= peers[u][e]) =>
              Gains(d)[u] <= Interval * Rate(u)[d] + (Interval - 1)
<1>1. \A e \in Dirs : peers[u][e] \in Nat /\ prev[u][e] \in Nat
  BY BytesTyped DEF TypeOK
<1>2. Gains(d)[u] = IF peers[u][d] > prev[u][d] THEN peers[u][d] - prev[u][d] ELSE 0
  BY DEF Gains, GainOf
<1>3. Interval \in Nat \ {0}
  BY HistoryAssumption
<1>4. CASE \A e \in Dirs : prev[u][e] <= peers[u][e]
  <2> DEFINE n == peers[u][d] - prev[u][d]
  <2>1. \A e \in Dirs : peers[u][e] >= prev[u][e]
    BY <1>1, <1>4
  <2>2. Rate(u)[d] = n \div Interval
    BY <2>1 DEF Rate
  <2>3. n \in Nat /\ Gains(d)[u] = n
    BY <1>1, <1>2, <2>1
  <2> HIDE DEF n
  <2> QED  BY <2>2, <2>3, Quotient
<1>5. CASE ~\A e \in Dirs : prev[u][e] <= peers[u][e]
  <2>1. ~\A e \in Dirs : peers[u][e] >= prev[u][e]
    BY <1>1, <1>5
  <2>2. Rate(u)[d] = 0
    BY <2>1, BytesTyped DEF Rate
  <2>3. Gains(d)[u] \in Nat /\ Interval * 0 = 0
    BY <1>1, <1>2, <1>3
  <2> QED  BY <1>5, <2>2, <2>3
<1> QED  BY <1>4, <1>5

\* What a pass writes down tells what was carried.
LEMMA PassRate ==
  ASSUME TypeOK, Accounted, NEW live \in SUBSET {u \in Users : peers[u] # None},
         NEW rate, rate = [d \in Dirs |-> SumFunction([u \in live |-> Rate(u)[d]])],
         NEW entry, entry.carried = since.carried,
         entry.whole = (~since.cut /\ live = {u \in Users : peers[u] # None})
  PROVE  rate \in Bytes /\ RateIsOf(rate, entry)
<1>1. IsFiniteSet(live) /\ IsFiniteSet(Users) /\ Cardinality(live) <= Cardinality(Users)
  BY HistoryAssumption, FS_Subset
<1>2. Cardinality(live) \in Nat /\ Cardinality(Users) \in Nat
  BY <1>1, FS_CardinalityType
<1>3. ASSUME NEW d \in Dirs
      PROVE  /\ rate[d] \in Nat
             /\ Interval * rate[d] <= since.carried[d]
             /\ entry.whole => since.carried[d]
                                 <= Interval * rate[d] + Cardinality(Users) * (Interval - 1)
  <2> DEFINE x == Gains(d)
             y == [u \in live |-> Rate(u)[d]]
             D == Interval - 1
  <2>1. rate[d] = Sum(y, live)
    BY SumOfFunction
  <2>2. Numbers(x, Users) /\ Numbers(x, live) /\ Sum(x, Users) \in Nat
    BY GainsTyped DEF Numbers
  <2>3. /\ Numbers(y, live)
        /\ \A u \in live : Interval * y[u] <= x[u]
    BY RateTyped DEF Numbers
  <2>4. since.carried[d] \in Nat /\ Sum(x, Users) <= since.carried[d]
    BY BytesTyped DEF TypeOK, Accounted, GainsWereCarried
  <2>5. entry.whole => \A u \in live : x[u] <= Interval * y[u] + D
    BY RateTyped DEF Accounted, CarriedIsGained
  <2>6. entry.whole => \A u \in Users \ live : x[u] = 0
    BY DEF Gains, GainOf
  <2>7. entry.whole => since.carried[d] <= Sum(x, Users)
    BY DEF Accounted, CarriedIsGained
  <2>8. Interval \in Nat /\ D \in Nat
    BY HistoryAssumption
  <2> HIDE DEF x, y, D
  <2>9. Sum(y, live) \in Nat /\ Sum(x, live) \in Nat
    BY <1>1, <2>2, <2>3, SumNat
  <2>10. Interval * Sum(y, live) <= Sum(x, live)
    BY <1>1, <2>2, <2>3, <2>8, SumAtLeast
  <2>11. Sum(x, live) <= Sum(x, Users)
    BY <1>1, <2>2, SumPart
  <2>12. entry.whole => since.carried[d] <= Interval * Sum(y, live) + Cardinality(Users) * D
    <3> SUFFICES ASSUME entry.whole
                 PROVE  since.carried[d] <= Interval * Sum(y, live) + Cardinality(Users) * D
      OBVIOUS
    <3>1. Sum(x, live) = Sum(x, Users)
      BY <1>1, <2>2, <2>6, SumPart
    <3>2. Sum(x, live) <= Interval * Sum(y, live) + Cardinality(live) * D
      BY <1>1, <2>2, <2>3, <2>5, <2>8, SumAtMost
    <3>3. Cardinality(live) * D <= Cardinality(Users) * D
      BY <1>1, <1>2, <2>8
    <3>4. Interval * Sum(y, live) \in Nat /\ Cardinality(live) * D \in Nat
          /\ Cardinality(Users) * D \in Nat
      BY <1>2, <2>8, <2>9
    <3> QED  BY <2>2, <2>4, <2>7, <2>9, <3>1, <3>2, <3>3, <3>4
  <2>13. Interval * Sum(y, live) \in Nat
    BY <2>8, <2>9
  <2>14. Interval * Sum(y, live) <= since.carried[d]
    BY <2>2, <2>4, <2>9, <2>10, <2>11, <2>13
  <2> QED  BY <2>1, <2>9, <2>12, <2>14 DEF D
<1>4. rate \in Bytes
  BY <1>3 DEF Bytes
<1>5. RateIsOf(rate, entry)
  BY <1>3 DEF RateIsOf
<1> QED  BY <1>4, <1>5

\* After a pass nobody has gained anything, and nothing is carried.
LEMMA PassAccounts ==
  ASSUME TypeOK,
         peers' = peers, since' = Quiet,
         prev' = [u \in Users |-> IF peers[u] # None THEN peers[u] ELSE prev[u]]
  PROVE  prev' \in [Users -> Bytes] /\ since' \in [carried : Bytes, cut : BOOLEAN] /\ Accounted'
<1>1. \A u \in Users : peers[u] \in Bytes \cup {None} /\ prev[u] \in Bytes
  BY DEF TypeOK
<1>2. prev' \in [Users -> Bytes]
  BY <1>1
<1>3. /\ since' \in [carried : Bytes, cut : BOOLEAN] /\ ~since'.cut
      /\ \A d \in Dirs : since'.carried[d] = 0
  BY BytesTyped DEF Quiet
<1>4. ASSUME NEW u \in Users, NEW d \in Dirs
      PROVE  /\ Gains(d)'[u] = 0
             /\ peers'[u] # None => prev'[u][d] <= peers'[u][d]
  <2>1. peers[u] # None => prev'[u] = peers[u] /\ peers[u][d] \in Nat
    BY <1>1, BytesTyped
  <2> QED  BY <2>1 DEF Gains, GainOf
<1>5. ASSUME NEW d \in Dirs PROVE Sum(Gains(d)', Users) = 0
  <2> DEFINE x == Gains(d)'
  <2>1. Numbers(x, Users) /\ \A u \in Users \ {} : x[u] = 0
    BY <1>4 DEF Numbers
  <2> HIDE DEF x
  <2>2. Sum(x, {}) = Sum(x, Users)
    BY <2>1, SumPart, HistoryAssumption
  <2>3. Sum(x, Users) = 0
    BY <2>2, SumEmpty
  <2> QED  BY <2>3 DEF x
<1>6. Accounted'
  BY <1>3, <1>4, <1>5 DEF Accounted, GainsWereCarried, CarriedIsGained
<1> QED  BY <1>2, <1>3, <1>6

\* A pass of the collector keeps the invariant.
LEMMA PassStep ==
  ASSUME IInv, NEW live \in SUBSET Users, NEW wait \in Waits, Pass(live, wait) PROVE IInv'
<1> DEFINE time == now + wait
           n == Len(log)
           rate == [d \in Dirs |-> SumFunction([u \in live |-> Rate(u)[d]])]
           seen == {u \in Users : peers[u] # None}
           entry == [t |-> time, carried |-> since.carried, whole |-> ~since.cut /\ live = seen]
           row == [t |-> time, rate |-> rate]
           all == [k \in DOMAIN snaps \cup {n + 1} |-> IF k = n + 1 THEN row ELSE snaps[k]]
           Entry(t) == [t : 0..t, carried : Bytes, whole : BOOLEAN]
<1>1. TypeOK /\ Accounted /\ InOrder /\ RowsTell /\ DayIsKept
  BY DEF IInv
<1>2. /\ live \subseteq seen
      /\ prev' = [u \in Users |-> IF u \in seen THEN peers[u] ELSE prev[u]]
      /\ log' = Append(log, entry) /\ since' = Quiet /\ now' = time /\ peers' = peers
      /\ snaps' = [k \in {j \in DOMAIN all : Kept(all[j], time)} |-> all[k]]
  BY DEF Pass, RestrictValues, Restrict
<1>3. now \in Nat /\ wait \in Nat /\ time \in Nat /\ now <= time
  BY <1>1, HistoryAssumption DEF TypeOK
<1>4. rate \in Bytes /\ RateIsOf(rate, entry)
  <2>1. live \in SUBSET seen
    BY <1>2
  <2>2. entry.carried = since.carried /\ entry.whole = (~since.cut /\ live = seen)
    OBVIOUS
  <2> HIDE DEF rate, entry
  <2>3. rate = [d \in Dirs |-> SumFunction([u \in live |-> Rate(u)[d]])]
    BY DEF rate
  <2> QED  BY <1>1, <2>1, <2>2, <2>3, PassRate
<1>5. /\ prev' \in [Users -> Bytes] /\ since' \in [carried : Bytes, cut : BOOLEAN]
      /\ Accounted'
  BY <1>1, <1>2, PassAccounts
<1>6. entry \in Entry(time) /\ log \in Seq(Entry(now)) /\ n \in Nat
  <2>1. since.carried \in Bytes /\ log \in Seq(Entry(now))
    BY <1>1 DEF TypeOK
  <2>2. entry \in Entry(time)
    BY <2>1, <1>3
  <2>3. n \in Nat
    <3> HIDE DEF Entry
    <3> QED  BY <2>1, LenProperties
  <2> QED  BY <2>1, <2>2, <2>3
<1>7. log \in Seq(Entry(time))
  <2>1. Entry(now) \subseteq Entry(time)
    BY <1>3
  <2> HIDE DEF Entry
  <2> QED  BY <1>6, <2>1, SeqDef
<1>8. /\ log' \in Seq(Entry(time)) /\ Len(log') = n + 1 /\ DOMAIN log' = 1..(n + 1)
      /\ DOMAIN log = 1..n /\ log'[n + 1] = entry
      /\ \A k \in DOMAIN log : log'[k] = log[k] /\ k # n + 1
  <2> HIDE DEF Entry, entry
  <2> QED  BY <1>2, <1>6, <1>7, AppendProperties, LenProperties
<1>9. /\ \A k \in DOMAIN log : log[k].t \in 0..now
      /\ \A k \in DOMAIN log' : log'[k].t \in 0..time
  <2>1. /\ \A k \in DOMAIN log : log[k] \in Entry(now)
        /\ \A k \in DOMAIN log' : log'[k] \in Entry(time)
    <3> HIDE DEF Entry
    <3> QED  BY <1>6, <1>8, ElementOfSeq
  <2> QED  BY <2>1
<1>10. /\ DOMAIN snaps' = {j \in DOMAIN snaps \cup {n + 1} : Kept(all[j], time)}
       /\ \A k \in DOMAIN snaps' : snaps'[k] = all[k]
       /\ all[n + 1] = row /\ \A k \in DOMAIN snaps : k # n + 1 => all[k] = snaps[k]
  BY <1>2
<1>11. DOMAIN snaps \subseteq DOMAIN log
  BY <1>1 DEF TypeOK
<1>12. TypeOK'
  <2>1. ASSUME NEW k \in DOMAIN snaps' PROVE snaps'[k] \in [t : 0..time, rate : Bytes]
    <3>1. CASE k = n + 1
      <4>1. snaps'[k] = [t |-> time, rate |-> rate]
        BY <1>10, <2>1, <3>1
      <4>2. time \in 0..time
        BY <1>3
      <4> HIDE DEF rate, time
      <4> QED  BY <1>4, <4>1, <4>2
    <3>2. CASE k # n + 1
      <4>1. k \in DOMAIN snaps /\ snaps'[k] = snaps[k]
        BY <1>10, <2>1, <3>2
      <4>2. snaps[k] \in [t : 0..now, rate : Bytes]
        BY <1>1, <4>1 DEF TypeOK
      <4>3. 0..now \subseteq 0..time
        BY <1>3
      <4> HIDE DEF time
      <4> QED  BY <4>1, <4>2, <4>3
    <3> QED  BY <3>1, <3>2
  <2>2. snaps' = [k \in DOMAIN snaps' |-> snaps'[k]]
    BY <1>2
  <2>3. snaps' \in [DOMAIN snaps' -> [t : 0..time, rate : Bytes]]
    BY <2>1, <2>2
  <2>4. DOMAIN snaps' \subseteq DOMAIN log'
    BY <1>8, <1>10, <1>11
  <2>5. peers' \in [Users -> Bytes \cup {None}]
    BY <1>1, <1>2 DEF TypeOK
  <2> QED  BY <1>2, <1>3, <1>5, <1>8, <2>3, <2>4, <2>5 DEF TypeOK
<1>13. InOrder'
  <2> SUFFICES ASSUME NEW j \in DOMAIN log', NEW k \in DOMAIN log', j <= k
               PROVE  log'[j].t <= log'[k].t
    BY DEF InOrder
  <2>1. CASE k = n + 1
    <3>1. log'[k].t = time
      BY <1>8, <2>1
    <3>2. log'[j].t \in 0..time
      BY <1>9
    <3> QED  BY <3>1, <3>2
  <2>2. CASE k # n + 1
    <3>1. k \in DOMAIN log /\ j \in DOMAIN log
      BY <1>6, <1>8, <2>2
    <3> QED  BY <1>1, <1>8, <3>1 DEF InOrder
  <2> QED  BY <2>1, <2>2
<1>14. RowsTell'
  <2> SUFFICES ASSUME NEW k \in DOMAIN snaps'
               PROVE  snaps'[k].t = log'[k].t /\ RateIsOf(snaps'[k].rate, log'[k])
    BY DEF RowsTell, RateIsOf
  <2>1. CASE k = n + 1
    <3>1. snaps'[k] = row /\ log'[k] = entry
      BY <1>8, <1>10, <2>1
    <3> QED  BY <1>4, <3>1
  <2>2. CASE k # n + 1
    <3>1. k \in DOMAIN snaps /\ k \in DOMAIN log
      BY <1>10, <1>11, <2>2
    <3>2. snaps'[k] = snaps[k] /\ log'[k] = log[k]
      BY <1>8, <1>10, <2>2, <3>1
    <3> QED  BY <1>1, <3>1, <3>2 DEF RowsTell
  <2> QED  BY <2>1, <2>2
<1>15. DayIsKept'
  <2> SUFFICES ASSUME NEW k \in DOMAIN log', Kept(log'[k], time) PROVE k \in DOMAIN snaps'
    BY <1>2 DEF DayIsKept, Kept
  <2>1. CASE k = n + 1
    <3>1. Kept(row, time)
      BY <1>8, <2>1 DEF Kept
    <3> QED  BY <1>10, <2>1, <3>1
  <2>2. CASE k # n + 1
    <3>1. k \in DOMAIN log /\ log'[k] = log[k]
      BY <1>6, <1>8, <2>2
    <3>2. log[k].t \in Nat /\ Day \in Nat
      BY <1>9, <3>1, HistoryAssumption
    <3>3. Kept(log[k], now)
      BY <1>3, <3>1, <3>2 DEF Kept
    <3>4. k \in DOMAIN snaps /\ snaps[k].t = log[k].t
      BY <1>1, <3>1, <3>3 DEF DayIsKept, RowsTell
    <3>5. Kept(all[k], time)
      BY <1>10, <2>2, <3>1, <3>4 DEF Kept
    <3> QED  BY <1>10, <3>4, <3>5
  <2> QED  BY <2>1, <2>2
<1> QED  BY <1>5, <1>12, <1>13, <1>14, <1>15 DEF IInv

-----------------------------------------------------------------------------
(* The theorems. *)

\* The invariant holds of an empty history.
LEMMA InitInv == Init => IInv
<1> SUFFICES ASSUME Init PROVE IInv
  OBVIOUS
<1>1. DOMAIN log = {} /\ DOMAIN snaps = {} /\ log = <<>> /\ snaps = <<>>
  BY DEF Init
<1>2. TypeOK
  <2>1. log \in Seq([t : 0..now, carried : Bytes, whole : BOOLEAN])
    BY <1>1
  <2>2. snaps \in [DOMAIN snaps -> [t : 0..now, rate : Bytes]]
    BY <1>1
  <2> QED  BY <1>1, <2>1, <2>2, BytesTyped DEF Init, TypeOK, Quiet
<1>3. \A d \in Dirs : Sum(Gains(d), Users) = 0
  <2> SUFFICES ASSUME NEW d \in Dirs PROVE Sum(Gains(d), Users) = 0
    OBVIOUS
  <2> DEFINE x == Gains(d)
  <2>1. Numbers(x, Users) /\ \A u \in Users \ {} : x[u] = 0
    BY DEF Init, Numbers, Gains, GainOf
  <2> HIDE DEF x
  <2>2. Sum(x, {}) = Sum(x, Users)
    BY <2>1, SumPart, HistoryAssumption
  <2> QED  BY <2>2, SumEmpty DEF x
<1>4. Accounted
  BY <1>3, BytesTyped DEF Init, Quiet, Accounted, GainsWereCarried, CarriedIsGained
<1>5. InOrder /\ RowsTell /\ DayIsKept
  BY <1>1 DEF InOrder, RowsTell, DayIsKept
<1> QED  BY <1>2, <1>4, <1>5 DEF IInv

\* Every step keeps the invariant.
LEMMA NextInv == IInv /\ [Next]_vars => IInv'
<1> SUFFICES ASSUME IInv, [Next]_vars PROVE IInv'
  OBVIOUS
<1>1. CASE \E u \in Users : Join(u) \/ Leave(u) \/ Recreate(u) \/ \E b \in Loads : Traffic(u, b)
  BY <1>1, JoinStep, LeaveStep, RecreateStep, TrafficStep
<1>2. CASE \E live \in SUBSET Users, wait \in Waits : Pass(live, wait)
  BY <1>2, PassStep
<1>3. CASE UNCHANGED vars
  <2>1. UNCHANGED <<now, peers, prev, snaps, since, log>>
    BY <1>3 DEF vars
  <2>2. \A d \in Dirs : Gains(d)' = Gains(d)
    BY <2>1 DEF Gains
  <2>3. Accounted'
    BY <2>1, <2>2 DEF IInv, Accounted, GainsWereCarried, CarriedIsGained
  <2>4. /\ peers' \in [Users -> Bytes \cup {None}] /\ prev' \in [Users -> Bytes]
        /\ since' \in [carried : Bytes, cut : BOOLEAN]
    BY <2>1 DEF IInv, TypeOK
  <2> QED  BY <2>1, <2>3, <2>4, WorldStep
<1> QED  BY <1>1, <1>2, <1>3 DEF Next

\* The invariant holds in every state.
LEMMA Invariant == Spec => []IInv
BY InitInv, NextInv, PTL DEF Spec

(***************************************************************************)
(* Counters, rates, rows and passes keep their types: no rate and no gain  *)
(* is negative, and every row is of a pass there was.                      *)
(***************************************************************************)
THEOREM TypeCorrect == Spec => []TypeOK
<1>1. IInv => TypeOK
  BY DEF IInv
<1> QED  BY <1>1, Invariant, PTL

\* A set of numbers that is not empty has a least member.
LEMMA Least ==
  ASSUME NEW S, S \subseteq Nat, S # {} PROVE \E a \in S : \A b \in S : a <= b
<1> SUFFICES ASSUME \A a \in S : \E b \in S : ~(a <= b) PROVE FALSE
  OBVIOUS
<1> DEFINE N == {n \in Nat : \A a \in S : a > n}
<1>1. 0 \in N
  <2>1. ASSUME NEW a \in S PROVE a > 0
    <3>1. PICK b \in S : ~(a <= b)
      OBVIOUS
    <3> QED  BY <3>1
  <2> QED  BY <2>1
<1>2. ASSUME NEW n \in Nat, n \in N PROVE n + 1 \in N
  <2>1. ASSUME NEW a \in S PROVE a > n + 1
    <3>1. PICK b \in S : ~(a <= b)
      OBVIOUS
    <3>2. a \in Nat /\ b \in Nat /\ b > n /\ a > b
      BY <1>2, <3>1
    <3> QED  BY <3>2
  <2> QED  BY <2>1
<1>3. Nat \subseteq N
  <2> HIDE DEF N
  <2> QED  BY <1>1, <1>2, NatInd
<1>4. PICK a \in S : TRUE
  OBVIOUS
<1>5. a \in N
  BY <1>3, <1>4
<1> QED  BY <1>4, <1>5

\* Of the later rows of a chart there is a first.
LEMMA LaterHasMin ==
  ASSUME NEW s, DOMAIN s \subseteq Nat, NEW k, Later(s, k) # {}
  PROVE  Min(Later(s, k)) \in Later(s, k)
<1>1. Later(s, k) \subseteq Nat
  BY DEF Later
<1>2. \E x \in Later(s, k) : \A y \in Later(s, k) : x <= y
  BY <1>1, Least
<1> QED  BY <1>2 DEF Min

\* The passes are numbered from 1, and each has its time and what it found.
LEMMA LogTyped ==
  ASSUME TypeOK
  PROVE  /\ DOMAIN log = 1..Len(log) /\ Len(log) \in Nat /\ DOMAIN log \subseteq Nat
         /\ \A k \in DOMAIN log : log[k].t \in 0..now /\ log[k].carried \in Bytes
<1>1. log \in Seq([t : 0..now, carried : Bytes, whole : BOOLEAN])
  BY DEF TypeOK
<1>2. DOMAIN log = 1..Len(log) /\ Len(log) \in Nat
  BY <1>1, LenProperties
<1>3. \A k \in DOMAIN log : log[k] \in [t : 0..now, carried : Bytes, whole : BOOLEAN]
  BY <1>1, <1>2, ElementOfSeq
<1> QED  BY <1>2, <1>3

\* A row counts for at most two intervals, a regular pass for one at least.
LEMMA WeightBound ==
  ASSUME IInv, NEW k \in DOMAIN snaps, Later(snaps, k) # {}
  PROVE  /\ k \in DOMAIN log /\ Weight(k) \in 0..(2 * Interval)
         /\ Gap(snaps, k) \in Nat
<1> DEFINE L == Later(snaps, k)  m == Min(L)
<1>1. L \subseteq DOMAIN snaps /\ DOMAIN snaps \subseteq DOMAIN log /\ DOMAIN log \subseteq Nat
  BY LogTyped DEF IInv, TypeOK, Later
<1>3. m \in L
  BY <1>1, LaterHasMin
<1>4. m \in DOMAIN snaps /\ m > k /\ m \in DOMAIN log /\ k \in DOMAIN log
  BY <1>1, <1>3 DEF Later
<1>5. k \in Nat /\ m \in Nat /\ k <= m
  BY <1>1, <1>4
<1>6. snaps[k].t = log[k].t /\ snaps[m].t = log[m].t /\ log[k].t <= log[m].t
  BY <1>4, <1>5 DEF IInv, RowsTell, InOrder
<1>7. snaps[k].t \in Nat /\ snaps[m].t \in Nat
  BY <1>4 DEF IInv, TypeOK
<1> HIDE DEF m
<1>8. Gap(snaps, k) = snaps[m].t - snaps[k].t /\ Gap(snaps, k) \in Nat
  BY <1>6, <1>7 DEF Gap, m
<1>9. Weight(k) \in 0..(2 * Interval)
  BY <1>8, HistoryAssumption DEF Weight
<1> QED  BY <1>4, <1>8, <1>9

\* The passes of a day are finitely many.
LEMMA OnIsFinite ==
  ASSUME IInv, NEW day
  PROVE  /\ IsFiniteSet(DOMAIN log)
         /\ On(day, log) \in SUBSET DOMAIN log /\ On(day, snaps) \in SUBSET On(day, log)
         /\ \A d \in Dirs, k \in DOMAIN log : log[k].carried[d] \in Nat
<1>1. DOMAIN log = 1..Len(log) /\ Len(log) \in Nat
  BY LogTyped DEF IInv
<1>3. IsFiniteSet(DOMAIN log)
  BY <1>1, FS_Interval
<1>4. \A k \in DOMAIN log : log[k].carried \in Bytes
  BY LogTyped DEF IInv
<1>5. On(day, snaps) \in SUBSET On(day, log)
  BY DEF IInv, TypeOK, RowsTell, On
<1> QED  BY <1>3, <1>4, <1>5, BytesTyped DEF On

(***************************************************************************)
(* Whatever the interval, the users and the times of the passes, the chart *)
(* shows for no day more than twice the bytes its passes found.            *)
(***************************************************************************)
THEOREM ChartIsBounded == Spec => []ChartedTwiceAtMost
<1>1. ASSUME IInv, NEW day \in 0..(Month - 1), NEW d \in Dirs
      PROVE  Chart(day)[d] <= 2 * CarriedIn(On(day, log), d)
  <2> DEFINE C == Charted(day)  A == On(day, log)
             x == [k \in C |-> snaps[k].rate[d] * Weight(k)]
             y == [k \in A |-> log[k].carried[d]]
  <2>1. C \in SUBSET A /\ A \in SUBSET DOMAIN log /\ IsFiniteSet(A) /\ IsFiniteSet(C)
    <3>1. C \in SUBSET On(day, snaps)
      BY DEF Charted
    <3>2. C \in SUBSET A /\ A \in SUBSET DOMAIN log
      BY <1>1, <3>1, OnIsFinite
    <3> QED  BY <1>1, <3>2, OnIsFinite, FS_Subset
  <2>2. Chart(day)[d] = Sum(x, C) /\ CarriedIn(A, d) = Sum(y, A)
    BY SumOfFunction DEF Chart, CarriedIn
  <2>3. Numbers(y, A) /\ Numbers(y, C)
    BY <1>1, <2>1, OnIsFinite DEF Numbers
  <2>4. ASSUME NEW k \in C PROVE x[k] \in Nat /\ x[k] <= 2 * y[k] + 0
    <3> DEFINE r == snaps[k].rate[d]  w == Weight(k)  c == log[k].carried[d]
    <3>1. k \in DOMAIN snaps /\ k \in A
      BY <2>1 DEF Charted, On
    <3>2. w \in 0..(2 * Interval) /\ Interval \in Nat
      BY <1>1, <3>1, WeightBound, HistoryAssumption DEF Charted
    <3>3. r \in Nat /\ c \in Nat /\ Interval * r <= c
      BY <1>1, <2>1, <3>1, OnIsFinite, BytesTyped DEF IInv, TypeOK, RowsTell, RateIsOf
    <3>4. x[k] = r * w /\ y[k] = c
      BY <3>1
    <3> HIDE DEF r, w, c, x, y
    <3>5. r * w \in Nat /\ r * w <= r * (2 * Interval)
      BY <3>2, <3>3
    <3>6. r * (2 * Interval) = 2 * (Interval * r) /\ Interval * r \in Nat
      BY <3>2, <3>3
    <3> QED  BY <3>3, <3>4, <3>5, <3>6
  <2>5. Numbers(x, C)
    BY <2>4 DEF Numbers
  <2> HIDE DEF x, y, C, A
  <2>6. Sum(x, C) <= 2 * Sum(y, C) + Cardinality(C) * 0
    BY <2>1, <2>3, <2>4, <2>5, SumAtMost
  <2>7. Sum(y, C) <= Sum(y, A)
    BY <2>1, <2>3, SumPart
  <2>8. Sum(x, C) \in Nat /\ Sum(y, C) \in Nat /\ Sum(y, A) \in Nat /\ Cardinality(C) \in Nat
    BY <2>1, <2>3, <2>5, SumNat, FS_CardinalityType
  <2> QED  BY <2>2, <2>6, <2>7, <2>8 DEF A
<1>2. IInv => ChartedTwiceAtMost
  BY <1>1 DEF ChartedTwiceAtMost
<1> QED  BY <1>2, Invariant, PTL

(***************************************************************************)
(* What regular passes of the last day found is charted, up to the         *)
(* rounding of one interval's rest per user and pass.                      *)
(***************************************************************************)
THEOREM RegularIsCharted == Spec => []RegularPassesAreCharted
<1>1. ASSUME IInv, NEW day \in 0..(Month - 1), NEW d \in Dirs
      PROVE  Chart(day)[d] + Cardinality(Regular(day)) * Cardinality(Users) * (Interval - 1)
               >= CarriedIn(Regular(day), d)
  <2> DEFINE C == Charted(day)  R == Regular(day)
             D == Cardinality(Users) * (Interval - 1)
             x == [k \in C |-> snaps[k].rate[d] * Weight(k)]
             y == [k \in R |-> log[k].carried[d]]
             z == [k \in R |-> Interval * snaps[k].rate[d]]
  <2>0. Interval \in Nat \ {0} /\ Cardinality(Users) \in Nat /\ D \in Nat
    BY HistoryAssumption, FS_CardinalityType
  <2>1. DOMAIN snaps \subseteq DOMAIN log /\ IsFiniteSet(DOMAIN log)
    BY <1>1, OnIsFinite DEF IInv, TypeOK
  <2>2. ASSUME NEW k \in DOMAIN snaps PROVE snaps[k].rate[d] \in Nat
    BY <1>1, BytesTyped DEF IInv, TypeOK
  <2>3. ASSUME NEW k \in R
        PROVE  k \in C /\ Weight(k) \in Nat /\ Interval <= Weight(k)
    <3>1. /\ k \in On(day, log) /\ Later(log, k) # {} /\ Kept(log[k], now)
          /\ Gap(log, k) \in Interval..(2 * Interval)
      BY DEF Regular, Kept
    <3>2. k \in DOMAIN log /\ k \in DOMAIN snaps
      BY <1>1, <3>1 DEF On, IInv, DayIsKept
    <3>3. Later(snaps, k) = Later(log, k)
      <4> SUFFICES ASSUME NEW j \in DOMAIN log, j > k PROVE j \in DOMAIN snaps
        BY <2>1 DEF Later
      <4>1. log[k].t <= log[j].t
        <5>1. k \in Nat /\ j \in Nat /\ k <= j
          BY <1>1, <3>2, LogTyped DEF IInv
        <5> QED  BY <1>1, <3>2, <5>1 DEF IInv, InOrder
      <4>2. log[k].t \in Nat /\ log[j].t \in Nat /\ now \in Nat /\ Day \in Nat
        <5>1. log[k].t \in 0..now /\ log[j].t \in 0..now
          BY <1>1, <3>2, LogTyped DEF IInv
        <5> QED  BY <1>1, <5>1, HistoryAssumption DEF IInv, TypeOK
      <4>3. Kept(log[j], now)
        BY <3>1, <4>1, <4>2 DEF Kept
      <4> QED  BY <1>1, <4>3 DEF IInv, DayIsKept
    <3>4. k \in C
      BY <1>1, <3>1, <3>2, <3>3 DEF Charted, On, IInv, RowsTell
    <3>5. Gap(snaps, k) = Gap(log, k)
      <4> DEFINE m == Min(Later(log, k))
      <4>1. m \in Later(snaps, k)
        <5>1. DOMAIN log \subseteq Nat
          BY <1>1, LogTyped DEF IInv
        <5> QED  BY <3>1, <3>3, <5>1, LaterHasMin
      <4>2. m \in DOMAIN snaps
        BY <4>1 DEF Later
      <4>3. snaps[k].t = log[k].t /\ snaps[m].t = log[m].t
        BY <1>1, <3>2, <4>2 DEF IInv, RowsTell
      <4> HIDE DEF m
      <4> QED  BY <3>3, <4>3 DEF Gap, m
    <3>6. Weight(k) = Gap(log, k)
      BY <2>0, <3>1, <3>5 DEF Weight
    <3> QED  BY <2>0, <3>1, <3>4, <3>6
  <2>4. C \subseteq DOMAIN snaps /\ R \subseteq C
    BY <2>3 DEF Charted, On
  <2>5. IsFiniteSet(C) /\ IsFiniteSet(R) /\ R \subseteq DOMAIN log
    <3>1. C \in SUBSET DOMAIN log /\ R \in SUBSET DOMAIN log
      BY <2>1, <2>4
    <3> QED  BY <2>1, <3>1, FS_Subset
  <2>6. /\ Chart(day)[d] = Sum(x, C)
        /\ CarriedIn(R, d) = Sum(y, R)
    BY SumOfFunction DEF Chart, CarriedIn
  <2>7. Numbers(y, R)
    BY <1>1, <2>5, OnIsFinite DEF Numbers
  <2>8. Numbers(z, R)
    BY <2>0, <2>2, <2>4 DEF Numbers
  <2>9. Numbers(x, C)
    <3> SUFFICES ASSUME NEW k \in C PROVE snaps[k].rate[d] * Weight(k) \in Nat
      BY DEF Numbers
    <3>1. k \in DOMAIN snaps /\ Weight(k) \in Nat
      BY <1>1, <2>0, <2>4, WeightBound DEF Charted
    <3> QED  BY <2>2, <3>1
  <2>10. ASSUME NEW k \in R PROVE 1 * z[k] <= x[k] /\ y[k] <= 1 * z[k] + D
    <3> DEFINE r == snaps[k].rate[d]  w == Weight(k)
    <3>1. k \in C /\ r \in Nat /\ w \in Nat /\ Interval <= w
      BY <2>2, <2>3, <2>4
    <3>2. x[k] = r * w /\ z[k] = Interval * r
      BY <3>1
    <3>3. y[k] <= Interval * r + D
      <4>1. log[k].whole
        BY DEF Regular
      <4>2. log[k].carried[d] <= Interval * r + D
        BY <1>1, <2>4, <4>1 DEF IInv, RowsTell, RateIsOf
      <4> QED  BY <4>2
    <3> HIDE DEF r, w, x, y, z, D
    <3>4. Interval * r <= r * w /\ Interval * r \in Nat /\ r * w \in Nat
      BY <2>0, <3>1
    <3> QED  BY <3>2, <3>3, <3>4
  <2>11. Numbers(x, R)
    BY <2>4, <2>9 DEF Numbers
  <2> HIDE DEF x, y, z, C, R, D
  <2>12. 1 * Sum(z, R) <= Sum(x, R)
    BY <2>5, <2>8, <2>10, <2>11, SumAtLeast
  <2>13. Sum(y, R) <= 1 * Sum(z, R) + Cardinality(R) * D
    BY <2>0, <2>5, <2>7, <2>8, <2>10, SumAtMost
  <2>14. Sum(x, R) <= Sum(x, C)
    BY <2>4, <2>5, <2>9, SumPart
  <2>15. /\ Sum(x, R) \in Nat /\ Sum(x, C) \in Nat /\ Sum(y, R) \in Nat /\ Sum(z, R) \in Nat
         /\ Cardinality(R) \in Nat
    BY <2>5, <2>7, <2>8, <2>9, <2>11, SumNat, FS_CardinalityType
  <2>16. Cardinality(R) * D \in Nat
    BY <2>0, <2>15
  <2>17. Cardinality(R) * D = Cardinality(R) * Cardinality(Users) * (Interval - 1)
    <3>1. Interval - 1 \in Nat
      BY <2>0
    <3> QED  BY <2>0, <2>15, <3>1 DEF D
  <2>18. Sum(x, C) + Cardinality(R) * D >= Sum(y, R)
    BY <2>12, <2>13, <2>14, <2>15, <2>16
  <2> QED  BY <2>6, <2>17, <2>18 DEF R
<1>2. IInv => RegularPassesAreCharted
  BY <1>1 DEF RegularPassesAreCharted
<1> QED  BY <1>2, Invariant, PTL
=============================================================================
