-------------------------------- MODULE Sums --------------------------------
EXTENDS Integers, FiniteSets, Functions, FiniteSetTheorems, WellFoundedInduction, TLAPS

(***************************************************************************)
(* Sums over finite sets.  The fold is the function its equation defines,  *)
(* chosen among those that satisfy it: that one exists is shown by levels, *)
(* everything else on a smallest set that would refute it.                 *)
(***************************************************************************)
PickOne(S)       == CHOOSE x \in S : TRUE
Unfolded(f, g, s) == IF s = {} THEN 0 ELSE f[PickOne(s)] + g[s \ {PickOne(s)}]
Unfolds(f, S, g) == g = [s \in S |-> Unfolded(f, g, s)]
UpTo(S, n)   == {s \in SUBSET S : Cardinality(s) <= n}

\* The element the fold takes first is one of the set's.
LEMMA PickOneIn == ASSUME NEW S, S # {} PROVE PickOne(S) \in S
BY DEF PickOne

\* Of sets of subsets of a finite set, one is smallest.
LEMMA Smallest ==
  ASSUME NEW S, IsFiniteSet(S), NEW T, T # {}, \A s \in T : s \subseteq S
  PROVE  \E U \in T : \A V \in T : V \subseteq U => V = U
<1>1. IsWellFoundedOn(StrictSubsetOrdering(S), SUBSET S)
  BY FS_StrictSubsetOrderingWellFounded, FS_FiniteSubsetsOfFinite
<1>2. T \subseteq SUBSET S
  OBVIOUS
<1>3. PICK U \in T : \A V \in T : ~(<<V, U>> \in StrictSubsetOrdering(S))
  BY <1>1, <1>2, WFMin
<1> QED BY <1>2, <1>3 DEF StrictSubsetOrdering

\* The fold's function on the subsets of up to n elements extends to those of n + 1.
LEMMA NextLevel ==
  ASSUME NEW f, NEW S, IsFiniteSet(S), NEW n \in Nat, NEW g, Unfolds(f, UpTo(S, n), g)
  PROVE  \E h : Unfolds(f, UpTo(S, n + 1), h)
<1> DEFINE h == [s \in UpTo(S, n + 1) |-> Unfolded(f, g, s)]
<1>1. ASSUME NEW s \in UpTo(S, n + 1), s # {} PROVE s \ {PickOne(s)} \in UpTo(S, n)
  <2>1. IsFiniteSet(s) /\ Cardinality(s) \in Nat /\ Cardinality(s) <= n + 1
    BY FS_Subset, FS_CardinalityType DEF UpTo
  <2>2. Cardinality(s \ {PickOne(s)}) = Cardinality(s) - 1
    BY <1>1, <2>1, PickOneIn, FS_RemoveElement
  <2> QED BY <2>1, <2>2 DEF UpTo
<1>2. ASSUME NEW s \in UpTo(S, n) PROVE s \in UpTo(S, n + 1) /\ h[s] = g[s]
  <2>1. Cardinality(s) \in Nat
    BY FS_Subset, FS_CardinalityType DEF UpTo
  <2>2. s \in UpTo(S, n + 1)
    BY <2>1 DEF UpTo
  <2> QED BY <2>2 DEF Unfolds
<1>3. ASSUME NEW s \in UpTo(S, n + 1) PROVE Unfolded(f, g, s) = Unfolded(f, h, s)
  BY <1>1, <1>2 DEF Unfolded
<1>4. h = [s \in UpTo(S, n + 1) |-> Unfolded(f, h, s)]
  BY <1>3
<1> QED BY <1>4 DEF Unfolds

\* So it exists on the subsets of any size.
LEMMA AllLevels ==
  ASSUME NEW f, NEW S, IsFiniteSet(S), NEW n \in Nat
  PROVE  \E g : Unfolds(f, UpTo(S, n), g)
<1> DEFINE Bad == {m \in Nat : ~\E g : Unfolds(f, UpTo(S, m), g)}
<1>1. SUFFICES ASSUME Bad # {} PROVE FALSE
  OBVIOUS
<1>2. PICK m \in Bad : \A k \in Bad : ~(k < m)
  <2>1. PICK m \in Bad : \A k \in Bad : <<k, m>> \notin OpToRel(<, Nat)
    BY <1>1, NatLessThanWellFounded, WFMin
  <2> QED BY <2>1 DEF OpToRel
<1>3. CASE m = 0
  <2>1. UpTo(S, 0) = {{}}
    BY FS_EmptySet, FS_Subset, FS_CardinalityType DEF UpTo
  <2> DEFINE g == [s \in {{}} |-> 0]
  <2>2. g = [s \in {{}} |-> Unfolded(f, g, s)]
    BY DEF Unfolded
  <2>3. Unfolds(f, UpTo(S, 0), g)
    BY <2>1, <2>2 DEF Unfolds
  <2> QED BY <1>2, <1>3, <2>3
<1>4. CASE m # 0
  <2>1. m - 1 \in Nat /\ m - 1 < m /\ (m - 1) + 1 = m
    BY <1>4
  <2>2. PICK g : Unfolds(f, UpTo(S, m - 1), g)
    BY <1>2, <2>1
  <2>3. \E h : Unfolds(f, UpTo(S, (m - 1) + 1), h)
    BY <2>1, <2>2, NextLevel
  <2> QED BY <1>2, <2>1, <2>3
<1> QED BY <1>3, <1>4

\* And on all subsets of a finite set.
LEMMA SumExists ==
  ASSUME NEW f, NEW S, IsFiniteSet(S)
  PROVE  \E g : Unfolds(f, SUBSET S, g)
<1>1. PICK n \in Nat : n = Cardinality(S)
  BY FS_CardinalityType
<1>2. UpTo(S, n) = SUBSET S
  BY <1>1, FS_Subset DEF UpTo
<1>3. \E g : Unfolds(f, UpTo(S, n), g)
  BY AllLevels
<1> QED BY <1>2, <1>3

\* What the function gives for a set does not depend on the set it was defined over.
LEMMA SumUnique ==
  ASSUME NEW f, NEW S, IsFiniteSet(S), NEW R \in SUBSET S, NEW g, NEW h,
         Unfolds(f, SUBSET S, g), Unfolds(f, SUBSET R, h)
  PROVE  g[R] = h[R]
<1> DEFINE Bad == {s \in SUBSET R : g[s] # h[s]}
<1>1. SUFFICES ASSUME Bad # {} PROVE FALSE
  OBVIOUS
<1>2. PICK U \in Bad : \A V \in Bad : V \subseteq U => V = U
  <2>1. \A s \in Bad : s \subseteq S
    OBVIOUS
  <2> HIDE DEF Bad
  <2> QED BY <1>1, <2>1, Smallest
<1>3. g[U] = Unfolded(f, g, U) /\ h[U] = Unfolded(f, h, U)
  BY DEF Unfolds
<1>4. CASE U = {}
  BY <1>3, <1>4 DEF Unfolded
<1>5. CASE U # {}
  <2>1. U \ {PickOne(U)} \in SUBSET R /\ U \ {PickOne(U)} # U
    BY <1>5, PickOneIn
  <2>2. g[U \ {PickOne(U)}] = h[U \ {PickOne(U)}]
    BY <1>2, <2>1
  <2> QED BY <1>3, <1>5, <2>2 DEF Unfolded
<1> QED BY <1>2, <1>4, <1>5

\* The library's sum is such a function's value.
LEMMA SumIs ==
  ASSUME NEW f, NEW S, IsFiniteSet(S)
  PROVE  \E g : Unfolds(f, SUBSET S, g) /\ SumFunctionOnSet(f, S) = g[S]
<1>1. SumFunctionOnSet(f, S) = (CHOOSE g : Unfolds(f, SUBSET S, g))[S]
  BY DEF SumFunctionOnSet, FoldFunctionOnSet, MapThenFoldSet, Unfolds, Unfolded, PickOne
<1> QED BY <1>1, SumExists

\* The equation of the sum.
LEMMA SumStep ==
  ASSUME NEW f, NEW S, IsFiniteSet(S)
  PROVE  SumFunctionOnSet(f, S)
           = IF S = {} THEN 0 ELSE f[PickOne(S)] + SumFunctionOnSet(f, S \ {PickOne(S)})
<1>1. PICK g : Unfolds(f, SUBSET S, g) /\ SumFunctionOnSet(f, S) = g[S]
  BY SumIs
<1>2. g[S] = Unfolded(f, g, S)
  BY <1>1 DEF Unfolds
<1>3. CASE S = {}
  BY <1>1, <1>2, <1>3 DEF Unfolded
<1>4. CASE S # {}
  <2>1. IsFiniteSet(S \ {PickOne(S)})
    BY FS_Subset
  <2>2. PICK h : Unfolds(f, SUBSET (S \ {PickOne(S)}), h) /\ SumFunctionOnSet(f, S \ {PickOne(S)}) = h[S \ {PickOne(S)}]
    BY <2>1, SumIs
  <2>3. g[S \ {PickOne(S)}] = h[S \ {PickOne(S)}]
    BY <1>1, <2>2, SumUnique
  <2> QED BY <1>1, <1>2, <1>4, <2>2, <2>3 DEF Unfolded
<1> QED BY <1>3, <1>4

\* The sum over no element.
LEMMA SumEmpty == ASSUME NEW f PROVE SumFunctionOnSet(f, {}) = 0
BY SumStep, FS_EmptySet

\* The sum of integers is an integer.
LEMMA SumInt ==
  ASSUME NEW f, NEW S, IsFiniteSet(S), \A x \in S : f[x] \in Int
  PROVE  SumFunctionOnSet(f, S) \in Int
<1> DEFINE Bad == {s \in SUBSET S : SumFunctionOnSet(f, s) \notin Int}
<1>1. SUFFICES ASSUME Bad # {} PROVE FALSE
  OBVIOUS
<1>2. PICK U \in Bad : \A V \in Bad : V \subseteq U => V = U
  <2>1. \A s \in Bad : s \subseteq S
    OBVIOUS
  <2> HIDE DEF Bad
  <2> QED BY <1>1, <2>1, Smallest
<1>3. IsFiniteSet(U)
  BY FS_Subset
<1>4. U # {}
  BY SumEmpty
<1>5. PickOne(U) \in U /\ U \ {PickOne(U)} \notin Bad
  BY <1>2, <1>4, PickOneIn
<1>6. SumFunctionOnSet(f, U \ {PickOne(U)}) \in Int /\ f[PickOne(U)] \in Int
  BY <1>5
<1> QED BY <1>2, <1>3, <1>4, <1>6, SumStep

\* The sum of naturals is a natural.
LEMMA SumNat ==
  ASSUME NEW f, NEW S, IsFiniteSet(S), \A x \in S : f[x] \in Nat
  PROVE  SumFunctionOnSet(f, S) \in Nat
<1> DEFINE Bad == {s \in SUBSET S : SumFunctionOnSet(f, s) \notin Nat}
<1>1. SUFFICES ASSUME Bad # {} PROVE FALSE
  OBVIOUS
<1>2. PICK U \in Bad : \A V \in Bad : V \subseteq U => V = U
  <2>1. \A s \in Bad : s \subseteq S
    OBVIOUS
  <2> HIDE DEF Bad
  <2> QED BY <1>1, <2>1, Smallest
<1>3. IsFiniteSet(U)
  BY FS_Subset
<1>4. U # {}
  BY SumEmpty
<1>5. PickOne(U) \in U /\ U \ {PickOne(U)} \notin Bad
  BY <1>2, <1>4, PickOneIn
<1>6. SumFunctionOnSet(f, U \ {PickOne(U)}) \in Nat /\ f[PickOne(U)] \in Nat
  BY <1>5
<1> QED BY <1>2, <1>3, <1>4, <1>6, SumStep

\* A sum depends on what is summed alone.
LEMMA SumSame ==
  ASSUME NEW f, NEW h, NEW S, IsFiniteSet(S), \A x \in S : f[x] = h[x]
  PROVE  SumFunctionOnSet(f, S) = SumFunctionOnSet(h, S)
<1> DEFINE Bad == {s \in SUBSET S : SumFunctionOnSet(f, s) # SumFunctionOnSet(h, s)}
<1>1. SUFFICES ASSUME Bad # {} PROVE FALSE
  OBVIOUS
<1>2. PICK U \in Bad : \A V \in Bad : V \subseteq U => V = U
  <2>1. \A s \in Bad : s \subseteq S
    OBVIOUS
  <2> HIDE DEF Bad
  <2> QED BY <1>1, <2>1, Smallest
<1>3. IsFiniteSet(U)
  BY FS_Subset
<1>4. U # {}
  BY SumEmpty
<1>5. PickOne(U) \in U /\ U \ {PickOne(U)} \notin Bad
  BY <1>2, <1>4, PickOneIn
<1>6. SumFunctionOnSet(f, U \ {PickOne(U)}) = SumFunctionOnSet(h, U \ {PickOne(U)}) /\ f[PickOne(U)] = h[PickOne(U)]
  BY <1>5
<1> QED BY <1>2, <1>3, <1>4, <1>6, SumStep

\* The order in which the elements are taken does not matter.
LEMMA SumTake ==
  ASSUME NEW f, NEW S, IsFiniteSet(S), \A x \in S : f[x] \in Int, NEW x \in S
  PROVE  SumFunctionOnSet(f, S) = f[x] + SumFunctionOnSet(f, S \ {x})
<1> DEFINE Bad == {s \in SUBSET S : \E y \in s : SumFunctionOnSet(f, s) # f[y] + SumFunctionOnSet(f, s \ {y})}
<1>1. SUFFICES ASSUME Bad # {} PROVE FALSE
  OBVIOUS
<1>2. PICK U \in Bad : \A V \in Bad : V \subseteq U => V = U
  <2>1. \A s \in Bad : s \subseteq S
    OBVIOUS
  <2> HIDE DEF Bad
  <2> QED BY <1>1, <2>1, Smallest
<1>3. PICK y \in U : SumFunctionOnSet(f, U) # f[y] + SumFunctionOnSet(f, U \ {y})
  OBVIOUS
<1> DEFINE p == PickOne(U)
<1>4. p \in U /\ IsFiniteSet(U)
  BY <1>3, PickOneIn, FS_Subset
<1>5. SumFunctionOnSet(f, U) = f[p] + SumFunctionOnSet(f, U \ {p})
  BY <1>3, <1>4, SumStep
<1>6. p # y
  BY <1>3, <1>5
<1>7. U \ {p} \notin Bad /\ U \ {y} \notin Bad /\ y \in U \ {p} /\ p \in U \ {y}
  BY <1>2, <1>4, <1>6
<1>8. SumFunctionOnSet(f, U \ {p}) = f[y] + SumFunctionOnSet(f, (U \ {p}) \ {y})
  BY <1>7
<1>9. SumFunctionOnSet(f, U \ {y}) = f[p] + SumFunctionOnSet(f, (U \ {y}) \ {p})
  BY <1>7
<1>10. (U \ {p}) \ {y} = (U \ {y}) \ {p}
  OBVIOUS
<1>11. PICK a \in Int, b \in Int, c \in Int :
         a = SumFunctionOnSet(f, (U \ {p}) \ {y}) /\ b = f[p] /\ c = f[y]
  <2>1. IsFiniteSet((U \ {p}) \ {y})
    BY <1>4, FS_Subset
  <2>2. \A z \in (U \ {p}) \ {y} : f[z] \in Int
    OBVIOUS
  <2>3. SumFunctionOnSet(f, (U \ {p}) \ {y}) \in Int
    BY <2>1, <2>2, SumInt
  <2> QED BY <1>4, <2>3
<1>12. SumFunctionOnSet(f, U) = b + (c + a) /\ SumFunctionOnSet(f, U \ {y}) = b + a
  BY <1>5, <1>8, <1>9, <1>10, <1>11
<1>13. SumFunctionOnSet(f, U) = f[y] + SumFunctionOnSet(f, U \ {y})
  BY <1>11, <1>12
<1> QED BY <1>3, <1>13

\* What a change of one summand changes.
LEMMA SumChange ==
  ASSUME NEW f, NEW h, NEW S, IsFiniteSet(S), NEW x \in S, h[x] \in Int,
         \A y \in S : f[y] \in Int, \A y \in S \ {x} : h[y] = f[y]
  PROVE  SumFunctionOnSet(h, S) = SumFunctionOnSet(f, S) - f[x] + h[x]
<1>1. IsFiniteSet(S \ {x})
  BY FS_Subset
<1>2. PICK a \in Int, b \in Int, c \in Int :
        a = SumFunctionOnSet(f, S \ {x}) /\ b = f[x] /\ c = h[x]
  <2>1. \A y \in S \ {x} : f[y] \in Int
    OBVIOUS
  <2>2. SumFunctionOnSet(f, S \ {x}) \in Int
    BY <1>1, <2>1, SumInt
  <2> QED BY <2>2
<1>3. SumFunctionOnSet(h, S \ {x}) = a
  BY <1>1, <1>2, SumSame
<1>4. \A y \in S : h[y] \in Int
  OBVIOUS
<1>5. SumFunctionOnSet(h, S) = c + a /\ SumFunctionOnSet(f, S) = b + a
  BY <1>2, <1>3, <1>4, SumTake
<1> QED BY <1>2, <1>5

\* The sum of zeros.
LEMMA SumZero ==
  ASSUME NEW f, NEW S, IsFiniteSet(S), \A x \in S : f[x] = 0
  PROVE  SumFunctionOnSet(f, S) = 0
<1> DEFINE Bad == {s \in SUBSET S : SumFunctionOnSet(f, s) # 0}
<1>1. SUFFICES ASSUME Bad # {} PROVE FALSE
  OBVIOUS
<1>2. PICK U \in Bad : \A V \in Bad : V \subseteq U => V = U
  <2>1. \A s \in Bad : s \subseteq S
    OBVIOUS
  <2> HIDE DEF Bad
  <2> QED BY <1>1, <2>1, Smallest
<1>3. IsFiniteSet(U)
  BY FS_Subset
<1>4. U # {}
  BY SumEmpty
<1>5. PickOne(U) \in U /\ U \ {PickOne(U)} \notin Bad
  BY <1>2, <1>4, PickOneIn
<1>6. SumFunctionOnSet(f, U \ {PickOne(U)}) = 0 /\ f[PickOne(U)] = 0
  BY <1>5
<1> QED BY <1>2, <1>3, <1>4, <1>6, SumStep

\* Fewer natural numbers have a smaller sum.
LEMMA SumLess ==
  ASSUME NEW f, NEW S, IsFiniteSet(S), NEW x \in S, \A y \in S : f[y] \in Nat
  PROVE  SumFunctionOnSet(f, S \ {x}) <= SumFunctionOnSet(f, S)
<1>1. IsFiniteSet(S \ {x})
  BY FS_Subset
<1>2. PICK a \in Nat, b \in Nat : a = SumFunctionOnSet(f, S \ {x}) /\ b = f[x]
  <2>1. \A y \in S \ {x} : f[y] \in Nat
    OBVIOUS
  <2>2. SumFunctionOnSet(f, S \ {x}) \in Nat
    BY <1>1, <2>1, SumNat
  <2> QED BY <2>2
<1>3. \A y \in S : f[y] \in Int
  OBVIOUS
<1>4. SumFunctionOnSet(f, S) = b + a
  BY <1>2, <1>3, SumTake
<1> QED BY <1>2, <1>4
\* The sum over a part of a set is the sum over all of it, the rest counting for nothing.
LEMMA SumMasked ==
  ASSUME NEW f, NEW h, NEW S, IsFiniteSet(S), NEW T, \A x \in S : f[x] \in Int,
         \A x \in S : h[x] = IF x \in T THEN f[x] ELSE 0
  PROVE  SumFunctionOnSet(h, S) = SumFunctionOnSet(f, S \cap T)
<1> DEFINE Bad == {s \in SUBSET S : SumFunctionOnSet(h, s) # SumFunctionOnSet(f, s \cap T)}
<1>1. SUFFICES ASSUME Bad # {} PROVE FALSE
  OBVIOUS
<1>2. PICK U \in Bad : \A V \in Bad : V \subseteq U => V = U
  <2>1. \A s \in Bad : s \subseteq S
    OBVIOUS
  <2> HIDE DEF Bad
  <2> QED BY <1>1, <2>1, Smallest
<1> DEFINE p == PickOne(U)
<1>3. IsFiniteSet(U) /\ IsFiniteSet(U \cap T) /\ IsFiniteSet(U \ {p})
  BY FS_Subset
<1>4. U # {}
  <2>1. {} \cap T = {}
    OBVIOUS
  <2> QED BY <2>1, SumEmpty
<1>5. p \in U /\ U \ {p} \notin Bad
  BY <1>2, <1>4, PickOneIn
<1>6. SumFunctionOnSet(h, U \ {p}) = SumFunctionOnSet(f, (U \ {p}) \cap T)
  BY <1>5
<1>7. SumFunctionOnSet(h, U) = h[p] + SumFunctionOnSet(f, (U \ {p}) \cap T)
  BY <1>3, <1>4, <1>6, SumStep
<1>8. \A x \in U \cap T : f[x] \in Int
  OBVIOUS
<1>9. CASE p \in T
  <2>1. p \in U \cap T /\ (U \cap T) \ {p} = (U \ {p}) \cap T
    BY <1>5, <1>9
  <2>2. SumFunctionOnSet(f, U \cap T) = f[p] + SumFunctionOnSet(f, (U \cap T) \ {p})
    BY <1>3, <1>8, <2>1, SumTake
  <2> QED BY <1>2, <1>5, <1>7, <1>9, <2>1, <2>2
<1>10. CASE p \notin T
  <2>1. (U \ {p}) \cap T = U \cap T
    BY <1>10
  <2>2. SumFunctionOnSet(f, U \cap T) \in Int
    BY <1>3, <1>8, SumInt
  <2> QED BY <1>2, <1>5, <1>7, <1>10, <2>1, <2>2
<1> QED BY <1>9, <1>10

\* The sum of ones is the number of elements.
LEMMA SumOnes ==
  ASSUME NEW f, NEW S, IsFiniteSet(S), \A x \in S : f[x] = 1
  PROVE  SumFunctionOnSet(f, S) = Cardinality(S)
<1> DEFINE Bad == {s \in SUBSET S : SumFunctionOnSet(f, s) # Cardinality(s)}
<1>1. SUFFICES ASSUME Bad # {} PROVE FALSE
  OBVIOUS
<1>2. PICK U \in Bad : \A V \in Bad : V \subseteq U => V = U
  <2>1. \A s \in Bad : s \subseteq S
    OBVIOUS
  <2> HIDE DEF Bad
  <2> QED BY <1>1, <2>1, Smallest
<1> DEFINE p == PickOne(U)
<1>3. IsFiniteSet(U)
  BY FS_Subset
<1>4. U # {}
  BY SumEmpty, FS_EmptySet
<1>5. p \in U /\ U \ {p} \notin Bad
  BY <1>2, <1>4, PickOneIn
<1>6. SumFunctionOnSet(f, U \ {p}) = Cardinality(U \ {p}) /\ f[p] = 1
  BY <1>5
<1>7. Cardinality(U \ {p}) = Cardinality(U) - 1 /\ Cardinality(U) \in Nat
  BY <1>3, <1>5, FS_RemoveElement, FS_CardinalityType
<1>8. SumFunctionOnSet(f, U) = f[p] + SumFunctionOnSet(f, U \ {p})
  BY <1>3, <1>4, SumStep
<1> QED BY <1>2, <1>6, <1>7, <1>8
=============================================================================
