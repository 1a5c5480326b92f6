---------------------------- MODULE FiniteLemmas ----------------------------
(***************************************************************************)
(* What the proofs about the caches need of natural numbers and of sums    *)
(* over finite sets, stated with sets and functions only: the existence of *)
(* least and greatest numbers, and the laws of MapThenSumSet.              *)
(***************************************************************************)
EXTENDS Integers, FiniteSetsExt, FiniteSetTheorems, WellFoundedInduction, TLAPS

\* Among some subsets of a finite set there is a smallest one.
LEMMA SubsetMin ==
    ASSUME NEW S, IsFiniteSet(S), NEW T \in SUBSET (SUBSET S), T # {}
    PROVE  \E x \in T : \A y \in T : ~(y \subseteq x /\ y # x)
<1>1. IsWellFoundedOn(StrictSubsetOrdering(S), FiniteSubsetsOf(S))
    BY FS_StrictSubsetOrderingWellFounded
<1>2. FiniteSubsetsOf(S) = SUBSET S
    BY FS_FiniteSubsetsOfFinite
<1>3. PICK x \in T : \A y \in T : ~(<<y, x>> \in StrictSubsetOrdering(S))
    BY <1>1, <1>2, WFMin
<1> QED
    BY <1>3 DEF StrictSubsetOrdering

\* A nonempty set of natural numbers has a least element.
LEMMA LeastNat ==
    ASSUME NEW T \in SUBSET Nat, T # {}
    PROVE  \E x \in T : \A y \in T : x <= y
<1>1. PICK n \in T : TRUE
    OBVIOUS
<1> DEFINE Below == {0..y : y \in T \cap (0..n)}
<1>2. n \in Nat /\ IsFiniteSet(0..n)
    BY <1>1, FS_Interval
<1>3. Below \in SUBSET (SUBSET (0..n))
    BY <1>2
<1>4. 0..n \in Below
    <2>1. n \in T \cap (0..n)
        BY <1>1, <1>2
    <2> QED
        BY <2>1, Zenon
<1>5. PICK b \in Below : \A c \in Below : ~(c \subseteq b /\ c # b)
    <2> HIDE DEF Below
    <2>1. Below # {}
        BY <1>4
    <2> DEFINE I == 0..n
    <2>2. IsFiniteSet(I) /\ Below \in SUBSET (SUBSET I)
        BY <1>2, <1>3
    <2> HIDE DEF I
    <2> QED
        BY <2>1, <2>2, SubsetMin
<1>6. PICK x \in T \cap (0..n) : b = 0..x
    BY <1>5
<1>7. ASSUME NEW y \in T, ~(x <= y) PROVE FALSE
    <2>1. y \in T \cap (0..n) /\ x \in Nat /\ y \in Nat /\ y < x
        BY <1>2, <1>6, <1>7
    <2>2. 0..y \in Below
        BY <2>1
    <2>3. 0..y \subseteq 0..x /\ x \in 0..x /\ x \notin 0..y
        BY <2>1
    <2> QED
        BY <1>5, <1>6, <2>2, <2>3
<1> QED
    BY <1>6, <1>7

\* A nonempty set of numbers up to n has a greatest element.
LEMMA GreatestUpTo ==
    ASSUME NEW n \in Nat, NEW T \in SUBSET (0..n), T # {}
    PROVE  \E x \in T : \A y \in T : y <= x
<1> DEFINE D == {n - y : y \in T}
<1>1. D \in SUBSET Nat /\ D # {}
    OBVIOUS
<1>2. PICK d \in D : \A c \in D : d <= c
    BY <1>1, LeastNat
<1>3. PICK x \in T : d = n - x
    BY <1>2
<1>4. ASSUME NEW y \in T PROVE y <= x
    <2>1. n - y \in D
        OBVIOUS
    <2>2. n - x <= n - y
        BY <1>2, <1>3, <2>1
    <2> QED
        BY <2>2
<1> QED
    BY <1>4

-----------------------------------------------------------------------------
(* Sums of the sizes of some entries. *)

SizeSum(e, S) == MapThenSumSet(LAMBDA k : e[k].size, S)

\* The function that MapThenSumSet computes for the subsets of S.
Chosen(s) == CHOOSE x \in s : TRUE
IsSum(e, S, g) ==
    g = [s \in SUBSET S |-> IF s = {} THEN 0 ELSE e[Chosen(s)].size + g[s \ {Chosen(s)}]]

\* Where such functions exist, SizeSum is the value of one.
LEMMA SumUnfold ==
    ASSUME NEW e, NEW S
    PROVE  SizeSum(e, S) = (CHOOSE g : IsSum(e, S, g))[S]
  BY DEF SizeSum, MapThenSumSet, MapThenFoldSet, IsSum, Chosen

\* Taking away the chosen element leaves a smaller set.
LEMMA ChosenSmaller ==
    ASSUME NEW s, s # {}
    PROVE  Chosen(s) \in s /\ s \ {Chosen(s)} \subseteq s /\ s \ {Chosen(s)} # s
  BY DEF Chosen

\* There is at most one such function on a finite set.
LEMMA SumUnique ==
    ASSUME NEW e, NEW S, IsFiniteSet(S), NEW g, NEW h, IsSum(e, S, g), IsSum(e, S, h)
    PROVE  g = h
<1> DEFINE Bad == {s \in SUBSET S : g[s] # h[s]}
<1>1. CASE Bad # {}
    <2>1. PICK s \in Bad : \A t \in Bad : ~(t \subseteq s /\ t # s)
        <3>1. Bad \in SUBSET (SUBSET S)
            OBVIOUS
        <3> HIDE DEF Bad
        <3> QED
            BY <1>1, <3>1, SubsetMin
    <2>2. s \in SUBSET S /\ g[s] # h[s]
        BY <2>1
    <2>3. s # {}
        BY <2>2 DEF IsSum
    <2> DEFINE t == s \ {Chosen(s)}
    <2>4. t \subseteq s /\ t # s /\ t \in SUBSET S
        BY <2>2, <2>3, ChosenSmaller
    <2>5. g[t] = h[t]
        BY <2>1, <2>4
    <2>6. g[s] = e[Chosen(s)].size + g[t] /\ h[s] = e[Chosen(s)].size + h[t]
        BY <2>2, <2>3 DEF IsSum
    <2> QED
        BY <2>2, <2>5, <2>6
<1>2. CASE Bad = {}
    <2>1. \A s \in SUBSET S : g[s] = h[s]
        BY <1>2
    <2>2. g = [s \in SUBSET S |-> g[s]] /\ h = [s \in SUBSET S |-> h[s]]
        BY DEF IsSum
    <2> QED
        BY <2>1, <2>2
<1> QED
    BY <1>1, <1>2

\* Such a function, restricted to the subsets of a subset, is one there.
LEMMA SumRestrict ==
    ASSUME NEW e, NEW S, NEW g, IsSum(e, S, g), NEW R \in SUBSET S
    PROVE  IsSum(e, R, [s \in SUBSET R |-> g[s]])
<1> DEFINE h == [s \in SUBSET R |-> g[s]]
<1>1. ASSUME NEW s \in SUBSET R
      PROVE  h[s] = IF s = {} THEN 0 ELSE e[Chosen(s)].size + h[s \ {Chosen(s)}]
    <2>1. s \in SUBSET S /\ s \ {Chosen(s)} \in SUBSET R
        OBVIOUS
    <2>2. g[s] = IF s = {} THEN 0 ELSE e[Chosen(s)].size + g[s \ {Chosen(s)}]
        BY <2>1 DEF IsSum
    <2> QED
        BY <2>1, <2>2
<1>2. h = [s \in SUBSET R |-> h[s]]
    OBVIOUS
<1> HIDE DEF h
<1>3. IsSum(e, R, h)
    BY <1>1, <1>2 DEF IsSum
<1> QED
    BY <1>3 DEF h

\* There is such a function on every finite set: a smallest set without one would have one,
\* put together from those of its proper subsets.
LEMMA SumExists ==
    ASSUME NEW e, NEW S, IsFiniteSet(S)
    PROVE  \E g : IsSum(e, S, g)
<1> DEFINE Bad == {R \in SUBSET S : ~\E g : IsSum(e, R, g)}
<1> SUFFICES ASSUME Bad # {} PROVE FALSE
    OBVIOUS
<1>1. PICK R \in Bad : \A A \in Bad : ~(A \subseteq R /\ A # R)
    <2>1. Bad \in SUBSET (SUBSET S)
        OBVIOUS
    <2> HIDE DEF Bad
    <2> QED
        BY <2>1, SubsetMin
<1> DEFINE G(A) == CHOOSE g : IsSum(e, A, g)
<1>2. R \in SUBSET S /\ ~\E g : IsSum(e, R, g)
    BY <1>1
<1>3. ASSUME NEW A \in SUBSET R, A # R PROVE IsSum(e, A, G(A)) /\ IsFiniteSet(A)
    <2>1. A \in SUBSET S /\ A \notin Bad
        BY <1>1, <1>2, <1>3
    <2>2. \E g : IsSum(e, A, g)
        BY <2>1
    <2>3. IsFiniteSet(A)
        BY <2>1, FS_Subset
    <2> QED
        BY <2>2, <2>3
<1>4. ASSUME NEW A \in SUBSET R, A # R, NEW B \in SUBSET A PROVE G(A)[B] = G(B)[B]
    <2>1. B \in SUBSET R /\ B # R
        BY <1>4
    <2>2. IsSum(e, A, G(A)) /\ IsSum(e, B, G(B)) /\ IsFiniteSet(B)
        BY <1>3, <1>4, <2>1
    <2> HIDE DEF G
    <2>3. IsSum(e, B, [s \in SUBSET B |-> G(A)[s]])
        BY <2>2, SumRestrict
    <2>4. G(B) = [s \in SUBSET B |-> G(A)[s]]
        BY <2>2, <2>3, SumUnique
    <2> QED
        BY <2>4
<1> DEFINE h == [s \in SUBSET R |-> IF s = {} THEN 0
                                    ELSE e[Chosen(s)].size + G(s \ {Chosen(s)})[s \ {Chosen(s)}]]
<1> HIDE DEF G
<1>5. ASSUME NEW A \in SUBSET R, A # R PROVE h[A] = G(A)[A]
    <2>1. CASE A = {}
        BY <1>3, <1>5, <2>1 DEF IsSum
    <2>2. CASE A # {}
        <3> DEFINE B == A \ {Chosen(A)}
        <3>1. B \in SUBSET A
            OBVIOUS
        <3>2. G(A)[A] = e[Chosen(A)].size + G(A)[B]
            BY <1>3, <1>5, <2>2 DEF IsSum
        <3>3. G(A)[B] = G(B)[B]
            BY <1>4, <1>5, <3>1
        <3>4. h[A] = e[Chosen(A)].size + G(B)[B]
            BY <2>2
        <3> QED
            BY <3>2, <3>3, <3>4
    <2> QED
        BY <2>1, <2>2
<1>6. ASSUME NEW s \in SUBSET R
      PROVE  h[s] = IF s = {} THEN 0 ELSE e[Chosen(s)].size + h[s \ {Chosen(s)}]
    <2>1. CASE s = {}
        BY <2>1
    <2>2. CASE s # {}
        <3>1. s \ {Chosen(s)} \in SUBSET R /\ s \ {Chosen(s)} # R
            BY <2>2, ChosenSmaller
        <3>2. h[s \ {Chosen(s)}] = G(s \ {Chosen(s)})[s \ {Chosen(s)}]
            BY <1>5, <3>1
        <3> QED
            BY <2>2, <3>2
    <2> QED
        BY <2>1, <2>2
<1>7. h = [s \in SUBSET R |-> h[s]]
    OBVIOUS
<1> HIDE DEF h
<1>8. IsSum(e, R, h)
    BY <1>6, <1>7 DEF IsSum
<1> QED
    BY <1>2, <1>8

\* The sum over a finite set, and those over its subsets, are values of one function.
LEMMA SumOfSubsets ==
    ASSUME NEW e, NEW S, IsFiniteSet(S)
    PROVE  \E g : IsSum(e, S, g) /\ \A R \in SUBSET S : SizeSum(e, R) = g[R]
<1> DEFINE G(A) == CHOOSE g : IsSum(e, A, g)
<1>1. ASSUME NEW A \in SUBSET S
      PROVE  IsSum(e, A, G(A)) /\ SizeSum(e, A) = G(A)[A] /\ IsFiniteSet(A)
    <2>1. IsFiniteSet(A)
        BY FS_Subset
    <2>2. \E g : IsSum(e, A, g)
        BY <2>1, SumExists
    <2> QED
        BY <2>1, <2>2, SumUnfold
<1> HIDE DEF G
<1>2. IsSum(e, S, G(S))
    BY <1>1
<1>3. ASSUME NEW R \in SUBSET S PROVE SizeSum(e, R) = G(S)[R]
    <2>1. IsSum(e, R, [s \in SUBSET R |-> G(S)[s]])
        BY <1>2, SumRestrict
    <2>2. IsSum(e, R, G(R)) /\ SizeSum(e, R) = G(R)[R] /\ IsFiniteSet(R)
        BY <1>1
    <2>3. G(R) = [s \in SUBSET R |-> G(S)[s]]
        BY <2>1, <2>2, SumUnique
    <2>4. R \in SUBSET R
        OBVIOUS
    <2> QED
        BY <2>2, <2>3, <2>4
<1> QED
    BY <1>2, <1>3

\* The sum over no entries is 0.
LEMMA SumEmpty ==
    ASSUME NEW e
    PROVE  SizeSum(e, {}) = 0
<1>1. PICK g : IsSum(e, {}, g) /\ \A R \in SUBSET {} : SizeSum(e, R) = g[R]
    BY SumOfSubsets, FS_EmptySet
<1> QED
    BY <1>1 DEF IsSum

\* The sum is that of the chosen element and of the others.
LEMMA SumChosen ==
    ASSUME NEW e, NEW S, IsFiniteSet(S), S # {}
    PROVE  SizeSum(e, S) = e[Chosen(S)].size + SizeSum(e, S \ {Chosen(S)})
<1>1. PICK g : IsSum(e, S, g) /\ \A R \in SUBSET S : SizeSum(e, R) = g[R]
    BY SumOfSubsets
<1>2. S \in SUBSET S /\ S \ {Chosen(S)} \in SUBSET S
    OBVIOUS
<1>3. g[S] = e[Chosen(S)].size + g[S \ {Chosen(S)}]
    BY <1>1, <1>2 DEF IsSum
<1> QED
    BY <1>1, <1>2, <1>3

\* Sums of natural numbers are natural numbers.
LEMMA SumType ==
    ASSUME NEW e, NEW S, IsFiniteSet(S), \A k \in S : e[k].size \in Nat
    PROVE  SizeSum(e, S) \in Nat
<1> DEFINE Bad == {R \in SUBSET S : SizeSum(e, R) \notin Nat}
<1> SUFFICES ASSUME Bad # {} PROVE FALSE
    OBVIOUS
<1>1. PICK R \in Bad : \A A \in Bad : ~(A \subseteq R /\ A # R)
    <2>1. Bad \in SUBSET (SUBSET S)
        OBVIOUS
    <2> HIDE DEF Bad
    <2> QED
        BY <2>1, SubsetMin
<1>2. R \in SUBSET S /\ SizeSum(e, R) \notin Nat /\ IsFiniteSet(R)
    BY <1>1, FS_Subset
<1>3. R # {}
    BY <1>2, SumEmpty
<1>4. /\ Chosen(R) \in R /\ R \ {Chosen(R)} \subseteq R /\ R \ {Chosen(R)} # R
      /\ R \ {Chosen(R)} \in SUBSET S
    BY <1>2, <1>3, ChosenSmaller
<1>5. SizeSum(e, R \ {Chosen(R)}) \in Nat /\ e[Chosen(R)].size \in Nat
    BY <1>1, <1>2, <1>4
<1> QED
    BY <1>2, <1>3, <1>5, SumChosen

\* The order does not matter: any element may be taken out first.
LEMMA SumRemove ==
    ASSUME NEW e, NEW S, IsFiniteSet(S), \A k \in S : e[k].size \in Nat, NEW x \in S
    PROVE  SizeSum(e, S) = e[x].size + SizeSum(e, S \ {x})
<1> DEFINE Bad == {R \in SUBSET S : \E z \in R : SizeSum(e, R) # e[z].size + SizeSum(e, R \ {z})}
<1> SUFFICES ASSUME Bad # {} PROVE FALSE
    OBVIOUS
<1>1. PICK R \in Bad : \A A \in Bad : ~(A \subseteq R /\ A # R)
    <2>1. Bad \in SUBSET (SUBSET S)
        OBVIOUS
    <2> HIDE DEF Bad
    <2> QED
        BY <2>1, SubsetMin
<1>2. PICK z \in R : SizeSum(e, R) # e[z].size + SizeSum(e, R \ {z})
    BY <1>1
<1>3. R \in SUBSET S /\ IsFiniteSet(R)
    BY <1>1, FS_Subset
<1> DEFINE y == Chosen(R)
<1>4. y \in R /\ SizeSum(e, R) = e[y].size + SizeSum(e, R \ {y})
    BY <1>2, <1>3, SumChosen, ChosenSmaller
<1> HIDE DEF y
<1>5. y # z
    BY <1>2, <1>4
<1>6. /\ R \ {y} \in SUBSET S /\ R \ {y} \subseteq R /\ R \ {y} # R /\ z \in R \ {y}
      /\ R \ {z} \in SUBSET S /\ R \ {z} \subseteq R /\ R \ {z} # R /\ y \in R \ {z}
    BY <1>2, <1>3, <1>4, <1>5
<1>7. /\ SizeSum(e, R \ {y}) = e[z].size + SizeSum(e, (R \ {y}) \ {z})
      /\ SizeSum(e, R \ {z}) = e[y].size + SizeSum(e, (R \ {z}) \ {y})
    BY <1>1, <1>6
<1>8. (R \ {y}) \ {z} = (R \ {z}) \ {y}
    OBVIOUS
<1>9. e[y].size \in Nat /\ e[z].size \in Nat /\ SizeSum(e, (R \ {z}) \ {y}) \in Nat
    <2>1. IsFiniteSet((R \ {z}) \ {y}) /\ \A k \in (R \ {z}) \ {y} : e[k].size \in Nat
        BY <1>3, FS_Subset
    <2> QED
        BY <1>2, <1>3, <1>4, <2>1, SumType
<1> DEFINE d == SizeSum(e, (R \ {z}) \ {y})
<1>10. /\ SizeSum(e, R) = e[y].size + (e[z].size + d)
       /\ e[z].size + SizeSum(e, R \ {z}) = e[z].size + (e[y].size + d)
    BY <1>4, <1>7, <1>8
<1>11. e[y].size \in Nat /\ e[z].size \in Nat /\ d \in Nat
    BY <1>9
<1> HIDE DEF d
<1>12. e[y].size + (e[z].size + d) = e[z].size + (e[y].size + d)
    BY <1>11
<1> QED
    BY <1>2, <1>10, <1>12

\* The sum depends on the sizes only.
LEMMA SumSame ==
    ASSUME NEW e, NEW f, NEW S, IsFiniteSet(S), \A k \in S : e[k].size = f[k].size
    PROVE  SizeSum(e, S) = SizeSum(f, S)
<1> DEFINE Bad == {R \in SUBSET S : SizeSum(e, R) # SizeSum(f, R)}
<1> SUFFICES ASSUME Bad # {} PROVE FALSE
    OBVIOUS
<1>1. PICK R \in Bad : \A A \in Bad : ~(A \subseteq R /\ A # R)
    <2>1. Bad \in SUBSET (SUBSET S)
        OBVIOUS
    <2> HIDE DEF Bad
    <2> QED
        BY <2>1, SubsetMin
<1>2. R \in SUBSET S /\ SizeSum(e, R) # SizeSum(f, R) /\ IsFiniteSet(R)
    BY <1>1, FS_Subset
<1>3. R # {}
    BY <1>2, SumEmpty
<1>4. /\ Chosen(R) \in R /\ R \ {Chosen(R)} \subseteq R /\ R \ {Chosen(R)} # R
      /\ R \ {Chosen(R)} \in SUBSET S
    BY <1>2, <1>3, ChosenSmaller
<1>5. SizeSum(e, R \ {Chosen(R)}) = SizeSum(f, R \ {Chosen(R)})
    BY <1>1, <1>4
<1>6. e[Chosen(R)].size = f[Chosen(R)].size
    BY <1>2, <1>4
<1>7. /\ SizeSum(e, R) = e[Chosen(R)].size + SizeSum(e, R \ {Chosen(R)})
      /\ SizeSum(f, R) = f[Chosen(R)].size + SizeSum(f, R \ {Chosen(R)})
    BY <1>2, <1>3, SumChosen
<1> QED
    BY <1>2, <1>5, <1>6, <1>7

\* Leaving out some entries leaves out their sum.
LEMMA SumSplit ==
    ASSUME NEW e, NEW S, IsFiniteSet(S), \A k \in S : e[k].size \in Nat, NEW R \in SUBSET S
    PROVE  SizeSum(e, S) = SizeSum(e, R) + SizeSum(e, S \ R)
<1> DEFINE Bad == {A \in SUBSET R : SizeSum(e, S) # SizeSum(e, A) + SizeSum(e, S \ A)}
<1> SUFFICES ASSUME Bad # {} PROVE FALSE
    OBVIOUS
<1>1. IsFiniteSet(R)
    BY FS_Subset
<1>2. PICK A \in Bad : \A B \in Bad : ~(B \subseteq A /\ B # A)
    <2>1. Bad \in SUBSET (SUBSET R)
        OBVIOUS
    <2> HIDE DEF Bad
    <2> QED
        BY <1>1, <2>1, SubsetMin
<1>3. /\ A \in SUBSET R /\ SizeSum(e, S) # SizeSum(e, A) + SizeSum(e, S \ A)
      /\ IsFiniteSet(A) /\ IsFiniteSet(S \ A)
    BY <1>1, <1>2, FS_Subset
<1>4. SizeSum(e, S \ A) \in Nat /\ SizeSum(e, A) \in Nat
    BY <1>3, SumType
<1>5. A # {}
    <2> SUFFICES ASSUME A = {} PROVE FALSE
        OBVIOUS
    <2>1. S \ A = S /\ SizeSum(e, A) = 0
        BY SumEmpty
    <2> QED
        BY <1>3, <1>4, <2>1
<1>6. PICK x \in A : TRUE
    BY <1>5
<1> DEFINE B == A \ {x}
<1>7. /\ B \in SUBSET R /\ B \subseteq A /\ B # A /\ x \in S \ B /\ (S \ B) \ {x} = S \ A
      /\ IsFiniteSet(B) /\ IsFiniteSet(S \ B)
    BY <1>3, <1>6, FS_Subset
<1>8. SizeSum(e, S) = SizeSum(e, B) + SizeSum(e, S \ B)
    BY <1>2, <1>7
<1>9. SizeSum(e, A) = e[x].size + SizeSum(e, B)
    <2>1. \A k \in A : e[k].size \in Nat
        BY <1>3
    <2> QED
        BY <1>3, <1>6, <2>1, SumRemove
<1>10. SizeSum(e, S \ B) = e[x].size + SizeSum(e, S \ A)
    <2>1. \A k \in S \ B : e[k].size \in Nat
        OBVIOUS
    <2> HIDE DEF B
    <2>2. SizeSum(e, S \ B) = e[x].size + SizeSum(e, (S \ B) \ {x})
        BY <1>7, <2>1, SumRemove
    <2> QED
        BY <1>7, <2>2
<1>11. SizeSum(e, B) \in Nat /\ e[x].size \in Nat
    <2>1. \A k \in B : e[k].size \in Nat
        BY <1>3
    <2> QED
        BY <1>3, <1>6, <1>7, <2>1, SumType
<1> QED
    BY <1>3, <1>4, <1>8, <1>9, <1>10, <1>11
=============================================================================
