------------------------------ MODULE SetLemmas ------------------------------
(***************************************************************************)
(* Facts about finite sets that the proofs share: sums as MapThenSumSet    *)
(* computes them (Reserved of Brokerage, Points of Calculations), sizes    *)
(* and largest elements.  The fold is a recursive function over the        *)
(* subsets; its laws are proved by taking a smallest set that would break  *)
(* one.                                                                    *)
(***************************************************************************)
EXTENDS Integers, FiniteSets, FiniteSetsExt, FiniteSetTheorems, WellFoundedInduction, TLAPS

Pick(S) == CHOOSE t \in S : TRUE

\* The sum of a function over a set, and the recursive
\* function that MapThenSumSet uses for it.
Total(f, S) == MapThenSumSet(LAMBDA t : f[t], S)

Adds(f, S, g) == g = [s \in SUBSET S |-> IF s = {} THEN 0
                                          ELSE f[Pick(s)] + g[s \ {Pick(s)}]]

Adder(f, S) == CHOOSE g : Adds(f, S, g)

\* The sum is the value of the recursive function at the whole set.
LEMMA TotalIs == ASSUME NEW f, NEW S PROVE Total(f, S) = Adder(f, S)[S]
BY DEF Total, MapThenSumSet, MapThenFoldSet, Adder, Adds, Pick

\* Among the subsets of a finite set with some property is one without smaller ones:
\* induction, in the form of a minimal counterexample.
LEMMA MinimalSubset ==
    ASSUME NEW S, IsFiniteSet(S), NEW C, C \subseteq SUBSET S, C # {}
    PROVE  \E T \in C : IsFiniteSet(T) /\ \A U \in C : U \subseteq T => U = T
<1>1. IsWellFoundedOn(StrictSubsetOrdering(S), FiniteSubsetsOf(S))
  BY FS_StrictSubsetOrderingWellFounded
<1>2. C \subseteq FiniteSubsetsOf(S) BY FS_Subset DEF FiniteSubsetsOf
<1>3. PICK T \in C : \A U \in C : <<U, T>> \notin StrictSubsetOrdering(S)
  BY <1>1, <1>2, WFMin
<1>4. ASSUME NEW U \in C, U \subseteq T PROVE U = T
  BY <1>3, <1>4 DEF StrictSubsetOrdering
<1> QED BY <1>2, <1>3, <1>4 DEF FiniteSubsetsOf

\* The function has one value for a set, whatever set it is defined on.
LEMMA AddersAgree ==
    ASSUME NEW f, NEW S, NEW R, NEW g, NEW h, Adds(f, S, g), Adds(f, R, h),
           NEW T, IsFiniteSet(T), T \subseteq S, T \subseteq R
    PROVE  g[T] = h[T]
<1> DEFINE C == {U \in SUBSET T : g[U] # h[U]}
<1>0. C \subseteq SUBSET T OBVIOUS
<1>1. SUFFICES ASSUME C # {} PROVE FALSE OBVIOUS
<1> HIDE DEF C
<1>2. PICK U \in C : \A V \in C : V \subseteq U => V = U BY <1>0, <1>1, MinimalSubset
<1> USE DEF C
<1>3. CASE U = {} BY <1>2, <1>3 DEF Adds
<1>4. CASE U # {}
  <2> DEFINE x == Pick(U)
  <2>1. x \in U BY <1>4 DEF Pick
  <2>2. g[U \ {x}] = h[U \ {x}] BY <1>2, <2>1
  <2>3. g[U] = f[x] + g[U \ {x}] BY <1>4, <1>2 DEF Adds
  <2>4. h[U] = f[x] + h[U \ {x}] BY <1>4, <1>2 DEF Adds
  <2> QED BY <1>2, <2>2, <2>3, <2>4
<1> QED BY <1>3, <1>4

\* The recursive function exists on every finite set.
LEMMA AdderExists ==
    ASSUME NEW f, NEW S, IsFiniteSet(S)
    PROVE  Adds(f, S, Adder(f, S))
<1> DEFINE C == {T \in SUBSET S : \A g : ~Adds(f, T, g)}
<1>0. C \subseteq SUBSET S OBVIOUS
<1>1. SUFFICES ASSUME C # {} PROVE FALSE BY DEF Adder
<1> HIDE DEF C
<1>2. PICK T \in C : IsFiniteSet(T) /\ \A U \in C : U \subseteq T => U = T BY <1>0, <1>1, MinimalSubset
<1> USE DEF C
<1>3. ASSUME NEW U, U \subseteq T, U # T PROVE Adds(f, U, Adder(f, U)) /\ IsFiniteSet(U)
  BY <1>2, <1>3, FS_Subset DEF Adder
<1> DEFINE V(s) == Adder(f, s)[s]
           g == [s \in SUBSET T |-> IF s = T THEN IF T = {} THEN 0
                                             ELSE f[Pick(T)] + V(T \ {Pick(T)})
                                    ELSE V(s)]
<1>4. ASSUME NEW s \in SUBSET T
      PROVE  g[s] = IF s = {} THEN 0 ELSE f[Pick(s)] + g[s \ {Pick(s)}]
  <2>1. s # {} => Pick(s) \in s BY DEF Pick
  <2>2. CASE s = T
    <3>1. s # {} => s \ {Pick(s)} # T BY <2>1
    <3> QED BY <2>2, <3>1
  <2>3. CASE s # T
    <3>1. Adds(f, s, Adder(f, s)) BY <1>3, <2>3
    <3>2. CASE s = {} BY <3>1, <3>2, <2>3 DEF Adds
    <3>3. CASE s # {}
      <4> DEFINE r == s \ {Pick(s)}
      <4>1. r \subseteq T /\ r # T /\ r # s /\ r \subseteq s BY <2>1, <2>3, <3>3
      <4>2. Adds(f, r, Adder(f, r)) /\ IsFiniteSet(r) BY <1>3, <4>1
      <4>3. Adder(f, s)[r] = Adder(f, r)[r] BY <3>1, <4>1, <4>2, AddersAgree
      <4>4. Adder(f, s)[s] = f[Pick(s)] + Adder(f, s)[r] BY <3>1, <3>3 DEF Adds
      <4> QED BY <2>3, <3>3, <4>1, <4>3, <4>4
    <3> QED BY <3>2, <3>3
  <2> QED BY <2>2, <2>3
<1>5. Adds(f, T, g)
  <2> DEFINE k == [s \in SUBSET T |-> IF s = {} THEN 0 ELSE f[Pick(s)] + g[s \ {Pick(s)}]]
  <2>1. g = k BY <1>4
  <2> QED BY <2>1 DEF Adds
<1> QED BY <1>2, <1>5

Integral(f, S) == \A t \in S : f[t] \in Int

\* The sum over nothing is zero, and over a set what its picked element and the others give.
LEMMA TotalStep ==
    ASSUME NEW f, NEW S, IsFiniteSet(S)
    PROVE  /\ Total(f, {}) = 0
           /\ S # {} => Pick(S) \in S /\ Total(f, S) = f[Pick(S)] + Total(f, S \ {Pick(S)})
<1>1. IsFiniteSet({}) BY FS_EmptySet
<1>2. Adds(f, {}, Adder(f, {})) BY <1>1, AdderExists
<1>a. Adder(f, {})[{}] = 0 BY <1>2 DEF Adds
<1>b. Total(f, {}) = 0 BY <1>a, TotalIs
<1>3. ASSUME S # {} PROVE Pick(S) \in S /\ Total(f, S) = f[Pick(S)] + Total(f, S \ {Pick(S)})
  <2> DEFINE R == S \ {Pick(S)}
  <2>1. IsFiniteSet(R) BY FS_Subset
  <2>2. Adder(f, S)[R] = Adder(f, R)[R] BY <2>1, AdderExists, AddersAgree
  <2>a. Adds(f, S, Adder(f, S)) BY AdderExists
  <2>3. Adder(f, S)[S] = f[Pick(S)] + Adder(f, S)[R] BY <1>3, <2>a DEF Adds
  <2> QED BY <1>3, <2>2, <2>3, TotalIs DEF Pick
<1> QED BY <1>b, <1>3

\* The sum of integers is an integer.
LEMMA TotalType ==
    ASSUME NEW f, NEW S, IsFiniteSet(S), Integral(f, S)
    PROVE  Total(f, S) \in Int
<1> DEFINE C == {T \in SUBSET S : Total(f, T) \notin Int}
<1>0. C \subseteq SUBSET S OBVIOUS
<1>1. SUFFICES ASSUME C # {} PROVE FALSE OBVIOUS
<1> HIDE DEF C
<1>2. PICK T \in C : IsFiniteSet(T) /\ \A U \in C : U \subseteq T => U = T BY <1>0, <1>1, MinimalSubset
<1> USE DEF C
<1>3. Total(f, {}) = 0 /\ (T # {} => Pick(T) \in T /\ Total(f, T) = f[Pick(T)] + Total(f, T \ {Pick(T)}))
  BY <1>2, TotalStep
<1>4. CASE T = {} BY <1>2, <1>3, <1>4
<1>5. CASE T # {}
  <2> DEFINE p == Pick(T)
             R == T \ {p}
  <2>1. R \subseteq T /\ R # T /\ R \in SUBSET S BY <1>2, <1>3, <1>5
  <2>2. Total(f, R) \in Int BY <1>2, <2>1
  <2>3. f[p] \in Int BY <1>2, <1>3, <1>5 DEF Integral
  <2> HIDE DEF p, R
  <2>4. Total(f, T) = f[p] + Total(f, R) BY <1>3, <1>5 DEF p, R
  <2> QED BY <1>2, <2>2, <2>3, <2>4
<1> QED BY <1>4, <1>5

\* The sum does not depend on the order.
LEMMA TotalAny ==
    ASSUME NEW f, NEW S, IsFiniteSet(S), Integral(f, S), NEW x \in S
    PROVE  Total(f, S) = f[x] + Total(f, S \ {x})
<1> DEFINE Off(T) == \E y \in T : Total(f, T) # f[y] + Total(f, T \ {y})
           C == {T \in SUBSET S : Off(T)}
<1>0. C \subseteq SUBSET S OBVIOUS
<1>1. SUFFICES ASSUME C # {} PROVE FALSE OBVIOUS
<1> HIDE DEF C
<1>2. PICK T \in C : IsFiniteSet(T) /\ \A U \in C : U \subseteq T => U = T BY <1>0, <1>1, MinimalSubset
<1> USE DEF C
<1>3. PICK y \in T : Total(f, T) # f[y] + Total(f, T \ {y}) BY <1>2
<1> DEFINE p == Pick(T)
<1>4. p \in T /\ Total(f, T) = f[p] + Total(f, T \ {p}) BY <1>2, <1>3, TotalStep
<1>5. p # y BY <1>3, <1>4
<1>6. /\ Total(f, T \ {p}) = f[y] + Total(f, (T \ {p}) \ {y})
      /\ Total(f, T \ {y}) = f[p] + Total(f, (T \ {y}) \ {p})
  BY <1>2, <1>3, <1>4, <1>5
<1>7. (T \ {p}) \ {y} = (T \ {y}) \ {p} OBVIOUS
<1>8. IsFiniteSet((T \ {p}) \ {y}) BY <1>2, FS_Subset
<1>9. Total(f, (T \ {p}) \ {y}) \in Int BY <1>2, <1>8, TotalType DEF Integral
<1>10. f[p] \in Int /\ f[y] \in Int BY <1>2, <1>3, <1>4 DEF Integral
<1> DEFINE h == Total(f, (T \ {p}) \ {y})
           a == f[p]
           b == f[y]
<1>11. Total(f, T) = a + (b + h) BY <1>4, <1>6
<1>12. b + Total(f, T \ {y}) = b + (a + h) BY <1>6, <1>7
<1>13. h \in Int /\ a \in Int /\ b \in Int BY <1>9, <1>10
<1> HIDE DEF h, a
<1>14. a + (b + h) = b + (a + h) BY <1>13
<1> QED BY <1>3, <1>11, <1>12, <1>14

\* Only the values on the set matter.
LEMMA TotalSame ==
    ASSUME NEW f, NEW h, NEW S, IsFiniteSet(S), \A t \in S : f[t] = h[t]
    PROVE  Total(f, S) = Total(h, S)
<1> DEFINE C == {T \in SUBSET S : Total(f, T) # Total(h, T)}
<1>0. C \subseteq SUBSET S OBVIOUS
<1>1. SUFFICES ASSUME C # {} PROVE FALSE OBVIOUS
<1> HIDE DEF C
<1>2. PICK T \in C : IsFiniteSet(T) /\ \A U \in C : U \subseteq T => U = T BY <1>0, <1>1, MinimalSubset
<1> USE DEF C
<1>3. /\ Total(f, {}) = 0 /\ Total(h, {}) = 0
      /\ T # {} => /\ Pick(T) \in T
                   /\ Total(f, T) = f[Pick(T)] + Total(f, T \ {Pick(T)})
                   /\ Total(h, T) = h[Pick(T)] + Total(h, T \ {Pick(T)})
  BY <1>2, TotalStep
<1>4. T # {} => Total(f, T \ {Pick(T)}) = Total(h, T \ {Pick(T)}) BY <1>2, <1>3
<1>5. T # {} => f[Pick(T)] = h[Pick(T)] BY <1>2, <1>3
<1> QED BY <1>2, <1>3, <1>4, <1>5

\* A set and one more element.
LEMMA TotalAdd ==
    ASSUME NEW f, NEW S, IsFiniteSet(S), NEW x, x \notin S, Integral(f, S \cup {x})
    PROVE  /\ IsFiniteSet(S \cup {x})
           /\ Total(f, S \cup {x}) = Total(f, S) + f[x]
<1> DEFINE T == S \cup {x}
<1>1. IsFiniteSet(T) BY FS_AddElement
<1>2. T \ {x} = S /\ x \in T OBVIOUS
<1>3. f[x] \in Int /\ Total(f, S) \in Int BY TotalType DEF Integral
<1> HIDE DEF T
<1>4. Total(f, T) = f[x] + Total(f, S) BY <1>1, <1>2, TotalAny DEF T
<1> QED BY <1>1, <1>3, <1>4 DEF T

OneFor(S, T) == [x \in S |-> IF x \in T THEN 1 ELSE 0]

\* The size of a part, as a sum over the whole.
LEMMA SizeIsTotal ==
    ASSUME NEW S, IsFiniteSet(S), NEW T \in SUBSET S
    PROVE  Integral(OneFor(S, T), S) /\ Cardinality(T) = Total(OneFor(S, T), S)
<1> DEFINE f == OneFor(S, T)
           C == {U \in SUBSET S : Cardinality(U \cap T) # Total(f, U)}
<1>0. C \subseteq SUBSET S OBVIOUS
<1>1. \A x \in S : f[x] = IF x \in T THEN 1 ELSE 0 BY DEF OneFor
<1>2. Integral(f, S) BY <1>1 DEF Integral
<1> HIDE DEF f, C
<1>3. ASSUME C # {} PROVE FALSE
  <2>1. PICK U \in C : IsFiniteSet(U) /\ \A V \in C : V \subseteq U => V = U
    BY <1>0, <1>3, MinimalSubset
  <2> USE DEF C
  <2>2. CASE U = {} BY <2>1, <2>2, TotalStep, FS_EmptySet
  <2>3. CASE U # {}
    <3>1. PICK x : x \in U BY <2>3
    <3> DEFINE V == U \ {x}
    <3>2. V \in SUBSET S /\ V # U /\ V \subseteq U /\ x \notin V /\ U = V \cup {x} BY <2>1, <3>1
    <3>3. Cardinality(V \cap T) = Total(f, V) BY <2>1, <3>2
    <3>4. IsFiniteSet(V) /\ IsFiniteSet(V \cap T) BY <2>1, FS_Subset
    <3>5. Integral(f, U) BY <1>2, <2>1 DEF Integral
    <3> HIDE DEF V
    <3>6. Total(f, U) = Total(f, V) + f[x] BY <3>2, <3>4, <3>5, TotalAdd
    <3>7. Cardinality(V \cap T) \in Nat BY <3>4, FS_CardinalityType
    <3>8. CASE x \in T
      <4>1. U \cap T = (V \cap T) \cup {x} /\ x \notin V \cap T BY <3>2, <3>8
      <4>2. Cardinality(U \cap T) = Cardinality(V \cap T) + 1 BY <3>4, <4>1, FS_AddElement
      <4>3. f[x] = 1 BY <1>1, <2>1, <3>1, <3>8
      <4> QED BY <2>1, <3>3, <3>6, <4>2, <4>3
    <3>9. CASE x \notin T
      <4>1. U \cap T = V \cap T BY <3>2, <3>9
      <4>2. f[x] = 0 BY <1>1, <2>1, <3>1, <3>9
      <4>3. Total(f, V) + 0 = Total(f, V) BY <3>3, <3>7
      <4>4. Cardinality(U \cap T) = Total(f, U) BY <3>3, <3>6, <4>1, <4>2, <4>3
      <4> QED BY <2>1, <4>4
    <3> QED BY <3>8, <3>9
  <2> QED BY <2>2, <2>3
<1>4. S \in SUBSET S /\ S \cap T = T OBVIOUS
<1>5. Cardinality(T) = Total(f, S) BY <1>3, <1>4 DEF C
<1> QED BY <1>2, <1>5 DEF f

\* A nonempty set of naturals below a bound has a largest element.
LEMMA LargestOf ==
    ASSUME NEW S \in SUBSET Nat, S # {}, NEW b \in Nat, \A n \in S : n <= b
    PROVE  \E n \in S : \A m \in S : m <= n
<1>1. IsFiniteSet(S) BY FS_BoundedSetOfNaturals
<1> DEFINE Above(n) == {m \in S : m > n}
           C == {Above(n) : n \in S}
<1>2. IsWellFoundedOn(StrictSubsetOrdering(S), FiniteSubsetsOf(S))
  BY <1>1, FS_StrictSubsetOrderingWellFounded
<1>3. C \subseteq FiniteSubsetsOf(S) /\ C # {}
  <2>1. \A n \in S : Above(n) \in SUBSET S OBVIOUS
  <2> HIDE DEF Above
  <2>2. \A n \in S : IsFiniteSet(Above(n)) BY <1>1, <2>1, FS_Subset
  <2> QED BY <2>1, <2>2 DEF FiniteSubsetsOf
<1> HIDE DEF C
<1>4. PICK T \in C : \A U \in C : <<U, T>> \notin StrictSubsetOrdering(S)
  BY <1>2, <1>3, WFMin
<1> USE DEF C
<1>5. PICK n \in S : T = Above(n) OBVIOUS
<1>6. ASSUME NEW m \in S, ~(m <= n) PROVE FALSE
  <2>0. m \in Nat /\ n \in Nat /\ m > n /\ S \subseteq Nat BY <1>6
  <2>a. ASSUME NEW x \in Above(m) PROVE x \in T
    <3>1. x \in S /\ x \in Nat /\ x > m OBVIOUS
    <3>2. x > n BY <2>0, <3>1
    <3> QED BY <1>5, <3>1, <3>2
  <2>b. ~(m > m) BY <2>0
  <2>1. Above(m) \subseteq T /\ m \in T /\ m \notin Above(m) BY <1>5, <2>0, <2>a, <2>b
  <2>2. <<Above(m), T>> \notin StrictSubsetOrdering(S) BY <1>4
  <2>3. T \subseteq S /\ Above(m) \subseteq S BY <1>5
  <2> HIDE DEF Above
  <2> QED BY <2>1, <2>2, <2>3 DEF StrictSubsetOrdering
<1> QED BY <1>6

\* A nonempty set of naturals has a least element.
LEMMA LeastOf ==
    ASSUME NEW S \in SUBSET Nat, S # {} PROVE \E n \in S : \A m \in S : n <= m
<1>1. PICK b \in S : TRUE OBVIOUS
<1>2. b \in Nat OBVIOUS
<1> DEFINE T == {b - n : n \in {n \in S : n <= b}}
<1>3. T \in SUBSET Nat /\ T # {} /\ \A m \in T : m <= b
  <2>1. ASSUME NEW m \in T PROVE m \in Nat /\ m <= b
    <3>1. PICK n \in S : n <= b /\ m = b - n OBVIOUS
    <3>2. n \in Nat OBVIOUS
    <3> QED BY <1>2, <3>1, <3>2
  <2>2. b - b \in T BY <1>1, <1>2
  <2>3. T \subseteq Nat BY <2>1
  <2> QED BY <2>1, <2>2, <2>3
<1>4. PICK m \in T : \A k \in T : k <= m
  <2> HIDE DEF T
  <2> QED BY <1>2, <1>3, LargestOf
<1>5. PICK n \in S : n <= b /\ m = b - n OBVIOUS
<1>6. ASSUME NEW k \in S PROVE n <= k
  <2>1. CASE k <= b
    <3>1. b - k \in T BY <2>1
    <3>2. b - k <= b - n BY <1>4, <1>5, <3>1
    <3>3. k \in Nat /\ n \in Nat OBVIOUS
    <3> QED BY <1>2, <3>2, <3>3
  <2>2. CASE ~(k <= b) BY <1>2, <1>5, <2>2
  <2> QED BY <2>1, <2>2
<1> QED BY <1>6

\* A set without two different elements has at most one.
LEMMA AtMostOne == ASSUME NEW S, \A u, v \in S : u = v PROVE Cardinality(S) <= 1
<1>1. CASE S = {} BY <1>1, FS_EmptySet
<1>2. CASE S # {}
  <2>1. PICK u : S = {u} BY <1>2
  <2>2. Cardinality({u}) = 1 BY FS_Singleton
  <2> QED BY <2>1, <2>2
<1> QED BY <1>1, <1>2

\* A finite set has subsets of every size up to its own.
LEMMA SubsetOfSize ==
    ASSUME NEW S, IsFiniteSet(S), NEW n \in Nat, n <= Cardinality(S)
    PROVE  \E T \in SUBSET S : Cardinality(T) = n
<1> DEFINE C == {T \in SUBSET S : Cardinality(T) >= n}
<1>1. C \subseteq SUBSET S /\ C # {}
  <2>1. S \in C BY FS_CardinalityType
  <2> QED BY <2>1
<1> HIDE DEF C
<1>2. PICK T \in C : IsFiniteSet(T) /\ \A U \in C : U \subseteq T => U = T
  BY <1>1, MinimalSubset
<1> USE DEF C
<1>3. T \in SUBSET S /\ Cardinality(T) \in Nat /\ Cardinality(T) >= n
  BY <1>2, FS_CardinalityType
<1>4. Cardinality(T) = n
  <2> SUFFICES ASSUME Cardinality(T) # n PROVE FALSE OBVIOUS
  <2>1. T # {} BY <1>3, FS_EmptySet
  <2>2. PICK x \in T : TRUE BY <2>1
  <2>3. Cardinality(T \ {x}) = Cardinality(T) - 1
    BY <1>2, <2>2, FS_RemoveElement
  <2>4. T \ {x} \in C BY <1>3, <2>3
  <2> QED BY <1>2, <2>2, <2>4
<1> QED BY <1>3, <1>4

\* The rest of a division is the one number that fits.
LEMMA RestIs ==
    ASSUME NEW m \in Nat, NEW t \in Nat \ {0}, NEW q \in Int, NEW r \in Int, m = q * t + r, 0 <= r, r < t
    PROVE  m % t = r
BY Z3

\* Adding the divisor leaves the rest as it is.
LEMMA SumDivides == ASSUME NEW m \in Nat, NEW t \in Nat \ {0} PROVE (m + t) % t = m % t
<1>1. m = t * (m \div t) + (m % t) /\ m \div t \in Nat
  OBVIOUS
<1>2. m % t \in 0..(t - 1)
  BY Z3
<1>3. PICK q \in Nat : q = m \div t
  BY <1>1
<1>4. PICK r \in 0..(t - 1) : r = m % t
  BY <1>2
<1>5. m + t = (q + 1) * t + r
  BY <1>1, <1>3, <1>4
<1>6. PICK n \in Nat : n = m + t OBVIOUS
<1>7. PICK p \in Int : p = q + 1 OBVIOUS
<1>8. n = p * t + r /\ r \in Int /\ 0 <= r /\ r < t
  BY <1>4, <1>5, <1>6, <1>7
<1>9. n % t = r
  BY <1>8, RestIs
<1> QED BY <1>4, <1>6, <1>9
=============================================================================
