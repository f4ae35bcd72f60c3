------------------------------ MODULE SumLemmas ------------------------------
(***************************************************************************)
(* What sums over finite sets do: the sums of the community modules are    *)
(* recursive functions over the subsets of a set, and what the proofs need *)
(* of them follows by induction on the size of those subsets.  An          *)
(* induction is stated about the set, or the family, of what is good.  The *)
(* last lemma is about lists.                                              *)
(***************************************************************************)
EXTENDS SequencesExt, FiniteSetTheorems, SequenceTheorems, WellFoundedInduction, TLAPS

\* A set of numbers that holds 0 and every successor holds them all.
LEMMA SetOfNaturals ==
  ASSUME NEW N, N \subseteq Nat, 0 \in N, \A n \in N : n + 1 \in N
  PROVE  N = Nat
<1>1. SUFFICES ASSUME Nat \ N # {} PROVE FALSE
  OBVIOUS
<1>2. \E x \in Nat \ N : \A y \in Nat \ N : ~ (<<y, x>> \in OpToRel(<, Nat))
  BY <1>1, NatLessThanWellFounded, WFMin
<1>3. PICK x \in Nat \ N : \A y \in Nat \ N : ~ (y < x)
  BY <1>2 DEF OpToRel
<1>4. x # 0 /\ x - 1 \in Nat /\ x - 1 < x
  BY <1>3
<1>5. x - 1 \in N
  BY <1>3, <1>4
<1>6. (x - 1) + 1 = x
  BY <1>3
<1> QED BY <1>3, <1>5, <1>6

\* A set of numbers has a least one.
LEMMA LeastOf ==
  ASSUME NEW S, S \subseteq Nat, S # {}
  PROVE  \E i \in S : \A j \in S : i <= j
<1> DEFINE N == {n \in Nat : \A j \in S : n <= j}
<1>1. 0 \in N
  OBVIOUS
<1>2. SUFFICES ASSUME \A i \in S : \E j \in S : j < i PROVE FALSE
  OBVIOUS
<1>3. \A n \in N : n + 1 \in N
  BY <1>2
<1> HIDE DEF N
<1>4. N = Nat
  BY <1>1, <1>3, SetOfNaturals DEF N
<1>5. PICK j \in S : TRUE
  OBVIOUS
<1>6. j + 1 \in N
  BY <1>4, <1>5
<1> QED BY <1>5, <1>6 DEF N

\* A function may be defined by recursion on the natural numbers.
LEMMA FunctionByRecursion ==
  ASSUME NEW T, NEW a \in T, NEW F \in [T -> T]
  PROVE  \E g \in [Nat -> T] : g[0] = a /\ \A n \in Nat : g[n + 1] = F[g[n]]
<1> DEFINE Part(h, n) == /\ h \in [0..n -> T] /\ h[0] = a
                         /\ \A m \in 0..n - 1 : h[m + 1] = F[h[m]]
           N == {n \in Nat : \E h : Part(h, n)}
           Same == {k \in Nat : \A n, m \in Nat : \A g, h :
                      Part(g, n) /\ Part(h, m) /\ k <= n /\ k <= m => g[k] = h[k]}
<1>1. 0 \in N
  <2>1. Part([m \in 0..0 |-> a], 0)
    OBVIOUS
  <2> QED BY <2>1
<1>2. ASSUME NEW n \in N PROVE n + 1 \in N
  <2>1. n \in Nat /\ n + 1 \in Nat
    OBVIOUS
  <2>2. PICK h : Part(h, n)
    OBVIOUS
  <2> DEFINE g == [m \in 0..n + 1 |-> IF m = n + 1 THEN F[h[n]] ELSE h[m]]
  <2>3. /\ \A m \in 0..n : m \in 0..n + 1 /\ m # n + 1 /\ g[m] = h[m] /\ h[m] \in T
        /\ g[n + 1] = F[h[n]] /\ F[h[n]] \in T
    BY <2>1, <2>2
  <2>4. g \in [0..n + 1 -> T]
    <3>1. \A m \in 0..n + 1 : m = n + 1 \/ m \in 0..n
      BY <2>1
    <3>2. \A m \in 0..n + 1 : g[m] \in T
      BY <2>3, <3>1
    <3> QED BY <3>2
  <2>5. ASSUME NEW m \in 0..(n + 1) - 1 PROVE g[m + 1] = F[g[m]]
    <3>1. m \in 0..n /\ (m = n \/ (m \in 0..n - 1 /\ m + 1 \in 0..n))
      BY <2>1
    <3> HIDE DEF g
    <3> QED BY <2>2, <2>3, <3>1
  <2>6. 0 \in 0..n
    BY <2>1
  <2>7. g[0] = a
    BY <2>2, <2>3, <2>6
  <2>8. Part(g, n + 1)
    <3> HIDE DEF g
    <3> QED BY <2>4, <2>5, <2>7
  <2> HIDE DEF Part
  <2> QED BY <2>1, <2>8
<1>3. N = Nat
  <2> HIDE DEF Part
  <2> QED BY <1>1, <1>2, SetOfNaturals
<1>4. Same = Nat
  <2>1. 0 \in Same
    OBVIOUS
  <2>2. ASSUME NEW k \in Same PROVE k + 1 \in Same
    <3>0. k \in Nat /\ k + 1 \in Nat
      OBVIOUS
    <3> SUFFICES ASSUME NEW n \in Nat, NEW m \in Nat, NEW g, NEW h, Part(g, n), Part(h, m),
                        k + 1 <= n, k + 1 <= m
                 PROVE  g[k + 1] = h[k + 1]
      BY <3>0
    <3>1. k \in 0..n - 1 /\ k \in 0..m - 1 /\ k <= n /\ k <= m
      BY <3>0
    <3>2. g[k] = h[k]
      <4> HIDE DEF Part
      <4> QED BY <3>1
    <3>3. g[k + 1] = F[g[k]] /\ h[k + 1] = F[h[k]]
      BY <3>1
    <3> QED BY <3>2, <3>3
  <2> HIDE DEF Same
  <2>3. Same \subseteq Nat
    BY DEF Same
  <2> QED BY <2>1, <2>2, <2>3, SetOfNaturals
<1> DEFINE H(n) == CHOOSE h : Part(h, n)
           g == [n \in Nat |-> H(n)[n]]
<1>5. \A n \in Nat : Part(H(n), n)
  <2> HIDE DEF Part
  <2> QED BY <1>3
<1> HIDE DEF H
<1>6. \A n \in Nat : H(n)[n] \in T
  <2> SUFFICES ASSUME NEW n \in Nat PROVE H(n)[n] \in T
    OBVIOUS
  <2>1. n \in 0..n /\ H(n) \in [0..n -> T]
    BY <1>5
  <2> QED BY <2>1
<1>7. g[0] = a
  BY <1>5
<1>8. ASSUME NEW n \in Nat PROVE g[n + 1] = F[g[n]]
  <2>1. n + 1 \in Nat /\ n \in 0..(n + 1) - 1 /\ n <= n /\ n <= n + 1
    OBVIOUS
  <2>2. H(n + 1)[n + 1] = F[H(n + 1)[n]]
    BY <1>5, <2>1
  <2>3. H(n + 1)[n] = H(n)[n]
    <3>1. Part(H(n + 1), n + 1) /\ Part(H(n), n) /\ n \in Same
      BY <1>4, <1>5, <2>1
    <3> HIDE DEF Part
    <3> QED BY <2>1, <3>1
  <2> QED BY <2>1, <2>2, <2>3
<1> QED BY <1>6, <1>7, <1>8

\* A family of subsets of a finite set that holds the empty set and, with any
\* other, all that have one element more holds the set itself.
LEMMA FamilyOfSubsets ==
  ASSUME NEW S, IsFiniteSet(S), NEW F, {} \in F,
         \A T \in SUBSET S, x \in S : T \in F /\ x \notin T => T \cup {x} \in F
  PROVE  S \in F
<1> DEFINE N == {n \in Nat : \A T \in SUBSET S : Cardinality(T) = n => T \in F}
<1>1. \A T \in SUBSET S : IsFiniteSet(T) /\ Cardinality(T) \in Nat
                          /\ (Cardinality(T) = 0 <=> T = {})
  BY FS_Subset, FS_EmptySet, FS_CardinalityType
<1>2. 0 \in N
  BY <1>1
<1>3. ASSUME NEW n \in N PROVE n + 1 \in N
  <2> SUFFICES ASSUME NEW T \in SUBSET S, Cardinality(T) = n + 1 PROVE T \in F
    OBVIOUS
  <2>1. T # {}
    BY <1>1
  <2>2. PICK x \in T : TRUE
    BY <2>1
  <2>5. Cardinality(T \ {x}) = Cardinality(T) - 1
    BY <1>1, <2>2, FS_RemoveElement
  <2>3. Cardinality(T \ {x}) = n
    <3>1. n \in Nat
      OBVIOUS
    <3> HIDE DEF N
    <3> QED BY <2>5, <3>1
  <2>4. T \ {x} \in F /\ (T \ {x}) \cup {x} = T
    BY <2>2, <2>3
  <2> QED BY <2>2, <2>4
<1>4. N = Nat
  BY <1>2, <1>3, SetOfNaturals
<1>5. Cardinality(S) \in N
  BY <1>1, <1>4
<1> QED BY <1>5

-----------------------------------------------------------------------------
(* Sums *)

First(s) == CHOOSE x \in s : TRUE

\* The recursion by which the community modules sum a function over a set.
SumRec(f, D, g) ==
  g = [s \in D |-> IF s = {} THEN 0 ELSE f[First(s)] + g[s \ {First(s)}]]

LEMMA FirstOf ==
  ASSUME NEW S, IsFiniteSet(S)
  PROVE  \A s \in SUBSET S :
           /\ IsFiniteSet(s) /\ Cardinality(s) \in Nat /\ (s = {} <=> Cardinality(s) = 0)
           /\ s # {} => First(s) \in s /\ Cardinality(s \ {First(s)}) = Cardinality(s) - 1
<1>1. \A s \in SUBSET S : s # {} => First(s) \in s
  BY DEF First
<1> QED BY <1>1, FS_Subset, FS_EmptySet, FS_CardinalityType, FS_RemoveElement

LEMMA SumRecExists ==
  ASSUME NEW S, IsFiniteSet(S), NEW f
  PROVE  \E g : SumRec(f, SUBSET S, g)
<1> DEFINE D(n) == {s \in SUBSET S : Cardinality(s) <= n}
           N == {n \in Nat : \E g : SumRec(f, D(n), g)}
<1>1. \A n \in Nat : \A s \in D(n + 1) : s # {} => s \ {First(s)} \in D(n)
  BY FirstOf
<1>2. ASSUME NEW n \in Nat, NEW s \in D(n) PROVE s \in D(n + 1)
  <2>1. Cardinality(s) <= n /\ Cardinality(s) \in Nat /\ s \in SUBSET S
    BY FirstOf
  <2>2. Cardinality(s) <= n + 1
    BY <2>1
  <2> QED BY <2>1, <2>2
<1>3. 0 \in N
  <2>1. ASSUME NEW s \in D(0) PROVE s = {}
    <3>1. Cardinality(s) <= 0 /\ Cardinality(s) \in Nat /\ s \in SUBSET S
      BY FirstOf
    <3>2. Cardinality(s) = 0
      BY <3>1
    <3> QED BY <3>1, <3>2, FirstOf
  <2>2. SumRec(f, D(0), [s \in D(0) |-> 0])
    BY <2>1 DEF SumRec
  <2> QED BY <2>2
<1>4. ASSUME NEW n \in N PROVE n + 1 \in N
  <2>1. PICK g : SumRec(f, D(n), g)
    OBVIOUS
  <2> DEFINE h == [s \in D(n + 1) |-> IF s = {} THEN 0 ELSE f[First(s)] + g[s \ {First(s)}]]
  <2>2. \A s \in D(n) : h[s] = g[s]
    <3>1. \A s \in D(n) : h[s] = IF s = {} THEN 0 ELSE f[First(s)] + g[s \ {First(s)}]
      BY <1>2
    <3>2. \A s \in D(n) : g[s] = IF s = {} THEN 0 ELSE f[First(s)] + g[s \ {First(s)}]
      BY <2>1 DEF SumRec
    <3> QED BY <3>1, <3>2
  <2>3. \A s \in D(n + 1) : s # {} => h[s \ {First(s)}] = g[s \ {First(s)}]
    BY <1>1, <2>2
  <2>4. SumRec(f, D(n + 1), h)
    <3> HIDE DEF D
    <3> QED BY <2>3 DEF SumRec
  <2>5. n + 1 \in Nat
    OBVIOUS
  <2> HIDE DEF h, D
  <2> QED BY <2>4, <2>5
<1>5. N = Nat
  <2> HIDE DEF D
  <2> QED BY <1>3, <1>4, SetOfNaturals
<1>6. Cardinality(S) \in Nat /\ D(Cardinality(S)) = SUBSET S
  BY FS_CardinalityType, FS_Subset
<1>7. PICK g : SumRec(f, D(Cardinality(S)), g)
  <2> HIDE DEF D
  <2> QED BY <1>5, <1>6
<1> QED BY <1>6, <1>7

LEMMA SumRecUnique ==
  ASSUME NEW S, IsFiniteSet(S), NEW T \in SUBSET S, NEW f, NEW g, NEW h,
         SumRec(f, SUBSET S, g), SumRec(f, SUBSET T, h)
  PROVE  g[T] = h[T]
<1> DEFINE N == {n \in Nat : \A s \in SUBSET T : Cardinality(s) = n => g[s] = h[s]}
<1>1. \A s \in SUBSET T :
        /\ g[s] = IF s = {} THEN 0 ELSE f[First(s)] + g[s \ {First(s)}]
        /\ h[s] = IF s = {} THEN 0 ELSE f[First(s)] + h[s \ {First(s)}]
  BY DEF SumRec
<1>2. 0 \in N
  BY <1>1, FirstOf
<1>3. ASSUME NEW n \in N PROVE n + 1 \in N
  <2> SUFFICES ASSUME NEW s \in SUBSET T, Cardinality(s) = n + 1 PROVE g[s] = h[s]
    OBVIOUS
  <2>1. s # {} /\ Cardinality(s \ {First(s)}) = n
    <3>1. n \in Nat /\ s \in SUBSET S
      OBVIOUS
    <3> HIDE DEF N
    <3> QED BY <3>1, FirstOf
  <2>2. g[s \ {First(s)}] = h[s \ {First(s)}]
    BY <2>1
  <2> QED BY <1>1, <2>1, <2>2
<1>4. N = Nat
  BY <1>2, <1>3, SetOfNaturals
<1>5. Cardinality(T) \in N
  BY <1>4, FirstOf
<1> QED BY <1>5

\* The sum over no element, and the first step of any other.
LEMMA SumUnfold ==
  ASSUME NEW S, IsFiniteSet(S), NEW f
  PROVE  /\ SumFunctionOnSet(f, {}) = 0
         /\ S # {} => SumFunctionOnSet(f, S)
                        = f[First(S)] + SumFunctionOnSet(f, S \ {First(S)})
<1> DEFINE G(s) == CHOOSE g : SumRec(f, SUBSET s, g)
<1>1. \A s : SumFunctionOnSet(f, s) = G(s)[s]
  BY DEF SumFunctionOnSet, FoldFunctionOnSet, MapThenFoldSet, SumRec, First
<1>2. \A s \in SUBSET S : SumRec(f, SUBSET s, G(s))
  BY SumRecExists, FirstOf
<1> HIDE DEF G
<1>3. G({})[{}] = 0
  BY <1>2 DEF SumRec
<1>4. S # {} => G(S)[S] = f[First(S)] + G(S)[S \ {First(S)}]
  BY <1>2 DEF SumRec
<1>5. G(S)[S \ {First(S)}] = G(S \ {First(S)})[S \ {First(S)}]
  <2>1. SumRec(f, SUBSET S, G(S)) /\ SumRec(f, SUBSET (S \ {First(S)}), G(S \ {First(S)}))
    BY <1>2
  <2> QED BY <2>1, SumRecUnique
<1> QED BY <1>1, <1>3, <1>4, <1>5

\* A sum over any element first.
LEMMA SumSplit ==
  ASSUME NEW S, IsFiniteSet(S), NEW f, \A x \in S : f[x] \in Int
  PROVE  /\ SumFunctionOnSet(f, S) \in Int
         /\ \A x \in S : SumFunctionOnSet(f, S) = f[x] + SumFunctionOnSet(f, S \ {x})
<1> DEFINE Sum(s) == SumFunctionOnSet(f, s)
           Good(s) == Sum(s) \in Int /\ \A x \in s : Sum(s) = f[x] + Sum(s \ {x})
           N == {n \in Nat : \A s \in SUBSET S : Cardinality(s) <= n => Good(s)}
<1>0. \A s \in SUBSET S : IsFiniteSet(s) /\ Cardinality(s) \in Nat
  BY FirstOf
<1>1. /\ Sum({}) = 0
      /\ \A s \in SUBSET S : s # {} => Sum(s) = f[First(s)] + Sum(s \ {First(s)})
  BY SumUnfold, FirstOf
<1> HIDE DEF Sum
<1>2. Good({})
  BY <1>1
<1>3. 0 \in N
  <2> SUFFICES ASSUME NEW s \in SUBSET S, Cardinality(s) <= 0 PROVE Good(s)
    OBVIOUS
  <2>1. Cardinality(s) = 0
    BY <1>0
  <2> HIDE DEF Good
  <2> QED BY <1>2, <2>1, FirstOf
<1>4. ASSUME NEW n \in N PROVE n + 1 \in N
  <2>1. n \in Nat /\ \A t \in SUBSET S : Cardinality(t) <= n => Good(t)
    OBVIOUS
  <2> HIDE DEF Good
  <2> SUFFICES ASSUME NEW s \in SUBSET S, Cardinality(s) = n + 1 PROVE Good(s)
    <3>1. ASSUME NEW s \in SUBSET S, Cardinality(s) <= n + 1
          PROVE  Cardinality(s) <= n \/ Cardinality(s) = n + 1
      <4>1. Cardinality(s) \in Nat
        BY <1>0
      <4> QED BY <2>1, <3>1, <4>1
    <3> QED BY <2>1, <3>1
  <2> HIDE DEF N
  <2>2. Cardinality(s) # 0 /\ IsFiniteSet(s)
    BY <1>0, <2>1
  <2>3. s # {} /\ First(s) \in s
    BY <2>2, FirstOf
  <2>4. \A x \in s : Good(s \ {x})
    <3> SUFFICES ASSUME NEW x \in s PROVE Good(s \ {x})
      OBVIOUS
    <3>1. Cardinality(s \ {x}) = Cardinality(s) - 1
      BY <2>2, FS_RemoveElement
    <3>2. Cardinality(s \ {x}) <= n
      BY <2>1, <3>1
    <3> QED BY <2>1, <3>2
  <2> DEFINE y == First(s)
  <2>5. Sum(s) = f[y] + Sum(s \ {y}) /\ f[y] \in Int /\ y \in s
    BY <1>1, <2>3
  <2> HIDE DEF y
  <2>6. ASSUME NEW x \in s, x # y PROVE Sum(s) = f[x] + Sum(s \ {x})
    <3>1. /\ Sum(s \ {y}) = f[x] + Sum((s \ {y}) \ {x})
          /\ Sum(s \ {x}) = f[y] + Sum((s \ {x}) \ {y})
      BY <2>4, <2>5, <2>6 DEF Good
    <3>2. (s \ {y}) \ {x} = (s \ {x}) \ {y}
      OBVIOUS
    <3>3. Good((s \ {y}) \ {x})
      <4>1. /\ Cardinality(s \ {y}) = Cardinality(s) - 1 /\ IsFiniteSet(s \ {y})
            /\ Cardinality((s \ {y}) \ {x}) = Cardinality(s \ {y}) - 1
        BY <2>2, <2>5, <2>6, FS_RemoveElement
      <4>2. Cardinality((s \ {y}) \ {x}) <= n
        BY <2>1, <4>1
      <4> QED BY <2>1, <4>2
    <3>4. Sum((s \ {y}) \ {x}) \in Int /\ f[x] \in Int
      BY <3>3 DEF Good
    <3>5. Sum(s \ {x}) = f[y] + Sum((s \ {y}) \ {x})
      BY <3>1, <3>2
    <3> DEFINE rest == Sum((s \ {y}) \ {x})
    <3>6. /\ rest \in Int /\ Sum(s \ {x}) = f[y] + rest /\ Sum(s) = f[y] + (f[x] + rest)
      BY <2>5, <3>1, <3>4, <3>5
    <3> HIDE DEF rest
    <3> QED BY <2>5, <3>4, <3>6
  <2>7. Sum(s) \in Int
    BY <2>4, <2>5 DEF Good
  <2> QED BY <2>5, <2>6, <2>7 DEF Good
<1>5. N = Nat
  <2> HIDE DEF Good
  <2> QED BY <1>3, <1>4, SetOfNaturals
<1>6. Cardinality(S) \in N /\ Cardinality(S) \in Nat
  BY <1>5, FirstOf
<1>7. Good(S)
  <2> HIDE DEF Good
  <2> QED BY <1>6
<1> QED BY <1>7 DEF Sum

\* Sums of functions that are added up, or compared, point by point.
LEMMA SumsOfSubsets ==
  ASSUME NEW S, IsFiniteSet(S), NEW f, \A x \in S : f[x] \in Int
  PROVE  /\ SumFunctionOnSet(f, {}) = 0
         /\ \A s \in SUBSET S :
              /\ SumFunctionOnSet(f, s) \in Int
              /\ \A x \in S \ s :
                   SumFunctionOnSet(f, s \cup {x}) = f[x] + SumFunctionOnSet(f, s)
<1>1. SumFunctionOnSet(f, {}) = 0
  BY SumUnfold
<1>2. ASSUME NEW s \in SUBSET S PROVE SumFunctionOnSet(f, s) \in Int
  BY SumSplit, FirstOf
<1>3. ASSUME NEW s \in SUBSET S, NEW x \in S \ s
      PROVE  SumFunctionOnSet(f, s \cup {x}) = f[x] + SumFunctionOnSet(f, s)
  <2>1. (s \cup {x}) \ {x} = s /\ x \in s \cup {x} /\ s \cup {x} \in SUBSET S
    OBVIOUS
  <2>2. IsFiniteSet(s \cup {x}) /\ \A y \in s \cup {x} : f[y] \in Int
    BY <2>1, FS_Subset
  <2>3. SumFunctionOnSet(f, s \cup {x}) = f[x] + SumFunctionOnSet(f, (s \cup {x}) \ {x})
    BY <2>1, <2>2, SumSplit
  <2> QED BY <2>1, <2>3
<1> QED BY <1>1, <1>2, <1>3

LEMMA SumOfTwo ==
  ASSUME NEW S, IsFiniteSet(S), NEW f, NEW g, NEW h,
         \A x \in S : f[x] \in Int /\ g[x] \in Int /\ h[x] = f[x] + g[x]
  PROVE  SumFunctionOnSet(h, S) = SumFunctionOnSet(f, S) + SumFunctionOnSet(g, S)
<1> DEFINE Sum(k, s) == SumFunctionOnSet(k, s)
           F == {s \in SUBSET S : Sum(h, s) = Sum(f, s) + Sum(g, s)}
<1>1. \A x \in S : h[x] \in Int
  OBVIOUS
<1>2. \A k \in {f, g, h} :
        /\ Sum(k, {}) = 0
        /\ \A s \in SUBSET S : /\ Sum(k, s) \in Int
                               /\ \A x \in S \ s : Sum(k, s \cup {x}) = k[x] + Sum(k, s)
  BY <1>1, SumsOfSubsets
<1> HIDE DEF Sum
<1>3. {} \in F
  BY <1>2
<1>4. ASSUME NEW T \in SUBSET S, NEW x \in S, T \in F, x \notin T PROVE T \cup {x} \in F
  <2>1. /\ Sum(f, T \cup {x}) = f[x] + Sum(f, T)
        /\ Sum(g, T \cup {x}) = g[x] + Sum(g, T)
        /\ Sum(h, T \cup {x}) = h[x] + Sum(h, T)
        /\ Sum(f, T) \in Int /\ Sum(g, T) \in Int
    BY <1>2, <1>4
  <2>2. Sum(h, T \cup {x}) = Sum(f, T \cup {x}) + Sum(g, T \cup {x})
    BY <1>4, <2>1
  <2> QED BY <1>4, <2>2
<1>5. S \in F
  <2> HIDE DEF F
  <2> QED BY <1>3, <1>4, FamilyOfSubsets
<1> QED BY <1>5 DEF Sum

LEMMA SumAtMost ==
  ASSUME NEW S, IsFiniteSet(S), NEW f, NEW g,
         \A x \in S : f[x] \in Int /\ g[x] \in Int /\ f[x] <= g[x]
  PROVE  SumFunctionOnSet(f, S) <= SumFunctionOnSet(g, S)
<1> DEFINE Sum(k, s) == SumFunctionOnSet(k, s)
           F == {s \in SUBSET S : Sum(f, s) <= Sum(g, s)}
<1>1. \A k \in {f, g} :
        /\ Sum(k, {}) = 0
        /\ \A s \in SUBSET S : /\ Sum(k, s) \in Int
                               /\ \A x \in S \ s : Sum(k, s \cup {x}) = k[x] + Sum(k, s)
  BY SumsOfSubsets
<1> HIDE DEF Sum
<1>2. {} \in F
  BY <1>1
<1>3. ASSUME NEW T \in SUBSET S, NEW x \in S, T \in F, x \notin T PROVE T \cup {x} \in F
  <2>1. /\ Sum(f, T \cup {x}) = f[x] + Sum(f, T)
        /\ Sum(g, T \cup {x}) = g[x] + Sum(g, T)
        /\ Sum(f, T) \in Int /\ Sum(g, T) \in Int
    BY <1>1, <1>3
  <2>2. Sum(f, T \cup {x}) <= Sum(g, T \cup {x})
    BY <1>3, <2>1
  <2> QED BY <1>3, <2>2
<1>4. S \in F
  <2> HIDE DEF F
  <2> QED BY <1>2, <1>3, FamilyOfSubsets
<1> QED BY <1>4 DEF Sum

LEMMA SumOfOnes ==
  ASSUME NEW S, IsFiniteSet(S), NEW f, \A x \in S : f[x] = 1
  PROVE  SumFunctionOnSet(f, S) = Cardinality(S)
<1> DEFINE Sum(s) == SumFunctionOnSet(f, s)
           F == {s \in SUBSET S : Sum(s) = Cardinality(s)}
<1>0. \A s \in SUBSET S : IsFiniteSet(s) /\ Cardinality(s) \in Nat
  BY FirstOf
<1>1. /\ Sum({}) = 0
      /\ \A s \in SUBSET S : /\ Sum(s) \in Int
                             /\ \A x \in S \ s : Sum(s \cup {x}) = f[x] + Sum(s)
  BY SumsOfSubsets
<1> HIDE DEF Sum
<1>2. {} \in F
  BY <1>1, FS_EmptySet
<1>3. ASSUME NEW T \in SUBSET S, NEW x \in S, T \in F, x \notin T PROVE T \cup {x} \in F
  <2>1. Sum(T \cup {x}) = 1 + Sum(T)
    BY <1>1, <1>3
  <2>2. Cardinality(T \cup {x}) = Cardinality(T) + 1
    BY <1>0, <1>3, FS_AddElement
  <2>3. Sum(T \cup {x}) = Cardinality(T \cup {x})
    BY <1>0, <1>3, <2>1, <2>2
  <2> QED BY <1>3, <2>3
<1>4. S \in F
  <2> HIDE DEF F
  <2> QED BY <1>2, <1>3, FamilyOfSubsets
<1> QED BY <1>4 DEF Sum

\* A sum of zeros, a sum of naturals, and a sum in which one element changes.
LEMMA SumOfZeros ==
  ASSUME NEW S, IsFiniteSet(S), NEW f, \A x \in S : f[x] = 0
  PROVE  SumFunctionOnSet(f, S) = 0
<1> DEFINE n == SumFunctionOnSet(f, S)
<1>1. n = n + n
  BY SumOfTwo
<1>2. n \in Int
  BY SumSplit
<1> HIDE DEF n
<1>3. n = 0
  BY <1>1, <1>2
<1> QED BY <1>3 DEF n

LEMMA SumOfNaturals ==
  ASSUME NEW S, IsFiniteSet(S), NEW f, \A x \in S : f[x] \in Nat
  PROVE  /\ SumFunctionOnSet(f, S) \in Nat
         /\ \A x \in S : f[x] <= SumFunctionOnSet(f, S)
<1> DEFINE Sum(k, s) == SumFunctionOnSet(k, s)
           zeros == [x \in S |-> 0]
<1>1. \A s \in SUBSET S : Sum(f, s) \in Nat
  <2> SUFFICES ASSUME NEW s \in SUBSET S PROVE Sum(f, s) \in Nat
    OBVIOUS
  <2>1. IsFiniteSet(s)
    BY FS_Subset
  <2>2. \A x \in s : zeros[x] = 0 /\ f[x] \in Nat
    OBVIOUS
  <2> HIDE DEF zeros
  <2>3. Sum(f, s) \in Int /\ Sum(zeros, s) = 0
    BY <2>1, <2>2, SumSplit, SumOfZeros
  <2>4. Sum(zeros, s) <= Sum(f, s)
    BY <2>1, <2>2, SumAtMost
  <2> QED BY <2>3, <2>4
<1>2. ASSUME NEW x \in S PROVE f[x] <= Sum(f, S)
  <2>1. Sum(f, S) = f[x] + Sum(f, S \ {x})
    BY SumSplit
  <2>2. Sum(f, S \ {x}) \in Nat
    BY <1>1
  <2> HIDE DEF Sum
  <2> QED BY <2>1, <2>2
<1> QED BY <1>1, <1>2

LEMMA SumChanged ==
  ASSUME NEW S, IsFiniteSet(S), NEW f, NEW g, NEW x \in S,
         \A y \in S : f[y] \in Int /\ g[y] \in Int,
         \A y \in S \ {x} : f[y] = g[y]
  PROVE  SumFunctionOnSet(g, S) = SumFunctionOnSet(f, S) + (g[x] - f[x])
<1> DEFINE Sum(k, s) == SumFunctionOnSet(k, s)
           T == S \ {x}
<1>1. IsFiniteSet(T) /\ \A y \in T : f[y] \in Int /\ g[y] \in Int /\ f[y] = g[y]
  BY FS_RemoveElement
<1>2. Sum(f, S) = f[x] + Sum(f, T) /\ Sum(g, S) = g[x] + Sum(g, T)
  BY SumSplit
<1>3. Sum(f, T) \in Int /\ Sum(g, T) \in Int
  BY <1>1, SumSplit
<1>4. Sum(f, T) <= Sum(g, T) /\ Sum(g, T) <= Sum(f, T)
  BY <1>1, SumAtMost
<1> HIDE DEF Sum
<1>5. Sum(f, T) = Sum(g, T) /\ f[x] \in Int /\ g[x] \in Int
  BY <1>3, <1>4
<1>6. Sum(g, S) = Sum(f, S) + (g[x] - f[x])
  BY <1>2, <1>3, <1>5
<1> QED BY <1>6 DEF Sum

-----------------------------------------------------------------------------
(* Lists *)

\* A sum looks at nothing but the values it adds.
LEMMA SumAlike ==
  ASSUME NEW S, IsFiniteSet(S), NEW f, NEW g, \A x \in S : f[x] \in Int /\ g[x] = f[x]
  PROVE  SumFunctionOnSet(g, S) = SumFunctionOnSet(f, S)
<1>1. SumFunctionOnSet(f, S) \in Int /\ SumFunctionOnSet(g, S) \in Int
  BY SumSplit
<1>2. \A x \in S : f[x] <= g[x] /\ g[x] <= f[x] /\ g[x] \in Int
  OBVIOUS
<1>3. SumFunctionOnSet(f, S) <= SumFunctionOnSet(g, S)
  BY <1>2, SumAtMost
<1>4. SumFunctionOnSet(g, S) <= SumFunctionOnSet(f, S)
  BY <1>2, SumAtMost
<1> QED BY <1>1, <1>3, <1>4

\* The sum of a function that is defined at one more place.
LEMMA SumExtended ==
  ASSUME NEW f, NEW g, NEW x, IsFiniteSet(DOMAIN f), x \notin DOMAIN f,
         DOMAIN g = DOMAIN f \cup {x}, g[x] \in Int,
         \A y \in DOMAIN f : f[y] \in Int /\ g[y] = f[y]
  PROVE  /\ IsFiniteSet(DOMAIN g) /\ SumFunction(f) \in Int
         /\ SumFunction(g) = SumFunction(f) + g[x]
<1>1. IsFiniteSet(DOMAIN g)
  BY FS_AddElement
<1>2. \A y \in DOMAIN g : g[y] \in Int
  OBVIOUS
<1>3. SumFunctionOnSet(g, DOMAIN g) = g[x] + SumFunctionOnSet(g, DOMAIN g \ {x})
  BY <1>1, <1>2, SumSplit
<1>4. DOMAIN g \ {x} = DOMAIN f
  OBVIOUS
<1>5. SumFunctionOnSet(g, DOMAIN f) = SumFunctionOnSet(f, DOMAIN f)
  BY SumAlike
<1>6. SumFunctionOnSet(f, DOMAIN f) \in Int
  BY SumSplit
<1> QED BY <1>1, <1>3, <1>4, <1>5, <1>6 DEF SumFunction

\* What is left of a list without its nth element.
LEMMA Removed ==
  ASSUME NEW T, NEW s \in Seq(T), NEW n \in DOMAIN s
  PROVE  /\ RemoveAt(s, n) \in Seq(T) /\ Len(RemoveAt(s, n)) = Len(s) - 1
         /\ n \in Nat /\ s[n] \in T
         /\ \A i \in DOMAIN RemoveAt(s, n) :
              /\ i \in Nat
              /\ i < n => i \in DOMAIN s /\ RemoveAt(s, n)[i] = s[i]
              /\ i >= n => i + 1 \in DOMAIN s /\ RemoveAt(s, n)[i] = s[i + 1]
         /\ \A j \in DOMAIN s :
              /\ j \in Nat
              /\ j < n => j \in DOMAIN RemoveAt(s, n) /\ RemoveAt(s, n)[j] = s[j]
              /\ j > n => j - 1 \in DOMAIN RemoveAt(s, n) /\ RemoveAt(s, n)[j - 1] = s[j]
<1> DEFINE r == RemoveAt(s, n)
           a == SubSeq(s, 1, n - 1)
           b == SubSeq(s, n + 1, Len(s))
           k == Len(s)
<1>1. /\ n \in 1..k /\ k \in Nat /\ DOMAIN s = 1..k
      /\ \A i \in 1..k : s[i] \in T
  OBVIOUS
<1>2. a \in Seq(T) /\ Len(a) = n - 1 /\ \A i \in 1..(n - 1) : a[i] = s[i]
  <2>1. \A i \in 1..(n - 1) : s[i] \in T
    BY <1>1
  <2>2. /\ a \in Seq(T) /\ Len(a) = IF 1 <= n - 1 THEN n - 1 - 1 + 1 ELSE 0
        /\ \A i \in 1..(n - 1 - 1 + 1) : a[i] = s[1 + i - 1]
    BY <1>1, <2>1, SubSeqProperties
  <2> HIDE DEF a
  <2> QED BY <1>1, <2>2
<1>3. b \in Seq(T) /\ Len(b) = k - n /\ \A i \in 1..(k - n) : b[i] = s[n + i]
  <2>1. \A i \in (n + 1)..k : s[i] \in T
    BY <1>1
  <2>2. /\ b \in Seq(T) /\ Len(b) = IF n + 1 <= k THEN k - (n + 1) + 1 ELSE 0
        /\ \A i \in 1..(k - (n + 1) + 1) : b[i] = s[n + 1 + i - 1]
    BY <1>1, <2>1, SubSeqProperties
  <2> HIDE DEF b, k
  <2>3. \A i \in 1..(k - n) : n + 1 + i - 1 = n + i
    BY <1>1
  <2> QED BY <1>1, <2>2, <2>3
<1>4. r = a \o b
  BY DEF RemoveAt
<1> HIDE DEF r, a, b, k
<1>5. /\ r \in Seq(T) /\ Len(r) = Len(a) + Len(b)
      /\ \A i \in 1..(Len(a) + Len(b)) : r[i] = IF i <= Len(a) THEN a[i] ELSE b[i - Len(a)]
  BY <1>2, <1>3, <1>4, ConcatProperties
<1>6. Len(r) = k - 1 /\ DOMAIN r = 1..(k - 1)
  BY <1>1, <1>2, <1>3, <1>5
<1>7. ASSUME NEW i \in 1..(k - 1), i < n PROVE r[i] = s[i]
  BY <1>1, <1>2, <1>3, <1>5, <1>7
<1>8. ASSUME NEW i \in 1..(k - 1), i >= n PROVE r[i] = s[i + 1]
  <2> DEFINE m == i - (n - 1)
  <2>1. m \in 1..(k - n) /\ n + m = i + 1 /\ i \in 1..(Len(a) + Len(b)) /\ ~ (i <= Len(a))
    BY <1>1, <1>2, <1>3, <1>8
  <2>2. r[i] = b[m]
    BY <1>2, <1>5, <2>1
  <2> HIDE DEF m
  <2> QED BY <1>3, <2>1, <2>2
<1>9. \A i \in DOMAIN r : /\ i \in Nat
                          /\ i < n => i \in DOMAIN s /\ r[i] = s[i]
                          /\ i >= n => i + 1 \in DOMAIN s /\ r[i] = s[i + 1]
  BY <1>1, <1>6, <1>7, <1>8
<1>10. ASSUME NEW j \in DOMAIN s
       PROVE  /\ j \in Nat
              /\ j < n => j \in DOMAIN r /\ r[j] = s[j]
              /\ j > n => j - 1 \in DOMAIN r /\ r[j - 1] = s[j]
  <2>1. j \in Nat /\ (j < n => j \in 1..(k - 1)) /\ (j > n => j - 1 \in 1..(k - 1) /\ j - 1 >= n)
    BY <1>1
  <2>2. j < n => r[j] = s[j]
    BY <1>7, <2>1
  <2>3. j > n => r[j - 1] = s[(j - 1) + 1] /\ (j - 1) + 1 = j
    BY <1>8, <2>1
  <2> QED BY <1>6, <2>1, <2>2, <2>3
<1>11. r \in Seq(T) /\ Len(r) = k - 1 /\ n \in Nat /\ s[n] \in T
  BY <1>1, <1>5, <1>6
<1> QED BY <1>9, <1>10, <1>11 DEF r, k

=============================================================================
