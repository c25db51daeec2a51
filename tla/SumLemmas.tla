------------------------------ MODULE SumLemmas ------------------------------
(***************************************************************************)
(* What the proofs about quotas and rates need of SumFunctionOnSet: its    *)
(* equation, that any element may be taken out first, and what follows.    *)
(*                                                                         *)
(* The sum is a fold, that is, a recursive function on the subsets of a    *)
(* set.  That such a function exists is shown size by size (SumExists);    *)
(* what it computes, by taking a smallest counterexample (BySize).         *)
(***************************************************************************)
EXTENDS Integers, FiniteSets, Functions, FiniteSetTheorems, WellFoundedInduction, TLAPS

\* A set of numbers that is not empty has a least one.
LEMMA LeastNumber ==
    ASSUME NEW T, T \subseteq Nat, T # {}
    PROVE  \E x \in T : \A y \in T : x <= y
<1>1. PICK x \in T : \A y \in T : ~(<<y, x>> \in OpToRel(<, Nat))
  BY NatLessThanWellFounded, WFMin
<1>2. \A y \in T : ~(y < x)
  BY <1>1 DEF OpToRel
<1>3. QED
  BY <1>2

\* A set with zero and the successors of its members up to N - 1 has all the
\* numbers up to N.
LEMMA CountUp ==
    ASSUME NEW N \in Nat, NEW T, 0 \in T, \A n \in 0..(N - 1) : n \in T => n + 1 \in T
    PROVE  \A n \in 0..N : n \in T
<1> SUFFICES ASSUME (0..N) \ T # {} PROVE FALSE
  OBVIOUS
<1>1. PICK x \in (0..N) \ T : \A y \in (0..N) \ T : x <= y
  <2>1. (0..N) \ T \subseteq Nat
    OBVIOUS
  <2>2. QED
    BY <2>1, LeastNumber
<1>2. x - 1 \in 0..(N - 1) /\ ~(x <= x - 1)
  BY <1>1
<1>3. x - 1 \in T
  BY <1>1, <1>2
<1>4. (x - 1) + 1 \in T
  BY <1>2, <1>3
<1>5. QED
  BY <1>1, <1>4

\* Induction over the subsets of a finite set: P holds the empty set, and a set
\* when it holds what is left of it without any one of its elements.
LEMMA BySize ==
    ASSUME NEW S, IsFiniteSet(S), NEW P, {} \in P,
           \A T \in SUBSET S : T # {} /\ (\A x \in T : T \ {x} \in P) => T \in P
    PROVE  \A T \in SUBSET S : T \in P
<1> SUFFICES ASSUME NEW U \in SUBSET S, U \notin P PROVE FALSE
  OBVIOUS
<1> DEFINE Bad == {T \in SUBSET S : T \notin P}
           Sizes == {n \in Nat : \E T \in Bad : Cardinality(T) = n}
<1>1. \A T \in SUBSET S : IsFiniteSet(T) /\ Cardinality(T) \in Nat
  BY FS_Subset, FS_CardinalityType
<1>2. Cardinality(U) \in Sizes
  BY <1>1
<1>3. Sizes \subseteq Nat /\ Sizes # {}
  BY <1>2
<1>4. PICK n \in Sizes : \A m \in Sizes : n <= m
  <2> HIDE DEF Sizes
  <2>1. QED
    BY <1>3, LeastNumber
<1>5. PICK T \in Bad : Cardinality(T) = n
  BY <1>4
<1>6. ASSUME NEW x \in T PROVE T \ {x} \in P
  <2>1. Cardinality(T \ {x}) = Cardinality(T) - 1 /\ T \ {x} \in SUBSET S
    BY <1>1, <1>5, FS_RemoveElement
  <2>2. n \in Nat /\ Cardinality(T \ {x}) \in Nat
    BY <1>1, <1>4, <2>1
  <2>3. SUFFICES ASSUME T \ {x} \notin P PROVE FALSE
    OBVIOUS
  <2>4. Cardinality(T \ {x}) \in Sizes
    BY <2>1, <2>2, <2>3
  <2>5. n <= Cardinality(T \ {x})
    BY <1>4, <2>4
  <2>6. QED
    BY <1>5, <2>1, <2>2, <2>5
<1>7. QED
  BY <1>5, <1>6

-----------------------------------------------------------------------------
\* The recursive function of a sum

Chosen(s) == CHOOSE x \in s : TRUE

\* What the fold puts at s, given the function g for the smaller sets.
Layer(f, g, s) == IF s = {} THEN 0 ELSE f[Chosen(s)] + g[s \ {Chosen(s)}]

\* The recursive function of the fold over S.
IsFold(g, f, S) == g = [s \in SUBSET S |-> Layer(f, g, s)]
Summing(f, S) == CHOOSE g : IsFold(g, f, S)

\* The sum is that function's value at the whole set.
LEMMA SumIsFold ==
    ASSUME NEW f, NEW S
    PROVE  SumFunctionOnSet(f, S) = Summing(f, S)[S]
  BY DEF SumFunctionOnSet, FoldFunctionOnSet, MapThenFoldSet, Summing, IsFold, Layer, Chosen

\* A function that adds up the values of numbers over every subset exists.
LEMMA SumExists ==
    ASSUME NEW S, IsFiniteSet(S), NEW f, \A x \in S : f[x] \in Nat
    PROVE  \E g : IsFold(g, f, S)
<1> DEFINE Upto(n) == {s \in SUBSET S : Cardinality(s) <= n}
           Good(g, n) == g \in [Upto(n) -> Nat] /\ \A s \in Upto(n) : g[s] = Layer(f, g, s)
           T == {n \in Nat : \E g : Good(g, n)}
           N == Cardinality(S)
<1>1. \A s \in SUBSET S : IsFiniteSet(s) /\ Cardinality(s) \in Nat /\ Cardinality(s) <= N
  BY FS_Subset, FS_CardinalityType
<1>2. N \in Nat
  BY FS_CardinalityType
<1>3. \A s \in SUBSET S : s # {} => Chosen(s) \in s /\ f[Chosen(s)] \in Nat
  BY DEF Chosen
<1>4. 0 \in T
  <2> DEFINE g == [s \in Upto(0) |-> 0]
  <2>1. \A s \in Upto(0) : s = {}
    <3>1. SUFFICES ASSUME NEW s \in Upto(0) PROVE s = {}
      OBVIOUS
    <3>2. Cardinality(s) = 0 /\ IsFiniteSet(s)
      BY <1>1
    <3>3. QED
      BY <3>2, FS_EmptySet
  <2>2. \A s \in Upto(0) : g[s] = Layer(f, g, s)
    BY <2>1 DEF Layer
  <2>3. g \in [Upto(0) -> Nat]
    OBVIOUS
  <2>4. Good(g, 0)
    BY <2>2, <2>3
  <2> HIDE DEF Good
  <2>5. QED
    BY <2>4
<1>5. ASSUME NEW n \in 0..(N - 1), n \in T PROVE n + 1 \in T
  <2> n \in Nat
    BY <1>2
  <2>1. PICK g : Good(g, n)
    BY <1>5
  <2> DEFINE h == [s \in Upto(n + 1) |-> Layer(f, g, s)]
  <2>2. ASSUME NEW s \in Upto(n + 1), s # {}
        PROVE  s \ {Chosen(s)} \in Upto(n)
    <3>1. Cardinality(s \ {Chosen(s)}) = Cardinality(s) - 1
      BY <1>1, <1>3, <2>2, FS_RemoveElement
    <3>2. Cardinality(s) \in Nat /\ Cardinality(s) <= n + 1
      BY <1>1
    <3>3. QED
      BY <3>1, <3>2
  <2>3. ASSUME NEW s \in Upto(n + 1) PROVE Layer(f, g, s) \in Nat
    <3>1. CASE s = {}
      BY <3>1 DEF Layer
    <3>2. CASE s # {}
      <4>1. g[s \ {Chosen(s)}] \in Nat /\ f[Chosen(s)] \in Nat
        BY <1>3, <2>1, <2>2, <3>2
      <4>2. QED
        BY <3>2, <4>1 DEF Layer
    <3>3. QED
      BY <3>1, <3>2
  <2>4. h \in [Upto(n + 1) -> Nat]
    BY <2>3
  <2>5. ASSUME NEW s \in Upto(n) PROVE h[s] = g[s]
    <3>1. s \in Upto(n + 1)
      BY <1>1
    <3>2. QED
      BY <2>1, <3>1
  <2>6. ASSUME NEW s \in Upto(n + 1) PROVE h[s] = Layer(f, h, s)
    <3>1. s # {} => h[s \ {Chosen(s)}] = g[s \ {Chosen(s)}]
      BY <2>2, <2>5
    <3> HIDE DEF Upto
    <3>2. h[s] = Layer(f, g, s)
      OBVIOUS
    <3> HIDE DEF h
    <3>3. QED
      BY <3>1, <3>2 DEF Layer
  <2>7. Good(h, n + 1)
    BY <2>4, <2>6
  <2> HIDE DEF Good
  <2>8. QED
    BY <2>7
<1>6. N \in T
  <2> HIDE DEF T
  <2>1. \A n \in 0..N : n \in T
    BY <1>2, <1>4, <1>5, CountUp
  <2>2. QED
    BY <1>2, <2>1
<1>7. PICK g : Good(g, N)
  BY <1>6
<1>8. Upto(N) = SUBSET S
  BY <1>1
<1>9. g = [s \in SUBSET S |-> g[s]] /\ \A s \in SUBSET S : g[s] = Layer(f, g, s)
  BY <1>7, <1>8
<1>10. g = [s \in SUBSET S |-> Layer(f, g, s)]
  BY <1>9
<1>11. QED
  BY <1>10 DEF IsFold

\* The function of the fold therefore satisfies its equation.
LEMMA SummingDef ==
    ASSUME NEW S, IsFiniteSet(S), NEW f, \A x \in S : f[x] \in Nat
    PROVE  Summing(f, S) = [s \in SUBSET S |-> Layer(f, Summing(f, S), s)]
<1>1. \E g : IsFold(g, f, S)
  BY SumExists
<1>2. IsFold(Summing(f, S), f, S)
  BY <1>1, Zenon DEF Summing
<1>3. QED
  BY <1>2 DEF IsFold

\* Its values at the empty set and at any other.
LEMMA SummingStep ==
    ASSUME NEW S, IsFiniteSet(S), NEW f, \A x \in S : f[x] \in Nat,
           NEW T \in SUBSET S
    PROVE  /\ T = {} => Summing(f, S)[T] = 0
           /\ T # {} => /\ Chosen(T) \in T
                        /\ Summing(f, S)[T] = f[Chosen(T)] + Summing(f, S)[T \ {Chosen(T)}]
<1>1. Summing(f, S) = [s \in SUBSET S |-> Layer(f, Summing(f, S), s)]
  BY SummingDef
<1> DEFINE g == Summing(f, S)
<1> HIDE DEF g
<1>2. g = [s \in SUBSET S |-> Layer(f, g, s)]
  BY <1>1 DEF g
<1>3. g[T] = Layer(f, g, T)
  BY <1>2
<1>4. T # {} => Chosen(T) \in T
  BY DEF Chosen
<1>5. /\ T = {} => g[T] = 0
      /\ T # {} => g[T] = f[Chosen(T)] + g[T \ {Chosen(T)}]
  BY <1>3 DEF Layer
<1>6. QED
  BY <1>4, <1>5 DEF g

\* The sum over a subset does not depend on the set it is taken in.
LEMMA SummingSubset ==
    ASSUME NEW S, IsFiniteSet(S), NEW f, \A x \in S : f[x] \in Nat,
           NEW T \in SUBSET S
    PROVE  SumFunctionOnSet(f, T) = Summing(f, S)[T]
<1> DEFINE P == {U \in SUBSET T : Summing(f, T)[U] = Summing(f, S)[U]}
<1>1. IsFiniteSet(T) /\ \A x \in T : f[x] \in Nat
  BY FS_Subset
<1>2. {} \in P
  BY <1>1, SummingStep
<1>3. ASSUME NEW U \in SUBSET T, U # {}, \A x \in U : U \ {x} \in P
      PROVE  U \in P
  <2>1. U \in SUBSET S
    OBVIOUS
  <2> HIDE DEF P
  <2>2. Chosen(U) \in U /\ Summing(f, T)[U] = f[Chosen(U)] + Summing(f, T)[U \ {Chosen(U)}]
    BY <1>1, <1>3, SummingStep, ZenonT(40)
  <2>3. Summing(f, S)[U] = f[Chosen(U)] + Summing(f, S)[U \ {Chosen(U)}]
    BY <1>3, <2>1, SummingStep, ZenonT(40)
  <2>4. QED
    BY <1>3, <2>2, <2>3 DEF P
<1>4. T \in P
  <2> HIDE DEF P
  <2>1. \A U \in SUBSET T : U \in P
    BY <1>1, <1>2, <1>3, BySize
  <2>2. QED
    BY <2>1
<1>5. QED
  BY <1>4, SumIsFold

-----------------------------------------------------------------------------
\* Sums of numbers over finite sets

\* Nothing adds up to zero.
LEMMA SumEmpty ==
    ASSUME NEW f
    PROVE  SumFunctionOnSet(f, {}) = 0
<1>1. IsFiniteSet({}) /\ \A x \in {} : f[x] \in Nat
  BY FS_EmptySet
<1>2. SumFunctionOnSet(f, {}) = Summing(f, {})[{}]
  BY SumIsFold
<1>3. Summing(f, {})[{}] = 0
  BY <1>1, {} \in SUBSET {}, SummingStep, Zenon
<1>4. QED
  BY <1>2, <1>3

\* The equation of the fold: the chosen element is added to the rest.
LEMMA SumChosen ==
    ASSUME NEW S, IsFiniteSet(S), NEW f, \A x \in S : f[x] \in Nat, S # {}
    PROVE  /\ Chosen(S) \in S
           /\ SumFunctionOnSet(f, S) = f[Chosen(S)] + SumFunctionOnSet(f, S \ {Chosen(S)})
<1>1. /\ Chosen(S) \in S
      /\ Summing(f, S)[S] = f[Chosen(S)] + Summing(f, S)[S \ {Chosen(S)}]
  BY SummingStep, ZenonT(40)
<1>2. SumFunctionOnSet(f, S) = Summing(f, S)[S]
  BY SumIsFold
<1>3. SumFunctionOnSet(f, S \ {Chosen(S)}) = Summing(f, S)[S \ {Chosen(S)}]
  BY SummingSubset
<1>4. QED
  BY <1>1, <1>2, <1>3

\* A sum of natural numbers is one.
LEMMA SumNat ==
    ASSUME NEW S, IsFiniteSet(S), NEW f, \A x \in S : f[x] \in Nat
    PROVE  SumFunctionOnSet(f, S) \in Nat
<1> DEFINE P == {T \in SUBSET S : SumFunctionOnSet(f, T) \in Nat}
<1>1. {} \in P
  BY SumEmpty
<1>2. ASSUME NEW T \in SUBSET S, T # {}, \A x \in T : T \ {x} \in P
      PROVE  T \in P
  <2>1. IsFiniteSet(T) /\ \A x \in T : f[x] \in Nat
    BY FS_Subset
  <2>2. Chosen(T) \in T /\ SumFunctionOnSet(f, T) = f[Chosen(T)] + SumFunctionOnSet(f, T \ {Chosen(T)})
    BY <1>2, <2>1, SumChosen
  <2>3. f[Chosen(T)] \in Nat /\ SumFunctionOnSet(f, T \ {Chosen(T)}) \in Nat
    BY <1>2, <2>1, <2>2
  <2>4. QED
    BY <2>2, <2>3
<1>3. S \in P
  <2> HIDE DEF P
  <2>1. \A T \in SUBSET S : T \in P
    BY <1>1, <1>2, BySize
  <2>2. QED
    BY <2>1
<1>4. QED
  BY <1>3

\* Any element may be taken out first: the order of the fold does not matter.
LEMMA SumRemove ==
    ASSUME NEW S, IsFiniteSet(S), NEW f, \A x \in S : f[x] \in Nat, NEW x \in S
    PROVE  SumFunctionOnSet(f, S) = f[x] + SumFunctionOnSet(f, S \ {x})
<1> DEFINE Sum(T) == SumFunctionOnSet(f, T)
           P == {T \in SUBSET S : \A y \in T : Sum(T) = f[y] + Sum(T \ {y})}
<1>1. \A T \in SUBSET S : Sum(T) \in Nat
  BY FS_Subset, SumNat
<1>2. {} \in P
  OBVIOUS
<1>3. ASSUME NEW T \in SUBSET S, T # {}, \A y \in T : T \ {y} \in P
      PROVE  T \in P
  <2> SUFFICES ASSUME NEW y \in T PROVE Sum(T) = f[y] + Sum(T \ {y})
    OBVIOUS
  <2>1. IsFiniteSet(T) /\ \A z \in T : f[z] \in Nat
    BY FS_Subset
  <2> DEFINE c == Chosen(T)
  <2>2. c \in T /\ Sum(T) = f[c] + Sum(T \ {c})
    BY <1>3, <2>1, SumChosen
  <2> HIDE DEF c
  <2>3. CASE y = c
    BY <2>2, <2>3
  <2>4. CASE y # c
    <3>1. Sum(T \ {c}) = f[y] + Sum((T \ {c}) \ {y})
      BY <1>3, <2>2, <2>4
    <3>2. Sum(T \ {y}) = f[c] + Sum((T \ {y}) \ {c})
      BY <1>3, <2>2, <2>4
    <3>3. (T \ {c}) \ {y} = (T \ {y}) \ {c}
      OBVIOUS
    <3>4. /\ Sum((T \ {y}) \ {c}) \in Nat /\ Sum(T \ {c}) \in Nat /\ Sum(T \ {y}) \in Nat
          /\ f[c] \in Nat /\ f[y] \in Nat
      BY <1>1, <2>1, <2>2
    <3> HIDE DEF Sum
    <3>5. \A a, b, r \in Nat : a + (b + r) = b + (a + r)
      OBVIOUS
    <3>6. Sum(T) = f[c] + (f[y] + Sum((T \ {y}) \ {c}))
      BY <2>2, <3>1, <3>3
    <3>7. Sum(T) = f[y] + (f[c] + Sum((T \ {y}) \ {c}))
      BY <3>4, <3>5, <3>6
    <3>8. QED
      BY <3>2, <3>7
  <2>5. QED
    BY <2>3, <2>4
<1>4. S \in P
  <2> HIDE DEF P
  <2>1. \A T \in SUBSET S : T \in P
    BY <1>2, <1>3, BySize
  <2>2. QED
    BY <2>1
<1>5. QED
  BY <1>4

\* A new element adds its value.
LEMMA SumAdd ==
    ASSUME NEW S, IsFiniteSet(S), NEW f, \A x \in S : f[x] \in Nat,
           NEW x, x \notin S, f[x] \in Nat
    PROVE  SumFunctionOnSet(f, S \cup {x}) = f[x] + SumFunctionOnSet(f, S)
<1>1. IsFiniteSet(S \cup {x}) /\ \A y \in S \cup {x} : f[y] \in Nat
  BY FS_AddElement
<1>2. SumFunctionOnSet(f, S \cup {x}) = f[x] + SumFunctionOnSet(f, (S \cup {x}) \ {x})
  BY <1>1, SumRemove
<1>3. (S \cup {x}) \ {x} = S
  OBVIOUS
<1>4. QED
  BY <1>2, <1>3

\* Only the values in the set matter.
LEMMA SumSame ==
    ASSUME NEW S, IsFiniteSet(S), NEW f, NEW g, \A x \in S : f[x] \in Nat /\ g[x] = f[x]
    PROVE  SumFunctionOnSet(g, S) = SumFunctionOnSet(f, S)
<1> DEFINE P == {T \in SUBSET S : SumFunctionOnSet(g, T) = SumFunctionOnSet(f, T)}
<1>1. {} \in P
  BY SumEmpty
<1>2. ASSUME NEW T \in SUBSET S, T # {}, \A x \in T : T \ {x} \in P
      PROVE  T \in P
  <2>1. /\ IsFiniteSet(T)
        /\ \A x \in T : f[x] \in Nat
        /\ \A x \in T : g[x] \in Nat
        /\ \A x \in T : g[x] = f[x]
    BY FS_Subset
  <2>2. Chosen(T) \in T
    BY <1>2 DEF Chosen
  <2>3. SumFunctionOnSet(f, T) = f[Chosen(T)] + SumFunctionOnSet(f, T \ {Chosen(T)})
    BY <1>2, <2>1, SumChosen
  <2>4. SumFunctionOnSet(g, T) = g[Chosen(T)] + SumFunctionOnSet(g, T \ {Chosen(T)})
    BY <1>2, <2>1, SumChosen
  <2>5. QED
    BY <1>2, <2>1, <2>2, <2>3, <2>4
<1>3. S \in P
  <2> HIDE DEF P
  <2>1. \A T \in SUBSET S : T \in P
    BY <1>1, <1>2, BySize
  <2>2. QED
    BY <2>1
<1>4. QED
  BY <1>3

\* A change of one value changes the sum by the difference.
LEMMA SumChange ==
    ASSUME NEW S, IsFiniteSet(S), NEW f, NEW g, NEW x \in S,
           \A y \in S : f[y] \in Nat /\ g[y] \in Nat,
           \A y \in S \ {x} : g[y] = f[y]
    PROVE  SumFunctionOnSet(g, S) + f[x] = SumFunctionOnSet(f, S) + g[x]
<1>1. IsFiniteSet(S \ {x})
  BY FS_RemoveElement
<1>2. SumFunctionOnSet(f, S) = f[x] + SumFunctionOnSet(f, S \ {x})
  BY SumRemove
<1>3. SumFunctionOnSet(g, S) = g[x] + SumFunctionOnSet(g, S \ {x})
  BY SumRemove
<1>4. SumFunctionOnSet(g, S \ {x}) = SumFunctionOnSet(f, S \ {x})
  BY <1>1, SumSame
<1>5. SumFunctionOnSet(f, S \ {x}) \in Nat
  BY <1>1, SumNat
<1>6. f[x] \in Nat /\ g[x] \in Nat
  OBVIOUS
<1>7. QED
  BY <1>2, <1>3, <1>4, <1>5, <1>6

\* A set is summed in two parts.
LEMMA SumUnion ==
    ASSUME NEW S, IsFiniteSet(S), NEW f, \A x \in S : f[x] \in Nat,
           NEW R \in SUBSET S
    PROVE  SumFunctionOnSet(f, S) = SumFunctionOnSet(f, R) + SumFunctionOnSet(f, S \ R)
<1> DEFINE Sum(T) == SumFunctionOnSet(f, T)
           Q == S \ R
           P == {T \in SUBSET Q : Sum(R \cup T) = Sum(R) + Sum(T)}
<1>1. \A T \in SUBSET S : IsFiniteSet(T) /\ Sum(T) \in Nat
  BY FS_Subset, SumNat
<1>2. {} \in P
  <2>1. R \cup {} = R /\ Sum({}) = 0 /\ Sum(R) \in Nat
    BY <1>1, SumEmpty
  <2> HIDE DEF Sum
  <2>2. QED
    BY <2>1
<1>3. ASSUME NEW T \in SUBSET Q, T # {}, \A x \in T : T \ {x} \in P
      PROVE  T \in P
  <2>1. PICK x \in T : TRUE
    BY <1>3
  <2>2. T \in SUBSET S /\ R \cup T \in SUBSET S /\ T \ {x} \in SUBSET S
    OBVIOUS
  <2>3. Sum(T) = f[x] + Sum(T \ {x})
    BY <1>1, <2>2, SumRemove
  <2>4. Sum(R \cup T) = f[x] + Sum((R \cup T) \ {x})
    BY <1>1, <2>2, SumRemove
  <2>5. (R \cup T) \ {x} = R \cup (T \ {x})
    OBVIOUS
  <2>6. Sum(R \cup (T \ {x})) = Sum(R) + Sum(T \ {x})
    BY <1>3
  <2>7. f[x] \in Nat /\ Sum(R) \in Nat /\ Sum(T \ {x}) \in Nat
    BY <1>1, <2>2
  <2> HIDE DEF Sum
  <2>8. Sum(R \cup T) = Sum(R) + Sum(T)
    <3>1. Sum(R \cup T) = f[x] + (Sum(R) + Sum(T \ {x}))
      BY <2>4, <2>5, <2>6
    <3>2. \A a, b, r \in Nat : a + (b + r) = b + (a + r)
      OBVIOUS
    <3>3. Sum(R \cup T) = Sum(R) + (f[x] + Sum(T \ {x}))
      BY <2>7, <3>1, <3>2
    <3>4. QED
      BY <2>3, <3>3
  <2>9. QED
    BY <2>8
<1>4. Q \in P
  <2>1. IsFiniteSet(Q)
    BY <1>1
  <2> HIDE DEF P, Q
  <2>2. \A T \in SUBSET Q : T \in P
    BY <1>2, <1>3, <2>1, BySize
  <2>3. QED
    BY <2>2
<1>5. R \cup (S \ R) = S
  OBVIOUS
<1>6. QED
  BY <1>4, <1>5

\* A part of a set adds up to no more than all of it.
LEMMA SumMonotone ==
    ASSUME NEW S, IsFiniteSet(S), NEW f, \A x \in S : f[x] \in Nat,
           NEW R \in SUBSET S
    PROVE  SumFunctionOnSet(f, R) <= SumFunctionOnSet(f, S)
<1>1. SumFunctionOnSet(f, S) = SumFunctionOnSet(f, R) + SumFunctionOnSet(f, S \ R)
  BY SumUnion
<1>2. IsFiniteSet(R) /\ IsFiniteSet(S \ R)
  BY FS_Subset
<1>3. SumFunctionOnSet(f, R) \in Nat /\ SumFunctionOnSet(f, S \ R) \in Nat
  BY <1>2, SumNat
<1>4. QED
  BY <1>1, <1>3

\* Values up to m add up to no more than m for each element.
LEMMA SumBound ==
    ASSUME NEW S, IsFiniteSet(S), NEW m \in Nat, NEW f,
           \A x \in S : f[x] \in Nat /\ f[x] <= m
    PROVE  SumFunctionOnSet(f, S) <= Cardinality(S) * m
<1> DEFINE Sum(T) == SumFunctionOnSet(f, T)
           P == {T \in SUBSET S : Sum(T) <= Cardinality(T) * m}
<1>1. \A T \in SUBSET S : IsFiniteSet(T) /\ Sum(T) \in Nat /\ Cardinality(T) \in Nat
  BY FS_Subset, FS_CardinalityType, SumNat
<1>2. {} \in P
  BY SumEmpty, FS_EmptySet
<1>3. ASSUME NEW T \in SUBSET S, T # {}, \A x \in T : T \ {x} \in P
      PROVE  T \in P
  <2>1. PICK x \in T : TRUE
    BY <1>3
  <2>2. Sum(T) = f[x] + Sum(T \ {x})
    BY <1>1, SumRemove
  <2>3. Cardinality(T \ {x}) = Cardinality(T) - 1
    BY <1>1, FS_RemoveElement
  <2>4. Sum(T \ {x}) <= Cardinality(T \ {x}) * m
    BY <1>3
  <2>5. /\ Sum(T) \in Nat /\ Sum(T \ {x}) \in Nat /\ Cardinality(T) \in Nat
        /\ f[x] \in Nat /\ f[x] <= m
    BY <1>1
  <2> HIDE DEF Sum
  <2>6. \A n \in Nat : (n - 1) * m + m = n * m /\ (n - 1) * m \in Int
    OBVIOUS
  <2>7. Sum(T) <= (Cardinality(T) - 1) * m + m
    BY <2>2, <2>3, <2>4, <2>5, <2>6
  <2>8. Sum(T) <= Cardinality(T) * m
    BY <2>5, <2>6, <2>7
  <2>9. QED
    BY <2>8
<1>4. S \in P
  <2> HIDE DEF P
  <2>1. \A T \in SUBSET S : T \in P
    BY <1>2, <1>3, BySize
  <2>2. QED
    BY <2>1
<1>5. QED
  BY <1>4

\* Smaller values add up to no more.
LEMMA SumBelow ==
    ASSUME NEW S, IsFiniteSet(S), NEW f, NEW g,
           \A x \in S : f[x] \in Nat /\ g[x] \in Nat /\ f[x] <= g[x]
    PROVE  SumFunctionOnSet(f, S) <= SumFunctionOnSet(g, S)
<1> DEFINE Low(T) == SumFunctionOnSet(f, T)
           High(T) == SumFunctionOnSet(g, T)
           P == {T \in SUBSET S : Low(T) <= High(T)}
<1>1. \A T \in SUBSET S : IsFiniteSet(T) /\ Low(T) \in Nat /\ High(T) \in Nat
  BY FS_Subset, SumNat
<1>2. {} \in P
  BY SumEmpty
<1>3. ASSUME NEW T \in SUBSET S, T # {}, \A x \in T : T \ {x} \in P
      PROVE  T \in P
  <2>1. PICK x \in T : TRUE
    BY <1>3
  <2>2. Low(T) = f[x] + Low(T \ {x}) /\ High(T) = g[x] + High(T \ {x})
    BY <1>1, SumRemove
  <2>3. Low(T \ {x}) <= High(T \ {x})
    BY <1>3
  <2>4. /\ f[x] \in Nat /\ g[x] \in Nat /\ f[x] <= g[x]
        /\ Low(T \ {x}) \in Nat /\ High(T \ {x}) \in Nat
    BY <1>1
  <2> HIDE DEF Low, High
  <2>5. Low(T) <= High(T)
    BY <2>2, <2>3, <2>4
  <2>6. QED
    BY <2>5
<1>4. S \in P
  <2> HIDE DEF P
  <2>1. \A T \in SUBSET S : T \in P
    BY <1>2, <1>3, BySize
  <2>2. QED
    BY <2>1
<1>5. QED
  BY <1>4
=============================================================================
