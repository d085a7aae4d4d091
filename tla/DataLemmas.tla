------------------------------- MODULE DataLemmas -------------------------------
(***************************************************************************)
(* What the proofs about figures need of numbers and finite sets:          *)
(* induction, stated with sets, and the sum of a function over its domain. *)
(***************************************************************************)
EXTENDS Integers, Functions, FiniteSetTheorems, NaturalsInduction, WellFoundedInduction, TLAPS

-------------------------------------------------------------------------------
(* Induction.                                                              *)

\* A non-empty set of natural numbers has a least one.
LEMMA LeastNumber ==
  ASSUME NEW T, T \subseteq Nat, T # {}
  PROVE  \E n \in T : \A m \in T : n <= m
  <1>1. PICK n \in T : \A m \in T : ~(<<m, n>> \in OpToRel(<, Nat))
    BY NatLessThanWellFounded, WFMin
  <1>2. \A m \in T : ~(m < n)
    BY <1>1 DEF OpToRel
  <1> QED BY <1>2

\* What holds of 0 and of the next number holds of all.
LEMMA NumberInduction ==
  ASSUME NEW S, 0 \in S, \A n \in Nat : n \in S => n + 1 \in S
  PROVE  \A n \in Nat : n \in S
  <1> SUFFICES ASSUME Nat \ S # {} PROVE FALSE
    OBVIOUS
  <1>1. PICK n \in Nat \ S : \A m \in Nat \ S : n <= m
    BY LeastNumber
  <1>2. n # 0
    OBVIOUS
  <1>3. n - 1 \in Nat /\ n - 1 \in S
    BY <1>1, <1>2
  <1> QED BY <1>3

\* What holds of a set when it holds of those with one element less holds of
\* every part of a finite set.
LEMMA SubsetInduction ==
  ASSUME NEW D, IsFiniteSet(D), NEW S,
         \A s \in SUBSET D : (\A x \in s : s \ {x} \in S) => s \in S
  PROVE  \A s \in SUBSET D : s \in S
  <1> DEFINE T == {Cardinality(s) : s \in (SUBSET D) \ S}
  <1> SUFFICES ASSUME NEW u \in SUBSET D, u \notin S PROVE FALSE
    OBVIOUS
  <1>1. \A s \in SUBSET D : IsFiniteSet(s) /\ Cardinality(s) \in Nat
    BY FS_Subset, FS_CardinalityType
  <1>2. T \subseteq Nat /\ T # {}
    BY <1>1
  <1>3. PICK n \in T : \A m \in T : n <= m
    BY <1>2, LeastNumber
  <1>4. PICK s \in (SUBSET D) \ S : n = Cardinality(s)
    BY <1>3
  <1>5. ASSUME NEW x \in s PROVE s \ {x} \in S
    <2>1. Cardinality(s \ {x}) = n - 1 /\ n \in Nat
      BY <1>1, <1>4, FS_RemoveElement
    <2>2. s \ {x} \in SUBSET D
      BY <1>4
    <2>3. ASSUME s \ {x} \notin S PROVE FALSE
      <3>1. n - 1 \in T
        BY <2>1, <2>2, <2>3
      <3>2. n <= n - 1
        BY <1>3, <3>1
      <3> QED BY <2>1, <3>2
    <2> QED BY <2>3
  <1> QED BY <1>4, <1>5

-------------------------------------------------------------------------------
(* Sums: SumFunction takes the elements in an order of its own; what it    *)
(* gives does not depend on it.                                            *)

Chosen(s) == CHOOSE x \in s : TRUE

\* h[s] is the sum of f over s, for every part s of D.
AddsInOrder(h, D, f) ==
  /\ h \in [SUBSET D -> Int] /\ h[{}] = 0
  /\ \A s \in SUBSET D : s # {} => h[s] = f[Chosen(s)] + h[s \ {Chosen(s)}]
Adds(h, D, f) ==
  /\ h \in [SUBSET D -> Int] /\ h[{}] = 0
  /\ \A s \in SUBSET D : \A x \in s : h[s] = f[x] + h[s \ {x}]

LEMMA ChosenIsIn == ASSUME NEW s, s # {} PROVE Chosen(s) \in s
  BY DEF Chosen

\* A sum that takes the elements in the order of Chosen exists.
LEMMA SumExists ==
  ASSUME NEW D, IsFiniteSet(D), NEW f \in [D -> Int]
  PROVE  \E h : AddsInOrder(h, D, f)
  <1> DEFINE Sized(n) == {s \in SUBSET D : Cardinality(s) <= n}
             Is(g, n) == /\ g \in [Sized(n) -> Int] /\ g[{}] = 0
                         /\ \A s \in Sized(n) : s # {} => g[s] = f[Chosen(s)] + g[s \ {Chosen(s)}]
             S == {n \in Nat : \E g : Is(g, n)}
  <1>1. \A s \in SUBSET D : IsFiniteSet(s) /\ Cardinality(s) \in Nat
    BY FS_Subset, FS_CardinalityType
  <1>2. {} \in SUBSET D /\ Cardinality({}) = 0
    BY FS_EmptySet
  <1>3. ASSUME NEW s \in SUBSET D, s # {}
        PROVE  /\ Chosen(s) \in D /\ s \ {Chosen(s)} \in SUBSET D
               /\ Cardinality(s \ {Chosen(s)}) = Cardinality(s) - 1
    BY <1>1, <1>3, ChosenIsIn, FS_RemoveElement
  <1>4. 0 \in S
    <2> DEFINE g == [s \in Sized(0) |-> 0]
    <2>1. \A s \in Sized(0) : s = {}
      BY <1>1, FS_EmptySet
    <2>2. {} \in Sized(0)
      BY <1>2
    <2> HIDE DEF Sized
    <2>3. Is(g, 0)
      BY <2>1, <2>2
    <2> QED BY <2>3
  <1>5. ASSUME NEW n \in Nat, n \in S PROVE n + 1 \in S
    <2>1. PICK g : Is(g, n)
      BY <1>5
    <2> DEFINE last(s) == f[Chosen(s)] + g[s \ {Chosen(s)}]
               h == [s \in Sized(n + 1) |-> IF Cardinality(s) = n + 1 THEN last(s) ELSE g[s]]
    <2>2. ASSUME NEW s \in Sized(n + 1), s # {}
          PROVE  s \ {Chosen(s)} \in Sized(n) /\ Cardinality(s \ {Chosen(s)}) # n + 1
      BY <1>1, <1>3, <2>2
    <2>3. ASSUME NEW s \in Sized(n + 1), Cardinality(s) # n + 1 PROVE s \in Sized(n)
      BY <1>1, <2>3
    <2>4. \A s \in Sized(n) : s \in Sized(n + 1) /\ Cardinality(s) # n + 1
      BY <1>1
    <2>5. {} \in Sized(n)
      BY <1>2
    <2>6. ASSUME NEW s \in Sized(n + 1), Cardinality(s) = n + 1
          PROVE  s # {} /\ Chosen(s) \in D
      <3>1. s \in SUBSET D /\ s # {}
        BY <1>2, <2>6
      <3> QED BY <1>3, <3>1
    <2> HIDE DEF Sized
    <2>7. ASSUME NEW s \in Sized(n + 1)
          PROVE  h[s] = IF Cardinality(s) = n + 1 THEN last(s) ELSE g[s]
      OBVIOUS
    <2>8. h \in [Sized(n + 1) -> Int]
      <3>1. \A s \in Sized(n + 1) : Cardinality(s) = n + 1 => last(s) \in Int
        BY <2>1, <2>2, <2>6
      <3>2. \A s \in Sized(n + 1) : Cardinality(s) # n + 1 => g[s] \in Int
        BY <2>1, <2>3
      <3> HIDE DEF last
      <3> QED BY <3>1, <3>2
    <2> HIDE DEF h
    <2>9. \A s \in Sized(n) : h[s] = g[s]
      BY <2>4, <2>7
    <2>10. ASSUME NEW s \in Sized(n + 1), s # {}
           PROVE  h[s] = f[Chosen(s)] + h[s \ {Chosen(s)}]
      <3>1. h[s \ {Chosen(s)}] = g[s \ {Chosen(s)}]
        BY <2>2, <2>9, <2>10
      <3>2. CASE Cardinality(s) = n + 1
        BY <2>7, <3>1, <3>2
      <3>3. CASE Cardinality(s) # n + 1
        BY <2>1, <2>3, <2>7, <2>10, <3>1, <3>3
      <3> QED BY <3>2, <3>3
    <2>11. Is(h, n + 1)
      BY <2>1, <2>5, <2>8, <2>9, <2>10
    <2>12. \E e : Is(e, n + 1)
      BY <2>11
    <2> HIDE DEF Is
    <2> QED BY <2>12
  <1>6. Cardinality(D) \in S
    <2>1. \A n \in Nat : n \in S
      <3> HIDE DEF S
      <3> QED BY <1>4, <1>5, NumberInduction
    <2> QED BY <2>1, FS_CardinalityType
  <1>7. Sized(Cardinality(D)) = SUBSET D
    BY FS_Subset
  <1>8. PICK h : Is(h, Cardinality(D))
    BY <1>6
  <1> HIDE DEF Sized
  <1> QED BY <1>7, <1>8 DEF AddsInOrder

\* The order of Chosen is no matter.
LEMMA SumOrder ==
  ASSUME NEW D, IsFiniteSet(D), NEW f \in [D -> Int], NEW h, AddsInOrder(h, D, f)
  PROVE  Adds(h, D, f)
  <1> DEFINE S == {s \in SUBSET D : \A x \in s : h[s] = f[x] + h[s \ {x}]}
  <1>1. h \in [SUBSET D -> Int] /\ h[{}] = 0
    BY DEF AddsInOrder
  <1>2. ASSUME NEW s \in SUBSET D, \A x \in s : s \ {x} \in S PROVE s \in S
    <2>1. SUFFICES ASSUME NEW x \in s PROVE h[s] = f[x] + h[s \ {x}]
      OBVIOUS
    <2> DEFINE y == Chosen(s)
    <2>2. y \in s
      BY ChosenIsIn
    <2>3. h[s] = f[y] + h[s \ {y}]
      BY DEF AddsInOrder
    <2> HIDE DEF y
    <2>4. CASE x = y
      BY <2>3, <2>4
    <2>5. CASE x # y
      <3>1. h[s \ {y}] = f[x] + h[(s \ {y}) \ {x}]
        <4>1. x \in s \ {y} /\ s \ {y} \in S
          BY <1>2, <2>2, <2>5
        <4> QED BY <4>1
      <3>2. h[s \ {x}] = f[y] + h[(s \ {x}) \ {y}]
        <4>1. y \in s \ {x} /\ s \ {x} \in S
          BY <1>2, <2>2, <2>5
        <4> QED BY <4>1
      <3>3. (s \ {y}) \ {x} = (s \ {x}) \ {y}
        OBVIOUS
      <3>4. (s \ {y}) \ {x} \in SUBSET D /\ x \in D /\ y \in D
        BY <2>2
      <3>5. h[(s \ {y}) \ {x}] \in Int /\ f[x] \in Int /\ f[y] \in Int
        BY <1>1, <3>4
      <3>6. h[(s \ {y}) \ {x}] = h[(s \ {x}) \ {y}]
        BY <3>3
      <3>7. \A a, b, c \in Int : a + (b + c) = b + (a + c)
        OBVIOUS
      <3>8. f[y] + (f[x] + h[(s \ {y}) \ {x}]) = f[x] + (f[y] + h[(s \ {y}) \ {x}])
        BY <3>5, <3>7
      <3>9. h[s] = f[y] + (f[x] + h[(s \ {y}) \ {x}])
        BY <2>3, <3>1
      <3> QED BY <3>2, <3>6, <3>8, <3>9
    <2> QED BY <2>4, <2>5
  <1>3. \A s \in SUBSET D : s \in S
    <2> HIDE DEF S
    <2> QED BY <1>2, SubsetInduction
  <1> QED BY <1>1, <1>3 DEF Adds

\* SumFunction is that sum.
LEMMA SumAdds ==
  ASSUME NEW D, IsFiniteSet(D), NEW f \in [D -> Int]
  PROVE  \E h : Adds(h, D, f) /\ SumFunction(f) = h[D]
  <1> DEFINE Body(g) == [s \in SUBSET D |-> IF s = {} THEN 0 ELSE f[Chosen(s)] + g[s \ {Chosen(s)}]]
             iter == CHOOSE g : g = Body(g)
  <1>1. PICK h : AddsInOrder(h, D, f)
    BY SumExists
  <1>2. h = Body(h)
    BY <1>1 DEF AddsInOrder
  <1>3. iter = Body(iter)
    <2> HIDE DEF Body
    <2> QED BY <1>2
  <1> DEFINE S == {s \in SUBSET D : iter[s] = h[s]}
  <1>4. ASSUME NEW s \in SUBSET D, \A x \in s : s \ {x} \in S PROVE s \in S
    <2> HIDE DEF iter
    <2>1. iter[s] = IF s = {} THEN 0 ELSE f[Chosen(s)] + iter[s \ {Chosen(s)}]
      BY <1>3
    <2>2. h[s] = IF s = {} THEN 0 ELSE f[Chosen(s)] + h[s \ {Chosen(s)}]
      BY <1>1 DEF AddsInOrder
    <2>3. CASE s = {}
      BY <2>1, <2>2, <2>3
    <2>4. CASE s # {}
      <3>1. iter[s \ {Chosen(s)}] = h[s \ {Chosen(s)}]
        BY <1>4, <2>4, ChosenIsIn
      <3> QED BY <2>1, <2>2, <2>4, <3>1
    <2> QED BY <2>3, <2>4
  <1>5. iter[D] = h[D]
    <2>1. \A s \in SUBSET D : s \in S
      <3> HIDE DEF S
      <3> QED BY <1>4, SubsetInduction
    <2> QED BY <2>1
  <1>6. DOMAIN f = D
    OBVIOUS
  <1>7. SumFunction(f) = iter[D]
    BY <1>6 DEF SumFunction, SumFunctionOnSet, FoldFunctionOnSet, MapThenFoldSet, Chosen
  <1> QED BY <1>1, <1>5, <1>7, SumOrder

-------------------------------------------------------------------------------
(* What a sum is.                                                          *)

\* The sums over the parts of D, all at once.
LEMMA SumParts ==
  ASSUME NEW D, IsFiniteSet(D), NEW f \in [D -> Int]
  PROVE  \E h : /\ Adds(h, D, f)
                /\ \A s \in SUBSET D : SumFunction([e \in s |-> f[e]]) = h[s]
  <1>1. PICK h : Adds(h, D, f)
    BY SumAdds
  <1>2. ASSUME NEW s \in SUBSET D PROVE SumFunction([e \in s |-> f[e]]) = h[s]
    <2> DEFINE g == [e \in s |-> f[e]]
    <2>1. IsFiniteSet(s) /\ g \in [s -> Int] /\ \A e \in s : g[e] = f[e]
      BY FS_Subset
    <2> HIDE DEF g
    <2>2. PICK k : Adds(k, s, g) /\ SumFunction(g) = k[s]
      BY <2>1, SumAdds
    <2> DEFINE S == {u \in SUBSET s : k[u] = h[u]}
    <2>3. ASSUME NEW u \in SUBSET s, \A x \in u : u \ {x} \in S PROVE u \in S
      <3>1. CASE u = {}
        BY <1>1, <2>2, <3>1 DEF Adds
      <3>2. CASE u # {}
        <4>1. PICK x \in u : TRUE
          BY <3>2
        <4>2. k[u] = g[x] + k[u \ {x}]
          BY <2>2, <4>1 DEF Adds
        <4>3. h[u] = f[x] + h[u \ {x}]
          BY <1>1, <4>1 DEF Adds
        <4>4. k[u \ {x}] = h[u \ {x}] /\ g[x] = f[x]
          BY <2>1, <2>3, <4>1
        <4> QED BY <4>2, <4>3, <4>4
      <3> QED BY <3>1, <3>2
    <2>4. \A u \in SUBSET s : u \in S
      <3> HIDE DEF S
      <3> QED BY <2>1, <2>3, SubsetInduction
    <2>5. k[s] = h[s]
      BY <2>4
    <2> QED BY <2>2, <2>5 DEF g
  <1> QED BY <1>1, <1>2

LEMMA SumIsInt ==
  ASSUME NEW D, IsFiniteSet(D), NEW f \in [D -> Int]
  PROVE  SumFunction(f) \in Int
  <1>1. PICK h : Adds(h, D, f) /\ SumFunction(f) = h[D]
    BY SumAdds
  <1> QED BY <1>1 DEF Adds

LEMMA SumOfNone ==
  ASSUME NEW f \in [{} -> Int]
  PROVE  SumFunction(f) = 0
  <1>1. PICK h : Adds(h, {}, f) /\ SumFunction(f) = h[{}]
    BY SumAdds, FS_EmptySet
  <1> QED BY <1>1 DEF Adds

\* One element apart.
LEMMA SumWithout ==
  ASSUME NEW D, IsFiniteSet(D), NEW f \in [D -> Int], NEW x \in D
  PROVE  SumFunction(f) = f[x] + SumFunction([e \in D \ {x} |-> f[e]])
  <1>1. PICK h : /\ Adds(h, D, f)
                 /\ \A s \in SUBSET D : SumFunction([e \in s |-> f[e]]) = h[s]
    BY SumParts
  <1>2. f = [e \in D |-> f[e]] /\ D \in SUBSET D /\ D \ {x} \in SUBSET D
    OBVIOUS
  <1>3. SumFunction(f) = h[D] /\ SumFunction([e \in D \ {x} |-> f[e]]) = h[D \ {x}]
    BY <1>1, <1>2
  <1>4. h[D] = f[x] + h[D \ {x}]
    BY <1>1, <1>2 DEF Adds
  <1> QED BY <1>3, <1>4

\* Two parts without a common element.
LEMMA AddsApart ==
  ASSUME NEW D, IsFiniteSet(D), NEW f \in [D -> Int], NEW h, Adds(h, D, f),
         NEW P, P \subseteq D, NEW R, R \subseteq D, P \cap R = {}
  PROVE  h[P \cup R] = h[P] + h[R]
  <1> DEFINE S == {u \in SUBSET P : h[u \cup R] = h[u] + h[R]}
  <1>2. ASSUME NEW u \in SUBSET P, \A x \in u : u \ {x} \in S PROVE u \in S
    <2>1. CASE u = {}
      <3>1. u \cup R = R /\ R \in SUBSET D
        BY <2>1
      <3>2. h[R] \in Int /\ h[{}] = 0
        BY <3>1 DEF Adds
      <3> QED BY <2>1, <3>1, <3>2
    <2>2. CASE u # {}
      <3>1. PICK x \in u : TRUE
        BY <2>2
      <3>2. u \cup R \in SUBSET D /\ x \in u \cup R /\ (u \cup R) \ {x} = (u \ {x}) \cup R
        BY <3>1
      <3>3. u \in SUBSET D /\ u \ {x} \in SUBSET D /\ R \in SUBSET D /\ x \in D
        OBVIOUS
      <3>4. h[u \cup R] = f[x] + h[(u \ {x}) \cup R]
        <4>1. h[u \cup R] = f[x] + h[(u \cup R) \ {x}]
          BY <3>2 DEF Adds
        <4> QED BY <3>2, <4>1
      <3>5. h[u] = f[x] + h[u \ {x}]
        BY <3>3 DEF Adds
      <3>6. h[(u \ {x}) \cup R] = h[u \ {x}] + h[R]
        BY <1>2
      <3>7. h[u \ {x}] \in Int /\ h[R] \in Int /\ f[x] \in Int
        BY <3>3 DEF Adds
      <3> QED BY <3>4, <3>5, <3>6, <3>7
    <2> QED BY <2>1, <2>2
  <1>3. P \in S
    <2>1. IsFiniteSet(P)
      BY FS_Subset
    <2> HIDE DEF S
    <2> QED BY <1>2, <2>1, SubsetInduction
  <1> QED BY <1>3

\* n is the sum of f over P.
IsSumOf(n, P, f) == \E g \in [P -> Int] : (\A x \in P : g[x] = f[x]) /\ n = SumFunction(g)

LEMMA SumOfIsInt ==
  ASSUME NEW n, NEW P, IsFiniteSet(P), NEW f, IsSumOf(n, P, f)
  PROVE  n \in Int
  BY SumIsInt DEF IsSumOf

LEMMA SumOfIs ==
  ASSUME NEW n, NEW P, NEW f, IsSumOf(n, P, f)
  PROVE  n = SumFunction([e \in P |-> f[e]])
  <1>1. PICK g \in [P -> Int] : (\A x \in P : g[x] = f[x]) /\ n = SumFunction(g)
    BY DEF IsSumOf
  <1>2. g = [e \in P |-> f[e]]
    BY <1>1
  <1> QED BY <1>1, <1>2

\* A part and the rest.
LEMMA SumSplit ==
  ASSUME NEW D, IsFiniteSet(D), NEW f \in [D -> Int], NEW P, P \subseteq D, NEW R, R = D \ P,
         NEW p, IsSumOf(p, P, f), NEW r, IsSumOf(r, R, f)
  PROVE  SumFunction(f) = p + r
  <1>1. PICK h : /\ Adds(h, D, f)
                 /\ \A s \in SUBSET D : SumFunction([e \in s |-> f[e]]) = h[s]
    BY SumParts
  <1>2. P \cup R = D /\ P \cap R = {} /\ f = [e \in D |-> f[e]]
    OBVIOUS
  <1>3. p = SumFunction([e \in P |-> f[e]]) /\ r = SumFunction([e \in R |-> f[e]])
    BY SumOfIs
  <1>4. SumFunction(f) = h[D] /\ p = h[P] /\ r = h[R]
    BY <1>1, <1>2, <1>3
  <1>5. h[P \cup R] = h[P] + h[R]
    BY <1>1, <1>2, AddsApart
  <1> QED BY <1>2, <1>4, <1>5

\* Elements that count for nothing may be left out.
LEMMA SumDrop ==
  ASSUME NEW D, IsFiniteSet(D), NEW f \in [D -> Int], NEW P, P \subseteq D,
         \A e \in D : e \notin P => f[e] = 0
  PROVE  IsSumOf(SumFunction(f), P, f)
  <1>1. PICK h : /\ Adds(h, D, f)
                 /\ \A s \in SUBSET D : SumFunction([e \in s |-> f[e]]) = h[s]
    BY SumParts
  <1> DEFINE R == D \ P
             S == {u \in SUBSET R : h[u] = 0}
  <1>2. ASSUME NEW u \in SUBSET R, \A x \in u : u \ {x} \in S PROVE u \in S
    <2>1. CASE u = {}
      BY <1>1, <2>1 DEF Adds
    <2>2. CASE u # {}
      <3>1. PICK x \in u : TRUE
        BY <2>2
      <3>2. h[u] = f[x] + h[u \ {x}]
        BY <1>1, <3>1 DEF Adds
      <3>3. h[u \ {x}] = 0 /\ f[x] = 0
        BY <1>2, <3>1
      <3> QED BY <3>2, <3>3
    <2> QED BY <2>1, <2>2
  <1>3. R \in S
    <2>1. IsFiniteSet(R)
      BY FS_Subset
    <2>2. \A u \in SUBSET R : u \in S
      <3> HIDE DEF S, R
      <3> QED BY <1>2, <2>1, SubsetInduction
    <2> QED BY <2>2
  <1>4. SumFunction([e \in R |-> f[e]]) = 0
    BY <1>1, <1>3
  <1> DEFINE p == [e \in P |-> f[e]]
             r == [e \in R |-> f[e]]
  <1>5. p \in [P -> Int] /\ IsFiniteSet(P) /\ IsSumOf(SumFunction(p), P, f) /\ IsSumOf(SumFunction(r), R, f)
    BY FS_Subset DEF IsSumOf
  <1>6. SumFunction(f) = SumFunction(p) + SumFunction(r)
    <2> HIDE DEF p, r
    <2> QED BY <1>5, SumSplit
  <1>7. SumFunction(p) \in Int
    <2> HIDE DEF p
    <2> QED BY <1>5, SumIsInt
  <1> QED BY <1>4, <1>5, <1>6, <1>7

LEMMA SumOfZeros ==
  ASSUME NEW D, IsFiniteSet(D), NEW f, f \in [D -> {0}]
  PROVE  SumFunction(f) = 0
  <1>1. f \in [D -> Int] /\ \A e \in D \ {} : f[e] = 0
    OBVIOUS
  <1>2. IsSumOf(SumFunction(f), {}, f)
    BY <1>1, SumDrop
  <1>3. [e \in {} |-> f[e]] \in [{} -> Int]
    OBVIOUS
  <1> DEFINE g == [e \in {} |-> f[e]]
  <1>4. SumFunction(g) = 0
    <2> HIDE DEF g
    <2> QED BY <1>3, SumOfNone DEF g
  <1> QED BY <1>2, <1>4, SumOfIs

\* The difference of two sums.
LEMMA SumOfGaps ==
  ASSUME NEW E, IsFiniteSet(E), NEW f \in [E -> Int], NEW g \in [E -> Int]
  PROVE  SumFunction([c \in E |-> g[c] - f[c]]) = SumFunction(g) - SumFunction(f)
  <1> DEFINE d == [c \in E |-> g[c] - f[c]]
  <1>1. d \in [E -> Int] /\ \A c \in E : d[c] = g[c] - f[c]
    OBVIOUS
  <1>2. PICK h : Adds(h, E, f) /\ SumFunction(f) = h[E]
    BY SumAdds
  <1>3. PICK k : Adds(k, E, g) /\ SumFunction(g) = k[E]
    BY SumAdds
  <1>4. PICK m : Adds(m, E, d) /\ SumFunction(d) = m[E]
    BY <1>1, SumAdds
  <1> DEFINE S == {s \in SUBSET E : m[s] = k[s] - h[s]}
  <1>5. ASSUME NEW s \in SUBSET E, \A x \in s : s \ {x} \in S PROVE s \in S
    <2> HIDE DEF d
    <2>1. CASE s = {}
      BY <1>2, <1>3, <1>4, <2>1 DEF Adds
    <2>2. CASE s # {}
      <3>1. PICK x \in s : TRUE
        BY <2>2
      <3>2. m[s] = d[x] + m[s \ {x}]
        BY <1>4 DEF Adds
      <3>3. k[s] = g[x] + k[s \ {x}]
        BY <1>3 DEF Adds
      <3>4. h[s] = f[x] + h[s \ {x}]
        BY <1>2 DEF Adds
      <3>5. m[s \ {x}] = k[s \ {x}] - h[s \ {x}]
        BY <1>5
      <3>6. x \in E /\ s \ {x} \in SUBSET E
        OBVIOUS
      <3>7. k[s \ {x}] \in Int /\ h[s \ {x}] \in Int
        BY <1>2, <1>3, <3>6 DEF Adds
      <3>8. d[x] = g[x] - f[x] /\ g[x] \in Int /\ f[x] \in Int
        BY <1>1, <3>6
      <3> QED BY <3>2, <3>3, <3>4, <3>5, <3>7, <3>8
    <2> QED BY <2>1, <2>2
  <1>6. \A s \in SUBSET E : s \in S
    <2> HIDE DEF S
    <2> QED BY <1>5, SubsetInduction
  <1> QED BY <1>2, <1>3, <1>4, <1>6

\* A sum grows with its terms.
LEMMA SumGrows ==
  ASSUME NEW D, IsFiniteSet(D), NEW f \in [D -> Int], NEW g \in [D -> Int],
         \A e \in D : f[e] <= g[e]
  PROVE  SumFunction(f) <= SumFunction(g)
  <1>1. PICK h : Adds(h, D, f) /\ SumFunction(f) = h[D]
    BY SumAdds
  <1>2. PICK k : Adds(k, D, g) /\ SumFunction(g) = k[D]
    BY SumAdds
  <1> DEFINE S == {u \in SUBSET D : h[u] <= k[u]}
  <1>3. ASSUME NEW u \in SUBSET D, \A x \in u : u \ {x} \in S PROVE u \in S
    <2>1. CASE u = {}
      BY <1>1, <1>2, <2>1 DEF Adds
    <2>2. CASE u # {}
      <3>1. PICK x \in u : TRUE
        BY <2>2
      <3>2. h[u] = f[x] + h[u \ {x}] /\ k[u] = g[x] + k[u \ {x}]
        BY <1>1, <1>2, <3>1 DEF Adds
      <3>3. h[u \ {x}] <= k[u \ {x}] /\ f[x] <= g[x]
        BY <1>3, <3>1
      <3>4. h[u \ {x}] \in Int /\ k[u \ {x}] \in Int /\ f[x] \in Int /\ g[x] \in Int
        <4>1. u \ {x} \in SUBSET D /\ x \in D
          OBVIOUS
        <4> QED BY <1>1, <1>2, <4>1 DEF Adds
      <3> QED BY <3>2, <3>3, <3>4
    <2> QED BY <2>1, <2>2
  <1>4. D \in S
    <2> HIDE DEF S
    <2> QED BY <1>3, SubsetInduction
  <1> QED BY <1>1, <1>2, <1>4

\* Terms above zero add up to more than zero.
LEMMA SumAboveZero ==
  ASSUME NEW D, IsFiniteSet(D), NEW f \in [D -> Int], \A e \in D : f[e] > 0, NEW x \in D
  PROVE  SumFunction(f) > 0
  <1> DEFINE rest == [e \in D \ {x} |-> f[e]]
             none == [e \in D \ {x} |-> 0]
  <1>1. /\ IsFiniteSet(D \ {x}) /\ rest \in [D \ {x} -> Int] /\ none \in [D \ {x} -> {0}]
        /\ none \in [D \ {x} -> Int] /\ \A e \in D \ {x} : none[e] <= rest[e]
    BY FS_Subset
  <1>2. SumFunction(none) = 0 /\ SumFunction(none) <= SumFunction(rest) /\ SumFunction(rest) \in Int
    <2> HIDE DEF rest, none
    <2> QED BY <1>1, SumOfZeros, SumGrows, SumIsInt
  <1>3. SumFunction(f) = f[x] + SumFunction(rest)
    BY SumWithout
  <1>4. f[x] \in Int /\ f[x] > 0
    OBVIOUS
  <1> HIDE DEF rest, none
  <1> QED BY <1>2, <1>3, <1>4

\* As many times a number as there are elements.
LEMMA SumOfSame ==
  ASSUME NEW D, IsFiniteSet(D), NEW n \in Nat
  PROVE  SumFunction([e \in D |-> n]) = n * Cardinality(D)
  <1> DEFINE f == [e \in D |-> n]
  <1>1. f \in [D -> Int] /\ \A e \in D : f[e] = n
    OBVIOUS
  <1> HIDE DEF f
  <1>2. PICK h : Adds(h, D, f) /\ SumFunction(f) = h[D]
    BY <1>1, SumAdds
  <1> DEFINE S == {u \in SUBSET D : h[u] = n * Cardinality(u)}
  <1>3. ASSUME NEW u \in SUBSET D, \A x \in u : u \ {x} \in S PROVE u \in S
    <2>1. CASE u = {}
      <3>1. Cardinality(u) = 0 /\ n * 0 = 0
        BY <2>1, FS_EmptySet
      <3> QED BY <1>2, <2>1, <3>1 DEF Adds
    <2>2. CASE u # {}
      <3>1. PICK x \in u : TRUE
        BY <2>2
      <3>2. h[u] = n + h[u \ {x}]
        BY <1>1, <1>2, <3>1 DEF Adds
      <3>3. h[u \ {x}] = n * Cardinality(u \ {x})
        BY <1>3, <3>1
      <3>4. IsFiniteSet(u) /\ Cardinality(u) \in Nat /\ Cardinality(u \ {x}) = Cardinality(u) - 1
        BY <3>1, FS_Subset, FS_CardinalityType, FS_RemoveElement
      <3>5. \A m \in Nat : n + n * (m - 1) = n * m
        BY SMT
      <3> QED BY <3>2, <3>3, <3>4, <3>5
    <2> QED BY <2>1, <2>2
  <1>4. D \in S
    <2>1. \A u \in SUBSET D : u \in S
      <3> HIDE DEF S
      <3> QED BY <1>3, SubsetInduction
    <2> QED BY <2>1
  <1> QED BY <1>2, <1>4 DEF f

\* sums[k] is the sum of f over the elements of D with the key k.
GroupSums(sums, D, f, K, key) ==
  /\ sums \in [K -> Int]
  /\ \A k \in K : \E P \in SUBSET D : (\A x \in D : x \in P <=> key[x] = k) /\ IsSumOf(sums[k], P, f)

\* The sums of the groups of a key add up to the whole.
LEMMA SumByKey ==
  ASSUME NEW D, IsFiniteSet(D), NEW f \in [D -> Int],
         NEW K, IsFiniteSet(K), NEW key \in [D -> K], NEW sums, GroupSums(sums, D, f, K, key)
  PROVE  SumFunction(sums) = SumFunction(f)
  <1>1. PICK h : /\ Adds(h, D, f)
                 /\ \A s \in SUBSET D : SumFunction([e \in s |-> f[e]]) = h[s]
    BY SumParts
  <1> DEFINE group(k) == {x \in D : key[x] = k}
             of(T) == {x \in D : key[x] \in T}
  <1>2. \A k \in K : group(k) \in SUBSET D
    OBVIOUS
  <1>3. sums \in [K -> Int] /\ \A k \in K : sums[k] = h[group(k)]
    <2>1. ASSUME NEW k \in K PROVE sums[k] = h[group(k)]
      <3>1. PICK P \in SUBSET D : (\A x \in D : x \in P <=> key[x] = k) /\ IsSumOf(sums[k], P, f)
        BY DEF GroupSums
      <3>2. P = group(k)
        BY <3>1
      <3>3. PICK g \in [P -> Int] : (\A x \in P : g[x] = f[x]) /\ sums[k] = SumFunction(g)
        BY <3>1 DEF IsSumOf
      <3>4. g = [e \in P |-> f[e]]
        BY <3>3
      <3>5. sums[k] = h[P]
        BY <1>1, <3>3, <3>4
      <3> QED BY <3>2, <3>5
    <2>2. sums \in [K -> Int]
      BY DEF GroupSums
    <2> HIDE DEF group
    <2> QED BY <2>1, <2>2
  <1>4. PICK m : Adds(m, K, sums) /\ SumFunction(sums) = m[K]
    BY <1>3, SumAdds
  <1> DEFINE S == {T \in SUBSET K : m[T] = h[of(T)]}
  <1>5. ASSUME NEW T \in SUBSET K, \A k \in T : T \ {k} \in S PROVE T \in S
    <2>1. CASE T = {}
      <3>1. of(T) = {}
        BY <2>1
      <3> HIDE DEF of
      <3> QED BY <1>1, <1>4, <2>1, <3>1 DEF Adds
    <2>2. CASE T # {}
      <3>1. PICK k \in T : TRUE
        BY <2>2
      <3>2. m[T] = sums[k] + m[T \ {k}]
        BY <1>4, <3>1 DEF Adds
      <3>3. m[T \ {k}] = h[of(T \ {k})]
        BY <1>5, <3>1
      <3>4. h[of(T)] = h[group(k)] + h[of(T \ {k})]
        <4>1. group(k) \in SUBSET D /\ of(T \ {k}) \in SUBSET D
              /\ group(k) \cap of(T \ {k}) = {} /\ group(k) \cup of(T \ {k}) = of(T)
          BY <3>1
        <4>2. Adds(h, D, f)
          BY <1>1
        <4> HIDE DEF group, of
        <4>3. \A P, R : P \subseteq D /\ R \subseteq D /\ P \cap R = {} => h[P \cup R] = h[P] + h[R]
          BY <4>2, AddsApart
        <4> QED BY <4>1, <4>3
      <3>5. sums[k] = h[group(k)]
        BY <1>3, <3>1
      <3> HIDE DEF of, group
      <3> QED BY <3>2, <3>3, <3>4, <3>5
    <2> QED BY <2>1, <2>2
  <1>6. K \in S
    <2>1. \A u \in SUBSET K : u \in S
      <3> HIDE DEF S
      <3> QED BY <1>5, SubsetInduction
    <2> QED BY <2>1
  <1>7. of(K) = D /\ f = [e \in D |-> f[e]]
    OBVIOUS
  <1>8. SumFunction(f) = h[D]
    BY <1>1, <1>7
  <1>9. SumFunction(sums) = h[of(K)]
    <2> HIDE DEF of
    <2> QED BY <1>4, <1>6
  <1> QED BY <1>7, <1>8, <1>9

\* What there is a name for in a finite set is finite.
LEMMA FiniteImage ==
  ASSUME NEW D, IsFiniteSet(D), NEW E, NEW b \in [D -> E], \A e \in E : \E x \in D : b[x] = e
  PROVE  IsFiniteSet(E)
  <1>1. b \in Surjection(D, E)
    BY DEF Surjection
  <1> QED BY <1>1, FS_Surjection

\* The same terms, named otherwise.
LEMMA SumRenamed ==
  ASSUME NEW D, IsFiniteSet(D), NEW f \in [D -> Int], NEW E, NEW b \in [D -> E],
         \A e \in E : \E x \in D : b[x] = e, \A x, y \in D : b[x] = b[y] => x = y,
         NEW g, g \in [E -> Int], \A x \in D : g[b[x]] = f[x]
  PROVE  SumFunction(g) = SumFunction(f)
  <1>1. IsFiniteSet(E)
    BY FiniteImage
  <1>2. PICK h : Adds(h, D, f) /\ SumFunction(f) = h[D]
    BY SumAdds
  <1>3. PICK k : Adds(k, E, g) /\ SumFunction(g) = k[E]
    BY <1>1, SumAdds
  <1> DEFINE im(u) == {b[x] : x \in u}
             S == {u \in SUBSET D : h[u] = k[im(u)]}
  <1>4. ASSUME NEW u \in SUBSET D, \A x \in u : u \ {x} \in S PROVE u \in S
    <2>1. CASE u = {}
      <3>1. im(u) = {}
        BY <2>1
      <3> HIDE DEF im
      <3> QED BY <1>2, <1>3, <2>1, <3>1 DEF Adds
    <2>2. CASE u # {}
      <3>1. PICK x \in u : TRUE
        BY <2>2
      <3>2. im(u) \in SUBSET E /\ b[x] \in im(u) /\ im(u \ {x}) = im(u) \ {b[x]}
        <4>1. im(u) \in SUBSET E /\ b[x] \in im(u)
          BY <3>1
        <4>2. \A y \in u : y # x => b[y] # b[x]
          BY <3>1
        <4> QED BY <4>1, <4>2
      <3>3. h[u] = f[x] + h[u \ {x}] /\ h[u \ {x}] = k[im(u \ {x})]
        BY <1>2, <1>4, <3>1 DEF Adds
      <3>4. k[im(u)] = g[b[x]] + k[im(u) \ {b[x]}]
        <4> HIDE DEF im
        <4> QED BY <1>3, <3>2 DEF Adds
      <3>5. g[b[x]] = f[x]
        BY <3>1
      <3> HIDE DEF im
      <3> QED BY <3>2, <3>3, <3>4, <3>5
    <2> QED BY <2>1, <2>2
  <1>5. D \in S
    <2> HIDE DEF S
    <2> QED BY <1>4, SubsetInduction
  <1>6. im(D) = E
    OBVIOUS
  <1> QED BY <1>2, <1>3, <1>5, <1>6

\* The same for the groups there are: g has one for each key.
IsGrouped(g, S, key, f) ==
  g = [k \in {key[e] : e \in S} |-> SumFunction([e \in {x \in S : key[x] = k} |-> f[e]])]

LEMMA GroupedAddsUp ==
  ASSUME NEW S, IsFiniteSet(S), NEW f \in [S -> Int], NEW key, NEW g, IsGrouped(g, S, key, f)
  PROVE  /\ IsFiniteSet(DOMAIN g) /\ g \in [DOMAIN g -> Int] /\ DOMAIN g = {key[e] : e \in S}
         /\ SumFunction(g) = SumFunction(f)
  <1> DEFINE K == {key[e] : e \in S}
             keyOf == [e \in S |-> key[e]]
             group(k) == {x \in S : key[x] = k}
  <1>1. keyOf \in [S -> K] /\ \A k \in K : \E e \in S : keyOf[e] = k
    OBVIOUS
  <1>2. IsFiniteSet(K)
    <2> HIDE DEF K, keyOf
    <2> QED BY <1>1, FiniteImage
  <1>3. ASSUME NEW k \in K PROVE IsSumOf(g[k], group(k), f) /\ g[k] \in Int
    <2> DEFINE t == [e \in group(k) |-> f[e]]
    <2>1. g[k] = SumFunction(t)
      BY DEF IsGrouped
    <2>2. t \in [group(k) -> Int] /\ (\A x \in group(k) : t[x] = f[x]) /\ IsFiniteSet(group(k))
      BY FS_Subset
    <2>3. IsSumOf(g[k], group(k), f)
      <3> HIDE DEF t, group
      <3> QED BY <2>1, <2>2 DEF IsSumOf
    <2> HIDE DEF group
    <2> QED BY <2>2, <2>3, SumOfIsInt
  <1>4. GroupSums(g, S, f, K, keyOf)
    <2>1. g \in [K -> Int]
      BY <1>3 DEF IsGrouped
    <2>2. ASSUME NEW k \in K
          PROVE  \E P \in SUBSET S : (\A x \in S : x \in P <=> keyOf[x] = k) /\ IsSumOf(g[k], P, f)
      <3>1. group(k) \in SUBSET S /\ \A x \in S : x \in group(k) <=> keyOf[x] = k
        OBVIOUS
      <3>2. IsSumOf(g[k], group(k), f)
        BY <1>3
      <3> HIDE DEF group, K, keyOf
      <3> QED BY <3>1, <3>2
    <2> HIDE DEF K, keyOf
    <2> QED BY <2>1, <2>2 DEF GroupSums
  <1>5. g \in [K -> Int]
    BY <1>4 DEF GroupSums
  <1> HIDE DEF K, keyOf
  <1>6. SumFunction(g) = SumFunction(f)
    BY <1>1, <1>2, <1>4, SumByKey
  <1> QED BY <1>2, <1>5, <1>6 DEF K

\* The same cut by a key of which the values are known: some may have nothing.
IsCutBy(t, S, K, key, f) ==
  /\ t = [k \in K |-> SumFunction([e \in {x \in S : key[x] = k} |-> f[e]])]
  /\ IsFiniteSet(K) /\ \A e \in S : key[e] \in K

LEMMA CutAddsUp ==
  ASSUME NEW S, IsFiniteSet(S), NEW f \in [S -> Int], NEW K, NEW key, NEW t, IsCutBy(t, S, K, key, f)
  PROVE  t \in [K -> Int] /\ SumFunction(t) = SumFunction(f)
  <1> DEFINE keyOf == [e \in S |-> key[e]]
             group(k) == {x \in S : key[x] = k}
  <1>1. keyOf \in [S -> K] /\ IsFiniteSet(K)
    BY DEF IsCutBy
  <1>2. ASSUME NEW k \in K PROVE IsSumOf(t[k], group(k), f) /\ t[k] \in Int
    <2> DEFINE g == [e \in group(k) |-> f[e]]
    <2>1. t[k] = SumFunction(g)
      BY DEF IsCutBy
    <2>2. g \in [group(k) -> Int] /\ (\A x \in group(k) : g[x] = f[x]) /\ IsFiniteSet(group(k))
      BY FS_Subset
    <2>3. IsSumOf(t[k], group(k), f)
      <3> HIDE DEF g, group
      <3> QED BY <2>1, <2>2 DEF IsSumOf
    <2> HIDE DEF group
    <2> QED BY <2>2, <2>3, SumOfIsInt
  <1>3. t \in [K -> Int]
    BY <1>2 DEF IsCutBy
  <1>4. GroupSums(t, S, f, K, keyOf)
    <2>1. ASSUME NEW k \in K
          PROVE  \E P \in SUBSET S : (\A x \in S : x \in P <=> keyOf[x] = k) /\ IsSumOf(t[k], P, f)
      <3>1. group(k) \in SUBSET S /\ \A x \in S : x \in group(k) <=> keyOf[x] = k
        OBVIOUS
      <3>2. IsSumOf(t[k], group(k), f)
        BY <1>2
      <3> HIDE DEF group, keyOf
      <3> QED BY <3>1, <3>2
    <2> HIDE DEF keyOf
    <2> QED BY <1>3, <2>1 DEF GroupSums
  <1>5. SumFunction(t) = SumFunction(f)
    <2> HIDE DEF keyOf
    <2> QED BY <1>1, <1>4, SumByKey
  <1> QED BY <1>3, <1>5

\* Only what counts for something.
NonZero(f) == [k \in {i \in DOMAIN f : f[i] # 0} |-> f[k]]
AboveZero(f) == [k \in {i \in DOMAIN f : f[i] > 0} |-> f[k]]

LEMMA NonZeroAddsUp ==
  ASSUME NEW D, IsFiniteSet(D), NEW f \in [D -> Int]
  PROVE  SumFunction(NonZero(f)) = SumFunction(f)
  <1> DEFINE P == {i \in D : f[i] # 0}
  <1>1. P \subseteq D /\ \A e \in D : e \notin P => f[e] = 0
    OBVIOUS
  <1>2. IsSumOf(SumFunction(f), P, f)
    <2> HIDE DEF P
    <2> QED BY <1>1, SumDrop
  <1>3. SumFunction(f) = SumFunction([e \in P |-> f[e]])
    <2> HIDE DEF P
    <2> QED BY <1>2, SumOfIs
  <1>4. NonZero(f) = [e \in P |-> f[e]]
    BY DEF NonZero
  <1> QED BY <1>3, <1>4

LEMMA AboveZeroIsMore ==
  ASSUME NEW D, IsFiniteSet(D), NEW f \in [D -> Int]
  PROVE  SumFunction(f) <= SumFunction(AboveZero(f))
  <1> DEFINE P == {i \in D : f[i] > 0}
             g == [e \in D |-> IF f[e] > 0 THEN f[e] ELSE 0]
  <1>1. /\ g \in [D -> Int] /\ \A e \in D : f[e] <= g[e]
        /\ P \subseteq D /\ \A e \in D : e \notin P => g[e] = 0
    OBVIOUS
  <1>2. AboveZero(f) = [e \in P |-> g[e]]
    BY DEF AboveZero
  <1>3. SumFunction(f) <= SumFunction(g)
    <2> HIDE DEF P, g
    <2> QED BY <1>1, SumGrows
  <1>4. IsSumOf(SumFunction(g), P, g)
    <2> HIDE DEF P, g
    <2> QED BY <1>1, SumDrop
  <1>5. SumFunction(g) = SumFunction([e \in P |-> g[e]])
    <2> HIDE DEF P, g
    <2> QED BY <1>4, SumOfIs
  <1> QED BY <1>2, <1>3, <1>5

\* A finite set of integers has a greatest.
LEMMA GreatestNumber ==
  ASSUME NEW D, IsFiniteSet(D), D \subseteq Int, D # {}
  PROVE  \E n \in D : \A m \in D : m <= n
  <1> DEFINE S == {s \in SUBSET D : s = {} \/ \E n \in s : \A m \in s : m <= n}
  <1>1. ASSUME NEW s \in SUBSET D, \A x \in s : s \ {x} \in S PROVE s \in S
    <2>1. CASE s = {}
      BY <2>1
    <2>2. CASE s # {}
      <3>1. PICK x \in s : TRUE
        BY <2>2
      <3>2. CASE s \ {x} = {}
        <4>1. \A m \in s : m <= x
          BY <3>1, <3>2
        <4> QED BY <3>1, <4>1
      <3>3. CASE s \ {x} # {}
        <4>1. PICK n \in s \ {x} : \A m \in s \ {x} : m <= n
          BY <1>1, <3>1, <3>3
        <4>2. CASE x <= n
          BY <4>1, <4>2
        <4>3. CASE ~(x <= n)
          <5>1. \A m \in s : m <= x
            BY <3>1, <4>1, <4>3
          <5> QED BY <3>1, <5>1
        <4> QED BY <4>2, <4>3
      <3> QED BY <3>2, <3>3
    <2> QED BY <2>1, <2>2
  <1>2. \A s \in SUBSET D : s \in S
    <2> HIDE DEF S
    <2> QED BY <1>1, SubsetInduction
  <1> QED BY <1>2

===============================================================================
