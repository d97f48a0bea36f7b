------------------------------- MODULE Counting ------------------------------
(* Facts about numbers, ranks and sums over finite sets that the proofs of *)
(* several components rest on.                                             *)
EXTENDS Integers, FiniteSets, FiniteSetsExt, Functions, FiniteSetTheorems, WellFoundedInduction, TLAPS

-----------------------------------------------------------------------------
(* Induction, and sums over finite sets.                                   *)

(* The least of some naturals.                                             *)
LEMMA LeastNat ==
  ASSUME NEW T \in SUBSET Nat, T # {}
  PROVE  \E n \in T : \A m \in T : n <= m
<1>. DEFINE R == OpToRel(<, Nat)
<1>1. IsWellFoundedOn(R, Nat)
  BY NatLessThanWellFounded
<1>2. \A m, n \in Nat : m < n => <<m, n>> \in R
  BY DEF OpToRel
<1>. HIDE DEF R
<1>3. PICK n \in T : \A m \in T : ~ (<<m, n>> \in R)
  BY <1>1, WFMin
<1>4. \A m \in T : ~(m < n)
  BY <1>2, <1>3
<1>. QED  BY <1>4

(* A set of numbers with zero and the successor of each has them all.      *)
LEMMA NatInd ==
  ASSUME NEW S, 0 \in S, \A n \in Nat : n \in S => n + 1 \in S
  PROVE  Nat \subseteq S
<1>1. SUFFICES ASSUME Nat \ S # {} PROVE FALSE
  OBVIOUS
<1>2. PICK n \in Nat \ S : \A m \in Nat \ S : n <= m
  BY <1>1, LeastNat
<1>3. n # 0 /\ n - 1 \in Nat /\ n - 1 \notin Nat \ S
  BY <1>2
<1>. QED  BY <1>2, <1>3

(* A function on the subsets of S that satisfies the recurrence of the sum *)
(* of f on those of at most n elements.                                    *)
Sums(g, f, S, n) ==
  \A s \in SUBSET S : Cardinality(s) <= n =>
     g[s] = IF s = {} THEN 0 ELSE f[CHOOSE x \in s : TRUE] + g[s \ {CHOOSE x \in s : TRUE}]

LEMMA ChosenOf ==
  ASSUME NEW S, IsFiniteSet(S), NEW s \in SUBSET S, s # {}
  PROVE  LET c == CHOOSE x \in s : TRUE
         IN  /\ c \in s
             /\ IsFiniteSet(s) /\ IsFiniteSet(s \ {c})
             /\ Cardinality(s) \in Nat /\ Cardinality(s \ {c}) \in Nat
             /\ Cardinality(s \ {c}) = Cardinality(s) - 1
<1>. DEFINE c == CHOOSE x \in s : TRUE
<1>1. c \in s
  OBVIOUS
<1>. HIDE DEF c
<1>2. IsFiniteSet(s)
  BY FS_Subset
<1>3. IsFiniteSet(s \ {c}) /\ Cardinality(s \ {c}) = Cardinality(s) - 1
  BY <1>1, <1>2, FS_RemoveElement
<1>4. Cardinality(s) \in Nat /\ Cardinality(s \ {c}) \in Nat
  BY <1>2, <1>3, FS_CardinalityType
<1>. QED  BY <1>1, <1>2, <1>3, <1>4 DEF c

(* There is one: the sum is well defined.                                  *)
LEMMA SumsExist ==
  ASSUME NEW S, IsFiniteSet(S), NEW f
  PROVE  \A n \in Nat : \E g : g = [s \in SUBSET S |-> g[s]] /\ Sums(g, f, S, n)
<1>. DEFINE Eq(g, n) == g = [s \in SUBSET S |-> g[s]] /\ Sums(g, f, S, n)
            N == {n \in Nat : \E g : Eq(g, n)}
            c(s) == CHOOSE x \in s : TRUE
<1>0. \A s \in SUBSET S : Cardinality(s) \in Nat /\ (Cardinality(s) = 0 <=> s = {})
  BY FS_Subset, FS_CardinalityType, FS_EmptySet
<1>1. 0 \in N
  <2>. DEFINE g == [s \in SUBSET S |-> 0]
  <2>1. Sums(g, f, S, 0)
    BY <1>0 DEF Sums
  <2>. QED  BY <2>1
<1>2. ASSUME NEW n \in Nat, n \in N PROVE n + 1 \in N
  <2>1. PICK g : Eq(g, n)
    BY <1>2
  <2>. DEFINE h == [s \in SUBSET S |-> IF Cardinality(s) <= n THEN g[s] ELSE f[c(s)] + g[s \ {c(s)}]]
  <2>2. ASSUME NEW s \in SUBSET S, Cardinality(s) <= n + 1
        PROVE  h[s] = IF s = {} THEN 0 ELSE f[c(s)] + h[s \ {c(s)}]
    <3>1. CASE s = {}
      <4>1. Cardinality(s) <= n
        BY <1>0, <3>1
      <4>2. h[s] = g[s] /\ g[s] = 0
        BY <2>1, <3>1, <4>1 DEF Sums
      <4>. QED  BY <3>1, <4>2
    <3>2. CASE s # {}
      <4>. DEFINE d == s \ {c(s)}
      <4>1. d \in SUBSET S /\ Cardinality(d) \in Nat /\ Cardinality(s) \in Nat
            /\ Cardinality(d) = Cardinality(s) - 1
        BY <3>2, ChosenOf
      <4>. HIDE DEF d
      <4>2. h[d] = g[d]
        BY <2>2, <4>1
      <4>3. h[s] = f[c(s)] + g[d]
        <5>1. CASE Cardinality(s) <= n
          BY <2>1, <3>2, <5>1 DEF Sums, d
        <5>2. CASE ~(Cardinality(s) <= n)
          BY <5>2 DEF d
        <5>. QED  BY <5>1, <5>2
      <4>. QED  BY <3>2, <4>2, <4>3 DEF d
    <3>. QED  BY <3>1, <3>2
  <2>3. Sums(h, f, S, n + 1)
    <3>. HIDE DEF h
    <3>. QED  BY <2>2 DEF Sums
  <2>4. h = [s \in SUBSET S |-> h[s]]
    OBVIOUS
  <2>. HIDE DEF h
  <2>. QED  BY <2>3, <2>4
<1>. HIDE DEF N
<1>3. Nat \subseteq N
  BY <1>1, <1>2, NatInd
<1>. QED  BY <1>3 DEF N

(* And only one.                                                           *)
LEMMA SumsAgree ==
  ASSUME NEW S, IsFiniteSet(S), NEW T \in SUBSET S, NEW f, NEW n \in Nat, NEW g, NEW h,
         Sums(g, f, S, n), Sums(h, f, T, n)
  PROVE  \A s \in SUBSET T : Cardinality(s) <= n => g[s] = h[s]
<1>. DEFINE K == {k \in Nat : \A s \in SUBSET T : Cardinality(s) = k /\ k <= n => g[s] = h[s]}
            c(s) == CHOOSE x \in s : TRUE
<1>0. \A s \in SUBSET T : Cardinality(s) \in Nat /\ (Cardinality(s) = 0 <=> s = {})
  BY FS_Subset, FS_CardinalityType, FS_EmptySet
<1>1. 0 \in K
  BY <1>0 DEF Sums
<1>2. ASSUME NEW k \in Nat, k \in K PROVE k + 1 \in K
  <2>1. SUFFICES ASSUME NEW s \in SUBSET T, Cardinality(s) = k + 1, k + 1 <= n
                 PROVE  g[s] = h[s]
    OBVIOUS
  <2>2. s # {} /\ s \in SUBSET S
    BY <1>0, <2>1
  <2>. DEFINE d == s \ {c(s)}
  <2>3. d \in SUBSET T /\ Cardinality(d) = k /\ k <= n
    <3>1. c(s) \in s /\ Cardinality(d) = Cardinality(s) - 1
      BY <2>2, ChosenOf
    <3>. HIDE DEF c
    <3>. QED  BY <2>1, <3>1
  <2>4. g[d] = h[d]
    BY <1>2, <2>3
  <2>5. g[s] = f[c(s)] + g[d] /\ h[s] = f[c(s)] + h[d]
    BY <2>1, <2>2 DEF Sums
  <2>. QED  BY <2>4, <2>5
<1>. HIDE DEF K
<1>3. Nat \subseteq K
  BY <1>1, <1>2, NatInd
<1>. QED  BY <1>0, <1>3 DEF K

LEMMA SumIsSum ==
  ASSUME NEW S, IsFiniteSet(S), NEW f, NEW g, Sums(g, f, S, Cardinality(S)),
         NEW T \in SUBSET S
  PROVE  SumFunctionOnSet(f, T) = g[T]
<1>. DEFINE c(s) == CHOOSE x \in s : TRUE
            F(h) == [s \in SUBSET T |-> IF s = {} THEN 0 ELSE f[c(s)] + h[s \ {c(s)}]]
            iter == CHOOSE h : h = F(h)
<1>0. IsFiniteSet(T) /\ Cardinality(T) \in Nat /\ Cardinality(S) \in Nat
      /\ Cardinality(T) <= Cardinality(S)
      /\ \A s \in SUBSET T : Cardinality(s) \in Nat /\ Cardinality(s) <= Cardinality(T)
  BY FS_Subset, FS_CardinalityType
<1>1. SumFunctionOnSet(f, T) = iter[T]
  BY DEF SumFunctionOnSet, FoldFunctionOnSet, MapThenFoldSet
<1>2. PICK h : h = [s \in SUBSET T |-> h[s]] /\ Sums(h, f, T, Cardinality(T))
  BY <1>0, SumsExist
<1>3. h = F(h)
  <2>1. \A s \in SUBSET T : h[s] = F(h)[s]
    BY <1>0, <1>2 DEF Sums
  <2>. QED  BY <1>2, <2>1
<1>4. iter = F(iter)
  BY <1>3
<1>. HIDE DEF iter
<1>5. Sums(iter, f, T, Cardinality(T))
  <2>1. \A s \in SUBSET T : iter[s] = F(iter)[s]
    BY <1>4
  <2>. QED  BY <2>1 DEF Sums
<1>6. Sums(g, f, S, Cardinality(T))
  <2>1. \A s \in SUBSET S : Cardinality(s) \in Nat
    BY FS_Subset, FS_CardinalityType
  <2>2. \A s \in SUBSET S : Cardinality(s) <= Cardinality(T) => Cardinality(s) <= Cardinality(S)
    BY <1>0, <2>1
  <2>. QED  BY <2>2 DEF Sums
<1>7. g[T] = iter[T]
  BY <1>0, <1>5, <1>6, SumsAgree
<1>. QED  BY <1>1, <1>7

(* The sum over nothing, and over a set from which one is chosen first.    *)
LEMMA SumStep ==
  ASSUME NEW S, IsFiniteSet(S), NEW f
  PROVE  SumFunctionOnSet(f, S) = IF S = {} THEN 0
                       ELSE f[CHOOSE x \in S : TRUE] + SumFunctionOnSet(f, S \ {CHOOSE x \in S : TRUE})
<1>1. Cardinality(S) \in Nat
  BY FS_CardinalityType
<1>2. PICK g : Sums(g, f, S, Cardinality(S))
  BY <1>1, SumsExist
<1>3. \A T \in SUBSET S : SumFunctionOnSet(f, T) = g[T]
  BY <1>2, SumIsSum
<1>4. g[S] = IF S = {} THEN 0 ELSE f[CHOOSE x \in S : TRUE] + g[S \ {CHOOSE x \in S : TRUE}]
  <2>1. S \in SUBSET S /\ Cardinality(S) <= Cardinality(S)
    BY <1>1
  <2>. QED  BY <1>2, <2>1 DEF Sums
<1>. QED  BY <1>3, <1>4

(* A sum of integers is one.                                               *)
LEMMA SumInt ==
  ASSUME NEW S, IsFiniteSet(S), NEW f, \A x \in S : f[x] \in Int
  PROVE  SumFunctionOnSet(f, S) \in Int
<1>. DEFINE K == {k \in Nat : \A T \in SUBSET S : Cardinality(T) = k => SumFunctionOnSet(f, T) \in Int}
            c(T) == CHOOSE x \in T : TRUE
<1>0. \A T \in SUBSET S : IsFiniteSet(T) /\ Cardinality(T) \in Nat /\ (Cardinality(T) = 0 <=> T = {})
  BY FS_Subset, FS_CardinalityType, FS_EmptySet
<1>1. 0 \in K
  BY <1>0, SumStep
<1>2. ASSUME NEW k \in Nat, k \in K PROVE k + 1 \in K
  <2>1. SUFFICES ASSUME NEW T \in SUBSET S, Cardinality(T) = k + 1 PROVE SumFunctionOnSet(f, T) \in Int
    OBVIOUS
  <2>2. T # {} /\ c(T) \in T /\ Cardinality(T \ {c(T)}) = k
    BY <1>0, <2>1, ChosenOf
  <2>3. SumFunctionOnSet(f, T) = f[c(T)] + SumFunctionOnSet(f, T \ {c(T)})
    BY <1>0, <2>2, SumStep
  <2>4. SumFunctionOnSet(f, T \ {c(T)}) \in Int /\ f[c(T)] \in Int
    BY <1>2, <2>2
  <2>. QED  BY <2>3, <2>4
<1>. HIDE DEF K
<1>3. Nat \subseteq K
  BY <1>1, <1>2, NatInd
<1>. QED  BY <1>0, <1>3 DEF K

(* Whichever is taken first, the sum is the same.                          *)
LEMMA SumTake ==
  ASSUME NEW S, IsFiniteSet(S), NEW f, \A x \in S : f[x] \in Int
  PROVE  /\ SumFunctionOnSet(f, S) \in Int
         /\ \A x \in S : SumFunctionOnSet(f, S) = f[x] + SumFunctionOnSet(f, S \ {x})
<1>. DEFINE Ok(T) == SumFunctionOnSet(f, T) \in Int /\ \A x \in T : SumFunctionOnSet(f, T) = f[x] + SumFunctionOnSet(f, T \ {x})
            K == {k \in Nat : \A T \in SUBSET S : Cardinality(T) = k => Ok(T)}
            c(T) == CHOOSE x \in T : TRUE
<1>0. \A T \in SUBSET S : IsFiniteSet(T) /\ Cardinality(T) \in Nat /\ (Cardinality(T) = 0 <=> T = {})
  BY FS_Subset, FS_CardinalityType, FS_EmptySet
<1>1. 0 \in K
  BY <1>0, SumStep
<1>2. ASSUME NEW k \in Nat, k \in K PROVE k + 1 \in K
  <2>1. SUFFICES ASSUME NEW T \in SUBSET S, Cardinality(T) = k + 1 PROVE Ok(T)
    OBVIOUS
  <2>2. T # {} /\ c(T) \in T /\ Cardinality(T \ {c(T)}) = k
    BY <1>0, <2>1, ChosenOf
  <2>3. SumFunctionOnSet(f, T) = f[c(T)] + SumFunctionOnSet(f, T \ {c(T)})
    BY <1>0, <2>2, SumStep
  <2>4. Ok(T \ {c(T)})
    BY <1>2, <2>2
  <2>5. SumFunctionOnSet(f, T) \in Int
    BY <2>2, <2>3, <2>4
  <2>6. ASSUME NEW x \in T, x # c(T) PROVE SumFunctionOnSet(f, T) = f[x] + SumFunctionOnSet(f, T \ {x})
    <3>. DEFINE A == T \ {c(T)}
                B == T \ {x}
                R == A \ {x}
    <3>1. x \in A /\ c(T) \in B /\ B \ {c(T)} = R
      BY <2>2, <2>6
    <3>2. SumFunctionOnSet(f, A) = f[x] + SumFunctionOnSet(f, R)
      BY <2>4, <3>1
    <3>3. Cardinality(B) = k /\ B \in SUBSET S
      BY <1>0, <2>1, FS_RemoveElement
    <3>4. Ok(B)
      BY <1>2, <3>3
    <3>5. SumFunctionOnSet(f, B) = f[c(T)] + SumFunctionOnSet(f, R)
      BY <3>1, <3>4
    <3>6. Cardinality(A \ {x}) = k - 1 /\ k - 1 \in Nat
      BY <1>0, <2>2, <3>1, FS_RemoveElement
    <3>7. f[x] \in Int /\ f[c(T)] \in Int /\ SumFunctionOnSet(f, A) \in Int /\ SumFunctionOnSet(f, B) \in Int
      BY <2>2, <2>4, <3>4
    <3>8. SumFunctionOnSet(f, R) \in Int
      <4>1. R \in SUBSET S /\ IsFiniteSet(R)
        BY <1>0
      <4>. QED  BY <4>1, SumInt
    <3>. QED  BY <2>3, <3>2, <3>5, <3>7, <3>8
  <2>. QED  BY <2>3, <2>5, <2>6
<1>. HIDE DEF K
<1>3. Nat \subseteq K
  BY <1>1, <1>2, NatInd
<1>. QED  BY <1>0, <1>3 DEF K

(* A family with the empty set, closed under adding an element of a finite *)
(* set, has that set.                                                      *)
LEMMA FinInd ==
  ASSUME NEW U, IsFiniteSet(U), NEW F, {} \in F,
         \A A \in SUBSET U : \A x \in U \ A : A \in F => A \cup {x} \in F
  PROVE  U \in F
<1>. DEFINE K == {k \in Nat : \A A \in SUBSET U : Cardinality(A) = k => A \in F}
<1>0. \A A \in SUBSET U : IsFiniteSet(A) /\ Cardinality(A) \in Nat /\ (Cardinality(A) = 0 <=> A = {})
  BY FS_Subset, FS_CardinalityType, FS_EmptySet
<1>1. 0 \in K
  BY <1>0
<1>2. ASSUME NEW k \in Nat, k \in K PROVE k + 1 \in K
  <2>1. SUFFICES ASSUME NEW A \in SUBSET U, Cardinality(A) = k + 1 PROVE A \in F
    OBVIOUS
  <2>2. PICK x \in A : TRUE
    BY <1>0, <2>1
  <2>3. Cardinality(A \ {x}) = k /\ A \ {x} \in SUBSET U /\ x \in U \ (A \ {x})
    <3>1. IsFiniteSet(A) /\ x \in A
      BY <1>0, <2>2
    <3>2. Cardinality(A \ {x}) = (k + 1) - 1
      BY <2>1, <3>1, FS_RemoveElement
    <3>. QED  BY <2>2, <3>2
  <2>4. (A \ {x}) \cup {x} \in F
    BY <1>2, <2>3
  <2>5. (A \ {x}) \cup {x} = A
    BY <2>2
  <2>. QED  BY <2>4, <2>5
<1>. HIDE DEF K
<1>3. Nat \subseteq K
  BY <1>1, <1>2, NatInd
<1>. QED  BY <1>0, <1>3 DEF K

LEMMA SumAdd ==
  ASSUME NEW S, IsFiniteSet(S), NEW x, x \notin S, NEW f, \A y \in S \cup {x} : f[y] \in Int
  PROVE  SumFunctionOnSet(f, S \cup {x}) = f[x] + SumFunctionOnSet(f, S)
<1>1. IsFiniteSet(S \cup {x}) /\ (S \cup {x}) \ {x} = S
  BY FS_AddElement
<1>. QED  BY <1>1, SumTake

(* What is summed is the values on the set.                                *)
LEMMA SumSame ==
  ASSUME NEW S, IsFiniteSet(S), NEW f, NEW g, \A x \in S : f[x] \in Int /\ f[x] = g[x]
  PROVE  SumFunctionOnSet(f, S) = SumFunctionOnSet(g, S)
<1>. DEFINE F == {A \in SUBSET S : SumFunctionOnSet(f, A) = SumFunctionOnSet(g, A)}
<1>1. {} \in F
  BY SumStep, FS_EmptySet
<1>2. ASSUME NEW A \in SUBSET S, NEW x \in S \ A, A \in F PROVE A \cup {x} \in F
  <2>1. IsFiniteSet(A)
    BY FS_Subset
  <2>2. SumFunctionOnSet(f, A \cup {x}) = f[x] + SumFunctionOnSet(f, A) /\ SumFunctionOnSet(g, A \cup {x}) = g[x] + SumFunctionOnSet(g, A)
    BY <2>1, SumAdd
  <2>. QED  BY <1>2, <2>2
<1>. HIDE DEF F
<1>3. S \in F
  BY <1>1, <1>2, FinInd
<1>. QED  BY <1>3 DEF F

(* A sum falls into those over two parts.                                  *)
LEMMA SumSplit ==
  ASSUME NEW S, NEW T, IsFiniteSet(S), IsFiniteSet(T), S \cap T = {},
         NEW f, \A x \in S \cup T : f[x] \in Int
  PROVE  SumFunctionOnSet(f, S \cup T) = SumFunctionOnSet(f, S) + SumFunctionOnSet(f, T)
<1>. DEFINE F == {A \in SUBSET T : SumFunctionOnSet(f, S \cup A) = SumFunctionOnSet(f, S) + SumFunctionOnSet(f, A)}
<1>0. SumFunctionOnSet(f, S) \in Int
  BY SumInt
<1>1. {} \in F
  <2>1. SumFunctionOnSet(f, {}) = 0
    BY SumStep, FS_EmptySet
  <2>2. S \cup {} = S
    OBVIOUS
  <2>. QED  BY <1>0, <2>1, <2>2
<1>2. ASSUME NEW A \in SUBSET T, NEW x \in T \ A, A \in F PROVE A \cup {x} \in F
  <2>1. IsFiniteSet(A) /\ IsFiniteSet(S \cup A)
    BY FS_Subset, FS_Union
  <2>2. SumFunctionOnSet(f, A \cup {x}) = f[x] + SumFunctionOnSet(f, A)
    BY <2>1, SumAdd
  <2>3. SumFunctionOnSet(f, (S \cup A) \cup {x}) = f[x] + SumFunctionOnSet(f, S \cup A)
    BY <2>1, SumAdd
  <2>4. SumFunctionOnSet(f, A) \in Int /\ f[x] \in Int /\ S \cup (A \cup {x}) = (S \cup A) \cup {x}
    BY <2>1, SumInt
  <2>5. SumFunctionOnSet(f, S \cup A) = SumFunctionOnSet(f, S) + SumFunctionOnSet(f, A)
    BY <1>2
  <2>6. SumFunctionOnSet(f, S \cup (A \cup {x})) = SumFunctionOnSet(f, S) + SumFunctionOnSet(f, A \cup {x})
    <3>. DEFINE s == SumFunctionOnSet(f, S)
                a == SumFunctionOnSet(f, A)
                ax == SumFunctionOnSet(f, A \cup {x})
                sax == SumFunctionOnSet(f, S \cup (A \cup {x}))
    <3>1. sax = f[x] + SumFunctionOnSet(f, S \cup A)
      BY <2>3, <2>4, Zenon
    <3>2. s \in Int /\ a \in Int /\ f[x] \in Int /\ ax = f[x] + a /\ sax = f[x] + (s + a)
      BY <1>0, <2>2, <2>4, <2>5, <3>1
    <3>. HIDE DEF s, a, ax, sax
    <3>3. sax = s + ax
      BY <3>2
    <3>. QED  BY <3>3 DEF s, ax, sax
  <2>7. A \cup {x} \in SUBSET T
    BY <1>2
  <2>. QED  BY <2>6, <2>7
<1>. HIDE DEF F
<1>3. T \in F
  BY <1>1, <1>2, FinInd
<1>. QED  BY <1>3 DEF F

(* The largest of finitely many naturals.                                  *)
LEMMA LargestNat ==
  ASSUME NEW T \in SUBSET Nat, IsFiniteSet(T), T # {}
  PROVE  \E s \in T : \A t \in T : t <= s
<1>. DEFINE After(s) == {t \in T : t > s}
            C == {Cardinality(After(s)) : s \in T}
<1>0. \A s \in T : s \in Nat
  OBVIOUS
<1>1. \A s \in T : IsFiniteSet(After(s)) /\ Cardinality(After(s)) \in Nat
  <2>. TAKE s \in T
  <2>1. IsFiniteSet(After(s))
    BY FS_Subset
  <2>. QED  BY <2>1, FS_CardinalityType
<1>2. PICK n \in C : \A m \in C : n <= m
  <2>1. C \subseteq Nat /\ C # {}
    BY <1>1
  <2>. HIDE DEF C
  <2>. QED  BY <2>1, LeastNat
<1>3. PICK s \in T : Cardinality(After(s)) = n
  BY <1>2
<1>4. ASSUME NEW t \in T, t > s PROVE FALSE
  <2>1. After(t) \subseteq After(s) /\ t \in After(s) /\ t \notin After(t)
    <3>1. \A v \in T : v > t => v > s
      BY <1>0, <1>4
    <3>2. ~(t > t)
      BY <1>0
    <3>. QED  BY <1>4, <3>1, <3>2
  <2>2. IsFiniteSet(After(s)) /\ IsFiniteSet(After(t))
    BY <1>1
  <2>. HIDE DEF After
  <2>3. Cardinality(After(t)) # Cardinality(After(s)) /\ Cardinality(After(t)) <= Cardinality(After(s))
    BY <2>1, <2>2, FS_Subset
  <2>. QED  BY <1>1, <1>2, <1>3, <2>3
<1>. QED  BY <1>0, <1>4

(* Of finitely many naturals each rank below their number is taken.        *)
LEMMA RankIsTaken ==
  ASSUME NEW T \in SUBSET Nat, IsFiniteSet(T)
  PROVE  \A k \in Nat : k < Cardinality(T) =>
            \E s \in T : Cardinality({t \in T : t < s}) = k
<1>. DEFINE Below(s) == {t \in T : t < s}
            S == {k \in Nat : k < Cardinality(T) => \E s \in T : Cardinality(Below(s)) = k}
<1>0. \A s \in T : s \in Nat
  OBVIOUS
<1>1. 0 \in S
  <2>1. SUFFICES ASSUME 0 < Cardinality(T) PROVE \E s \in T : Cardinality(Below(s)) = 0
    OBVIOUS
  <2>2. T # {}
    BY <2>1, FS_EmptySet
  <2>3. PICK s \in T : \A t \in T : s <= t
    BY <2>2, LeastNat
  <2>4. Below(s) = {}
    <3>1. \A t \in T : ~(t < s)
      BY <1>0, <2>3
    <3>. QED  BY <3>1
  <2>. QED  BY <2>4, FS_EmptySet
<1>2. ASSUME NEW k \in Nat, k \in S PROVE k + 1 \in S
  <2>1. SUFFICES ASSUME k + 1 < Cardinality(T)
                 PROVE  \E u \in T : Cardinality(Below(u)) = k + 1
    OBVIOUS
  <2>2. PICK s \in T : Cardinality(Below(s)) = k
    BY <1>2, <2>1, FS_CardinalityType
  <2>3. IsFiniteSet(Below(s)) /\ s \notin Below(s)
    BY FS_Subset
  <2>4. IsFiniteSet(Below(s) \cup {s}) /\ Cardinality(Below(s) \cup {s}) = k + 1
    <3>. HIDE DEF Below
    <3>. QED  BY <2>2, <2>3, FS_AddElement
  <2>5. {t \in T : t > s} # {}
    <3>1. SUFFICES ASSUME {t \in T : t > s} = {} PROVE FALSE
      OBVIOUS
    <3>2. \A t \in T : t < s \/ t = s
      BY <1>0, <3>1
    <3>3. T = Below(s) \cup {s}
      BY <3>2
    <3>. QED  BY <2>1, <2>4, <3>3
  <2>6. PICK u \in {t \in T : t > s} : \A v \in {t \in T : t > s} : u <= v
    BY <2>5, LeastNat
  <2>7. Below(u) = Below(s) \cup {s}
    <3>1. \A t \in T : t < u <=> t < s \/ t = s
      BY <1>0, <2>6
    <3>. QED  BY <3>1
  <2>. QED  BY <2>4, <2>6, <2>7
<1>. HIDE DEF S
<1>3. Nat \subseteq S
  BY <1>1, <1>2, NatInd
<1>. QED  BY <1>3 DEF S

LEMMA MaxIsIn ==
  ASSUME NEW T \in SUBSET Nat, IsFiniteSet(T), T # {}
  PROVE  Max(T) \in T
<1>1. PICK s \in T : \A t \in T : t <= s
  BY LargestNat
<1>2. \E x \in T : \A y \in T : x >= y
  BY <1>1
<1>. QED  BY <1>2 DEF Max

-----------------------------------------------------------------------------
(* Ranks in any strict order, given as the set of its pairs.               *)

Below(T, R, x) == {y \in T : <<y, x>> \in R}

(* Ranks grow along the order, and each below the number of elements is    *)
(* taken.                                                                  *)
LEMMA RanksOfAnOrder ==
  ASSUME NEW T, IsFiniteSet(T), NEW R,
         \A x \in T : <<x, x>> \notin R,
         \A x, y, z \in T : <<x, y>> \in R /\ <<y, z>> \in R => <<x, z>> \in R,
         \A x, y \in T : x = y \/ <<x, y>> \in R \/ <<y, x>> \in R
  PROVE  /\ \A x \in T : Cardinality(Below(T, R, x)) \in 0..(Cardinality(T) - 1)
         /\ \A x, y \in T : <<x, y>> \in R => Cardinality(Below(T, R, x)) < Cardinality(Below(T, R, y))
         /\ \A k \in 0..(Cardinality(T) - 1) : \E x \in T : Cardinality(Below(T, R, x)) = k
<1>. DEFINE n == Cardinality(T)
            B(x) == Below(T, R, x)
            rank == [x \in T |-> Cardinality(B(x))]
<1>0. n \in Nat
  BY FS_CardinalityType
<1>1. \A x \in T : /\ IsFiniteSet(B(x)) /\ B(x) \subseteq T /\ x \notin B(x)
                   /\ Cardinality(B(x)) \in 0..(n - 1)
  <2>. TAKE x \in T
  <2>1. B(x) \subseteq T /\ x \notin B(x)
    BY DEF Below
  <2>. HIDE DEF B
  <2>2. IsFiniteSet(B(x)) /\ Cardinality(B(x)) <= n /\ Cardinality(B(x)) # n
    BY <2>1, FS_Subset
  <2>3. Cardinality(B(x)) \in Nat
    BY <2>2, FS_CardinalityType
  <2>. QED  BY <1>0, <2>1, <2>2, <2>3
<1>2. \A x, y \in T : <<x, y>> \in R => Cardinality(B(x)) < Cardinality(B(y))
  <2>. TAKE x, y \in T
  <2>1. SUFFICES ASSUME <<x, y>> \in R PROVE Cardinality(B(x)) < Cardinality(B(y))
    OBVIOUS
  <2>2. B(x) \subseteq B(y) /\ x \in B(y) /\ x \notin B(x)
    BY <1>1, <2>1 DEF Below
  <2>3. IsFiniteSet(B(y)) /\ Cardinality(B(x)) \in Nat /\ Cardinality(B(y)) \in Nat
    BY <1>1
  <2>. HIDE DEF B
  <2>4. Cardinality(B(x)) <= Cardinality(B(y)) /\ Cardinality(B(x)) # Cardinality(B(y))
    BY <2>2, <2>3, FS_Subset
  <2>. QED  BY <2>3, <2>4
<1>3. \A x, y \in T : x # y => Cardinality(B(x)) # Cardinality(B(y))
  <2>. TAKE x, y \in T
  <2>1. SUFFICES ASSUME x # y PROVE Cardinality(B(x)) # Cardinality(B(y))
    OBVIOUS
  <2>2. Cardinality(B(x)) \in Int /\ Cardinality(B(y)) \in Int
    BY <1>1
  <2>. HIDE DEF B
  <2>3. Cardinality(B(x)) < Cardinality(B(y)) \/ Cardinality(B(y)) < Cardinality(B(x))
    BY <1>2, <2>1
  <2>. QED  BY <2>2, <2>3
<1>. HIDE DEF B
<1>4. rank \in Injection(T, 0..(n - 1))
  BY <1>1, <1>3 DEF Injection, IsInjective
<1>5. IsFiniteSet(0..(n - 1)) /\ Cardinality(0..(n - 1)) = n
  <2>1. 0 \in Int /\ n - 1 \in Int /\ (n - 1) - 0 + 1 = n /\ (0 > n - 1 => n = 0)
    BY <1>0
  <2>. HIDE DEF n
  <2>. QED  BY <2>1, FS_Interval
<1>6. rank \in Surjection(T, 0..(n - 1))
  BY <1>4, <1>5, FS_Injection
<1>7. \A k \in 0..(n - 1) : \E x \in T : Cardinality(B(x)) = k
  BY <1>6 DEF Surjection
<1>. QED  BY <1>1, <1>2, <1>7 DEF B

(* The places of some numbers, in their order.                             *)
Place(I, n) == CHOOSE i \in I : Cardinality({j \in I : j < i}) = n - 1

LEMMA PlacesAreAll ==
  ASSUME NEW I \in SUBSET Nat, IsFiniteSet(I)
  PROVE  /\ \A n \in 1..Cardinality(I) : Place(I, n) \in I
         /\ \A i \in I : \E n \in 1..Cardinality(I) : Place(I, n) = i
         /\ \A m, n \in 1..Cardinality(I) : m < n => Place(I, m) < Place(I, n)
         /\ \A m, n \in 1..Cardinality(I) : Place(I, m) = Place(I, n) => m = n
<1>. DEFINE R == {z \in I \X I : z[1] < z[2]}
            B(i) == Below(I, R, i)
            N == Cardinality(I)
<1>0. N \in Nat /\ \A i \in I : i \in Nat
  BY FS_CardinalityType
<1>1. \A x, y \in I : <<x, y>> \in R <=> x < y
  OBVIOUS
<1>2. \A i \in I : B(i) = {j \in I : j < i}
  BY <1>1 DEF Below
<1>. HIDE DEF R
<1>3. /\ \A x \in I : <<x, x>> \notin R
      /\ \A x, y, z \in I : <<x, y>> \in R /\ <<y, z>> \in R => <<x, z>> \in R
      /\ \A x, y \in I : x = y \/ <<x, y>> \in R \/ <<y, x>> \in R
  BY <1>0, <1>1
<1>4. /\ \A x \in I : Cardinality(B(x)) \in 0..(N - 1)
      /\ \A x, y \in I : <<x, y>> \in R => Cardinality(B(x)) < Cardinality(B(y))
      /\ \A k \in 0..(N - 1) : \E x \in I : Cardinality(B(x)) = k
  BY <1>3, RanksOfAnOrder
<1>. HIDE DEF B
<1>5. \A n : Place(I, n) = CHOOSE i \in I : Cardinality(B(i)) = n - 1
  BY <1>2 DEF Place
<1>6. \A n \in 1..N : Place(I, n) \in I /\ Cardinality(B(Place(I, n))) = n - 1
  <2>. TAKE n \in 1..N
  <2>1. n - 1 \in 0..(N - 1)
    BY <1>0
  <2>2. \E x \in I : Cardinality(B(x)) = n - 1
    BY <1>4, <2>1
  <2>. QED  BY <1>5, <2>2
<1>7. \A x, y \in I : Cardinality(B(x)) = Cardinality(B(y)) => x = y
  <2>. TAKE x, y \in I
  <2>1. SUFFICES ASSUME Cardinality(B(x)) = Cardinality(B(y)), x # y PROVE FALSE
    OBVIOUS
  <2>2. Cardinality(B(x)) \in Int /\ Cardinality(B(y)) \in Int
    BY <1>4
  <2>3. ~(Cardinality(B(x)) < Cardinality(B(y))) /\ ~(Cardinality(B(y)) < Cardinality(B(x)))
    BY <2>1, <2>2
  <2>4. <<x, y>> \notin R /\ <<y, x>> \notin R
    BY <1>4, <2>3
  <2>. QED  BY <1>3, <2>1, <2>4
<1>8. \A i \in I : \E n \in 1..N : Place(I, n) = i
  <2>. TAKE i \in I
  <2>. DEFINE n == Cardinality(B(i)) + 1
  <2>1. n \in 1..N /\ n - 1 = Cardinality(B(i))
    BY <1>0, <1>4
  <2>. HIDE DEF n
  <2>2. Place(I, n) = i
    BY <1>6, <1>7, <2>1
  <2>. QED  BY <2>1, <2>2
<1>9. \A m, n \in 1..N : m < n => Place(I, m) < Place(I, n)
  <2>. TAKE m, n \in 1..N
  <2>1. SUFFICES ASSUME m < n PROVE Place(I, m) < Place(I, n)
    OBVIOUS
  <2>. DEFINE x == Place(I, m)
              y == Place(I, n)
  <2>2. /\ x \in I /\ y \in I /\ x \in Nat /\ y \in Nat
        /\ Cardinality(B(x)) = m - 1 /\ Cardinality(B(y)) = n - 1
    BY <1>0, <1>6
  <2>. HIDE DEF x, y
  <2>3. ~(Cardinality(B(y)) < Cardinality(B(x))) /\ x # y
    BY <1>0, <2>1, <2>2
  <2>4. ~(y < x)
    BY <1>1, <1>4, <2>2, <2>3
  <2>5. x < y
    BY <2>2, <2>3, <2>4
  <2>. QED  BY <2>5 DEF x, y
<1>10. \A m, n \in 1..N : Place(I, m) = Place(I, n) => m = n
  BY <1>0, <1>6
<1>. QED  BY <1>6, <1>8, <1>9, <1>10

-----------------------------------------------------------------------------
(* Sums and rankings.                                                      *)

(* Those ahead of x by score f, then by number.                            *)
Leading(T, f, x) == {y \in T : f[y] > f[x] \/ (f[y] = f[x] /\ y < x)}

Nth(T, f, i) == CHOOSE x \in T : Cardinality(Leading(T, f, x)) = i - 1

(* A ranking is of the whole set, each once, and the scores descend.       *)
LEMMA RanksAreAll ==
  ASSUME NEW T \in SUBSET Nat, IsFiniteSet(T), NEW f, \A x \in T : f[x] \in Int
  PROVE  /\ \A i \in 1..Cardinality(T) : Nth(T, f, i) \in T
         /\ \A x \in T : \E i \in 1..Cardinality(T) : Nth(T, f, i) = x
         /\ \A i, j \in 1..Cardinality(T) : i # j => Nth(T, f, i) # Nth(T, f, j)
         /\ \A i, j \in 1..Cardinality(T) : i < j => f[Nth(T, f, i)] >= f[Nth(T, f, j)]
<1>. DEFINE n == Cardinality(T)
            R == {p \in T \X T : f[p[1]] > f[p[2]] \/ (f[p[1]] = f[p[2]] /\ p[1] < p[2])}
            B(x) == Below(T, R, x)
<1>0. n \in Nat /\ \A x \in T : x \in Nat
  BY FS_CardinalityType
<1>1. \A x, y \in T : <<x, y>> \in R <=> (f[x] > f[y] \/ (f[x] = f[y] /\ x < y))
  OBVIOUS
<1>2. \A x \in T : B(x) = Leading(T, f, x)
  BY <1>1 DEF Below, Leading
<1>. HIDE DEF R
<1>3. /\ \A x \in T : <<x, x>> \notin R
      /\ \A x, y, z \in T : <<x, y>> \in R /\ <<y, z>> \in R => <<x, z>> \in R
      /\ \A x, y \in T : x = y \/ <<x, y>> \in R \/ <<y, x>> \in R
  <2>1. \A x \in T : <<x, x>> \notin R
    BY <1>0, <1>1
  <2>2. ASSUME NEW x \in T, NEW y \in T, NEW z \in T, <<x, y>> \in R, <<y, z>> \in R
        PROVE  <<x, z>> \in R
    <3>1. /\ f[x] \in Int /\ f[y] \in Int /\ f[z] \in Int
          /\ x \in Nat /\ y \in Nat /\ z \in Nat
      BY <1>0
    <3>2. /\ f[x] > f[y] \/ (f[x] = f[y] /\ x < y)
          /\ f[y] > f[z] \/ (f[y] = f[z] /\ y < z)
      BY <1>1, <2>2
    <3>3. f[x] > f[z] \/ (f[x] = f[z] /\ x < z)
      BY <3>1, <3>2
    <3>. QED  BY <1>1, <3>3
  <2>3. ASSUME NEW x \in T, NEW y \in T
        PROVE  x = y \/ <<x, y>> \in R \/ <<y, x>> \in R
    <3>1. f[x] \in Int /\ f[y] \in Int /\ x \in Nat /\ y \in Nat
      BY <1>0
    <3>2. \/ x = y
          \/ f[x] > f[y] \/ (f[x] = f[y] /\ x < y)
          \/ f[y] > f[x] \/ (f[y] = f[x] /\ y < x)
      BY <3>1
    <3>. QED  BY <1>1, <3>2
  <2>. QED  BY <2>1, <2>2, <2>3
<1>4. /\ \A x \in T : Cardinality(B(x)) \in 0..(n - 1)
      /\ \A x, y \in T : <<x, y>> \in R => Cardinality(B(x)) < Cardinality(B(y))
      /\ \A k \in 0..(n - 1) : \E x \in T : Cardinality(B(x)) = k
  BY <1>3, RanksOfAnOrder
<1>. HIDE DEF B
<1>5. \A i : Nth(T, f, i) = CHOOSE x \in T : Cardinality(B(x)) = i - 1
  BY <1>2 DEF Nth
<1>6. \A i \in 1..n : Nth(T, f, i) \in T /\ Cardinality(B(Nth(T, f, i))) = i - 1
  <2>. TAKE i \in 1..n
  <2>1. i - 1 \in 0..(n - 1)
    BY <1>0
  <2>2. \E x \in T : Cardinality(B(x)) = i - 1
    BY <1>4, <2>1
  <2>. QED  BY <1>5, <2>2
<1>7. \A x, y \in T : Cardinality(B(x)) = Cardinality(B(y)) => x = y
  <2>. TAKE x, y \in T
  <2>1. SUFFICES ASSUME Cardinality(B(x)) = Cardinality(B(y)), x # y PROVE FALSE
    OBVIOUS
  <2>2. Cardinality(B(x)) \in Int /\ Cardinality(B(y)) \in Int
    BY <1>4
  <2>3. ~(Cardinality(B(x)) < Cardinality(B(y))) /\ ~(Cardinality(B(y)) < Cardinality(B(x)))
    BY <2>1, <2>2
  <2>. QED  BY <1>3, <1>4, <2>1, <2>3
<1>8. \A x \in T : \E i \in 1..n : Nth(T, f, i) = x
  <2>. TAKE x \in T
  <2>. DEFINE i == Cardinality(B(x)) + 1
  <2>1. i \in 1..n /\ i - 1 = Cardinality(B(x))
    BY <1>0, <1>4
  <2>. HIDE DEF i
  <2>2. Nth(T, f, i) = x
    BY <1>6, <1>7, <2>1
  <2>. QED  BY <2>1, <2>2
<1>9. ASSUME NEW i \in 1..n, NEW j \in 1..n
      PROVE  /\ i # j => Nth(T, f, i) # Nth(T, f, j)
             /\ i < j => f[Nth(T, f, i)] >= f[Nth(T, f, j)]
  <2>. DEFINE x == Nth(T, f, i)
              y == Nth(T, f, j)
  <2>1. /\ x \in T /\ y \in T /\ f[x] \in Int /\ f[y] \in Int
        /\ Cardinality(B(x)) = i - 1 /\ Cardinality(B(y)) = j - 1
    BY <1>6
  <2>. HIDE DEF x, y
  <2>2. i # j => x # y
    BY <1>0, <2>1
  <2>3. i < j => f[x] >= f[y]
    <3>1. SUFFICES ASSUME i < j, f[y] > f[x] PROVE FALSE
      BY <2>1
    <3>2. <<y, x>> \in R
      BY <1>1, <2>1, <3>1
    <3>3. j - 1 < i - 1
      BY <1>4, <2>1, <3>2
    <3>. QED  BY <1>0, <3>1, <3>3
  <2>. QED  BY <2>2, <2>3 DEF x, y
<1>10. /\ \A i, j \in 1..n : i # j => Nth(T, f, i) # Nth(T, f, j)
       /\ \A i, j \in 1..n : i < j => f[Nth(T, f, i)] >= f[Nth(T, f, j)]
  BY <1>9
<1>. QED  BY <1>6, <1>8, <1>10

(* Somebody is first of a set.                                             *)
LEMMA SomebodyIsFirst ==
  ASSUME NEW T \in SUBSET Nat, IsFiniteSet(T), T # {}, NEW f, \A x \in T : f[x] \in Int
  PROVE  \E x \in T : \A y \in T \ {x} : f[x] > f[y] \/ (f[x] = f[y] /\ x < y)
<1>. DEFINE F == {A \in SUBSET T : A = {} \/ \E x \in A : \A y \in A \ {x} : f[x] > f[y] \/ (f[x] = f[y] /\ x < y)}
<1>1. {} \in F
  OBVIOUS
<1>2. ASSUME NEW A \in SUBSET T, NEW z \in T \ A, A \in F PROVE A \cup {z} \in F
  <2>1. CASE A = {}
    BY <2>1
  <2>2. CASE A # {}
    <3>1. PICK x \in A : \A y \in A \ {x} : f[x] > f[y] \/ (f[x] = f[y] /\ x < y)
      BY <1>2, <2>2
    <3>2. f[x] \in Int /\ f[z] \in Int /\ x \in Nat /\ z \in Nat /\ x # z
      BY <1>2
    <3>3. CASE f[x] > f[z] \/ (f[x] = f[z] /\ x < z)
      <4>1. \A y \in (A \cup {z}) \ {x} : f[x] > f[y] \/ (f[x] = f[y] /\ x < y)
        BY <3>1, <3>3
      <4>. QED  BY <4>1
    <3>4. CASE f[z] > f[x] \/ (f[z] = f[x] /\ z < x)
      <4>1. ASSUME NEW y \in A PROVE f[z] > f[y] \/ (f[z] = f[y] /\ z < y)
        <5>1. f[y] \in Int /\ y \in Nat
          OBVIOUS
        <5>2. y = x \/ f[x] > f[y] \/ (f[x] = f[y] /\ x < y)
          BY <3>1
        <5>. QED  BY <3>2, <3>4, <5>1, <5>2
      <4>. QED  BY <4>1
    <3>. QED  BY <3>2, <3>3, <3>4
  <2>. QED  BY <2>1, <2>2
<1>. HIDE DEF F
<1>3. T \in F
  BY <1>1, <1>2, FinInd
<1>. QED  BY <1>3 DEF F

(* The largest of some numbers.                                            *)
LEMMA MaxOfNumbers ==
  ASSUME NEW T \in SUBSET Int, IsFiniteSet(T), T # {}
  PROVE  Max(T) \in T /\ \A y \in T : Max(T) >= y
<1>. DEFINE F == {A \in SUBSET T : A = {} \/ \E x \in A : \A y \in A : x >= y}
<1>1. {} \in F
  OBVIOUS
<1>2. ASSUME NEW A \in SUBSET T, NEW z \in T \ A, A \in F PROVE A \cup {z} \in F
  <2>1. CASE A = {}
    BY <2>1
  <2>2. CASE A # {}
    <3>1. PICK x \in A : \A y \in A : x >= y
      BY <1>2, <2>2
    <3>2. x \in Int /\ z \in Int /\ \A y \in A : y \in Int
      BY <1>2
    <3>3. CASE x >= z
      BY <3>1, <3>3
    <3>4. CASE z >= x
      <4>1. \A y \in A : z >= y
        BY <3>1, <3>2, <3>4
      <4>. QED  BY <3>2, <4>1
    <3>. QED  BY <3>2, <3>3, <3>4
  <2>. QED  BY <2>1, <2>2
<1>. HIDE DEF F
<1>3. T \in F
  BY <1>1, <1>2, FinInd
<1>4. \E x \in T : \A y \in T : x >= y
  BY <1>3 DEF F
<1>. QED  BY <1>4 DEF Max

(* As many numbers, none of them smaller, come to no less.                 *)
LEMMA Outweighs ==
  ASSUME NEW S, IsFiniteSet(S), NEW f, \A x \in S : f[x] \in Int,
         NEW A \in SUBSET S, NEW B \in SUBSET S, Cardinality(A) = Cardinality(B),
         \A a \in A, b \in B : f[a] >= f[b]
  PROVE  SumFunctionOnSet(f, A) >= SumFunctionOnSet(f, B)
<1>. DEFINE P(k) == \A X, Y \in SUBSET S :
               (Cardinality(X) = k /\ Cardinality(Y) = k /\ (\A a \in X, b \in Y : f[a] >= f[b]))
                 => SumFunctionOnSet(f, X) >= SumFunctionOnSet(f, Y)
            K == {k \in Nat : P(k)}
<1>0. \A X \in SUBSET S : /\ IsFiniteSet(X) /\ Cardinality(X) \in Nat /\ (Cardinality(X) = 0 <=> X = {})
                          /\ \A x \in X : f[x] \in Int
  BY FS_Subset, FS_CardinalityType, FS_EmptySet
<1>1. 0 \in K
  <2>1. SumFunctionOnSet(f, {}) = 0
    BY SumStep, FS_EmptySet
  <2>. QED  BY <1>0, <2>1
<1>2. ASSUME NEW k \in Nat, k \in K PROVE k + 1 \in K
  <2>1. SUFFICES ASSUME NEW X \in SUBSET S, NEW Y \in SUBSET S, Cardinality(X) = k + 1, Cardinality(Y) = k + 1,
                        \A a \in X, b \in Y : f[a] >= f[b]
                 PROVE  SumFunctionOnSet(f, X) >= SumFunctionOnSet(f, Y)
    OBVIOUS
  <2>2. PICK x \in X : TRUE
    BY <1>0, <2>1
  <2>3. PICK y \in Y : TRUE
    BY <1>0, <2>1
  <2>4. /\ X \ {x} \in SUBSET S /\ Cardinality(X \ {x}) = k
        /\ Y \ {y} \in SUBSET S /\ Cardinality(Y \ {y}) = k
    <3>1. Cardinality(X \ {x}) = Cardinality(X) - 1 /\ Cardinality(Y \ {y}) = Cardinality(Y) - 1
      BY <1>0, FS_RemoveElement
    <3>. QED  BY <2>1, <3>1
  <2>5. SumFunctionOnSet(f, X \ {x}) >= SumFunctionOnSet(f, Y \ {y})
    BY <1>2, <2>1, <2>4
  <2>6. /\ SumFunctionOnSet(f, X) = f[x] + SumFunctionOnSet(f, X \ {x})
        /\ SumFunctionOnSet(f, Y) = f[y] + SumFunctionOnSet(f, Y \ {y})
    BY <1>0, SumTake
  <2>7. SumFunctionOnSet(f, X \ {x}) \in Int /\ SumFunctionOnSet(f, Y \ {y}) \in Int
    BY <1>0, <2>4, SumInt
  <2>8. f[x] >= f[y] /\ f[x] \in Int /\ f[y] \in Int
    BY <1>0, <2>1
  <2>. QED  BY <2>5, <2>6, <2>7, <2>8
<1>. HIDE DEF K
<1>3. \A k \in Nat : k \in K
  BY <1>1, <1>2, NatInd
<1>. QED  BY <1>0, <1>3 DEF K

(* The first n of a ranking are n.                                         *)
LEMMA TheFirst ==
  ASSUME NEW T \in SUBSET Nat, IsFiniteSet(T), NEW f, \A x \in T : f[x] \in Int,
         NEW n \in 0..Cardinality(T), NEW A, A = {Nth(T, f, i) : i \in 1..n}
  PROVE  /\ A \subseteq T /\ Cardinality(A) = n
         /\ \A a \in A, b \in T \ A : f[a] >= f[b]
<1>. DEFINE N == Cardinality(T)
<1>0. N \in Nat /\ n \in Nat /\ n <= N /\ \A i \in 1..n : i \in 1..N
  BY FS_CardinalityType
<1>1. /\ \A i \in 1..N : Nth(T, f, i) \in T
      /\ \A x \in T : \E i \in 1..N : Nth(T, f, i) = x
      /\ \A i, j \in 1..N : i # j => Nth(T, f, i) # Nth(T, f, j)
      /\ \A i, j \in 1..N : i < j => f[Nth(T, f, i)] >= f[Nth(T, f, j)]
  BY RanksAreAll
<1>. HIDE DEF N
<1>2. A \subseteq T
  BY <1>0, <1>1
<1>3. Cardinality(A) = n
  <2>. DEFINE g == [i \in 1..n |-> Nth(T, f, i)]
  <2>1. g \in Bijection(1..n, A)
    BY <1>0, <1>1 DEF Bijection, Injection, IsInjective, Surjection
  <2>. HIDE DEF g
  <2>2. ExistsBijection(1..n, A)
    BY <2>1 DEF ExistsBijection
  <2>. QED  BY <1>0, <2>2, FS_CountingElements
<1>4. ASSUME NEW a \in A, NEW b \in T \ A PROVE f[a] >= f[b]
  <2>1. PICK i \in 1..n : a = Nth(T, f, i)
    OBVIOUS
  <2>2. PICK j \in 1..N : b = Nth(T, f, j)
    BY <1>1
  <2>3. ~(j <= n)
    BY <1>4, <2>2
  <2>4. i \in 1..N /\ i < j
    BY <1>0, <2>3
  <2>. QED  BY <1>1, <2>1, <2>2, <2>4
<1>. QED  BY <1>2, <1>3, <1>4

(* They come to no less than any other n.                                  *)
LEMMA TheFirstOutweigh ==
  ASSUME NEW T \in SUBSET Nat, IsFiniteSet(T), NEW f, \A x \in T : f[x] \in Int,
         NEW n \in 0..Cardinality(T), NEW B \in SUBSET T, Cardinality(B) = n,
         NEW A, A = {Nth(T, f, i) : i \in 1..n}
  PROVE  SumFunctionOnSet(f, A) >= SumFunctionOnSet(f, B)
<1>1. /\ A \subseteq T /\ Cardinality(A) = n
      /\ \A a \in A, b \in T \ A : f[a] >= f[b]
  BY TheFirst
<1>2. /\ IsFiniteSet(A) /\ IsFiniteSet(B) /\ IsFiniteSet(A \cap B) /\ IsFiniteSet(A \ B) /\ IsFiniteSet(B \ A)
  BY <1>1, FS_Subset
<1>3. Cardinality(A \ B) = Cardinality(B \ A)
  <2>1. /\ Cardinality(A \ B) = Cardinality(A) - Cardinality(A \cap B)
        /\ Cardinality(B \ A) = Cardinality(B) - Cardinality(B \cap A)
    BY <1>2, FS_Difference
  <2>2. A \cap B = B \cap A
    OBVIOUS
  <2>. QED  BY <1>1, <2>1, <2>2
<1>4. SumFunctionOnSet(f, A \ B) >= SumFunctionOnSet(f, B \ A)
  <2>1. A \ B \in SUBSET T /\ B \ A \in SUBSET T /\ \A a \in A \ B, b \in B \ A : f[a] >= f[b]
    BY <1>1
  <2>. QED  BY <1>3, <2>1, Outweighs
<1>5. /\ SumFunctionOnSet(f, (A \cap B) \cup (A \ B))
           = SumFunctionOnSet(f, A \cap B) + SumFunctionOnSet(f, A \ B)
      /\ SumFunctionOnSet(f, (A \cap B) \cup (B \ A))
           = SumFunctionOnSet(f, A \cap B) + SumFunctionOnSet(f, B \ A)
  <2>1. /\ (A \cap B) \cap (A \ B) = {} /\ (A \cap B) \cap (B \ A) = {}
        /\ \A x \in (A \cap B) \cup (A \ B) : f[x] \in Int
        /\ \A x \in (A \cap B) \cup (B \ A) : f[x] \in Int
    BY <1>1
  <2>. QED  BY <1>2, <2>1, SumSplit
<1>6. (A \cap B) \cup (A \ B) = A /\ (A \cap B) \cup (B \ A) = B
  OBVIOUS
<1>7. /\ SumFunctionOnSet(f, A \cap B) \in Int /\ SumFunctionOnSet(f, A \ B) \in Int
       /\ SumFunctionOnSet(f, B \ A) \in Int
  <2>1. (\A x \in A \cap B : f[x] \in Int) /\ (\A x \in A \ B : f[x] \in Int) /\ (\A x \in B \ A : f[x] \in Int)
    BY <1>1
  <2>. QED  BY <1>2, <2>1, SumInt
<1>. QED  BY <1>4, <1>5, <1>6, <1>7

=============================================================================
