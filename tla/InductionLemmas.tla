--------------------------- MODULE InductionLemmas ---------------------------
(***************************************************************************)
(* Induction over the natural numbers and definition by recursion, stated  *)
(* about sets and functions, and with them sums over finite sets.  The     *)
(* library's theorems about induction take an operator as a parameter;     *)
(* these follow from the least element of a set.                           *)
(***************************************************************************)
EXTENDS Integers, Functions, FiniteSetTheorems, WellFoundedInduction, TLAPS

\* A non-empty set of natural numbers has a least element.
LEMMA LeastNat ==
    ASSUME NEW T \in SUBSET Nat, T # {}
    PROVE  \E x \in T : \A y \in T : x <= y
<1> DEFINE R == OpToRel(<, Nat)
<1>1. IsWellFoundedOn(R, Nat)
  BY NatLessThanWellFounded
<1>2. \A x, y \in Nat : <<x, y>> \in R <=> x < y
  BY DEF OpToRel
<1> HIDE DEF R
<1>3. PICK x \in T : \A y \in T : ~ (<<y, x>> \in R)
  BY <1>1, WFMin
<1>4. ASSUME NEW y \in T PROVE x <= y
  <2>1. x \in Nat /\ y \in Nat
    OBVIOUS
  <2>2. ~ (y < x)
    BY <1>2, <1>3, <2>1
  <2> QED
    BY <2>1, <2>2
<1> QED
  BY <1>4

\* Induction: a set with 0 and the successors of its numbers has all numbers.
LEMMA SetInduction ==
    ASSUME NEW S, 0 \in S, \A n \in Nat : n \in S => n + 1 \in S
    PROVE  Nat \subseteq S
<1> DEFINE T == {n \in Nat : n \notin S}
<1> SUFFICES ASSUME T # {} PROVE FALSE
  OBVIOUS
<1>1. PICK x \in T : \A y \in T : x <= y
  BY LeastNat
<1>2. x # 0 /\ x \in Nat
  OBVIOUS
<1>3. x - 1 \in Nat /\ x - 1 \notin T /\ x = (x - 1) + 1
  BY <1>1, <1>2
<1> QED
  BY <1>3

\* f has been iterated up to n: the first value is base, and step makes the
\* next one of the number and the value of the last.
IteratesUpTo(f, base, step, n) ==
    f[0] = base /\ \A k \in 0 .. n - 1 : f[k + 1] = step[k][f[k]]

\* Iterations of different length agree as far as both go.
LEMMA IteratesAgree ==
    ASSUME NEW f, NEW g, NEW base, NEW step, NEW m \in Nat, NEW n \in Nat,
           m <= n, IteratesUpTo(f, base, step, m), IteratesUpTo(g, base, step, n)
    PROVE  f[m] = g[m]
<1> DEFINE S == {k \in Nat : k <= m => f[k] = g[k]}
<1>1. 0 \in S
  BY DEF IteratesUpTo
<1>2. ASSUME NEW k \in Nat, k \in S PROVE k + 1 \in S
  <2> SUFFICES ASSUME k + 1 <= m PROVE f[k + 1] = g[k + 1]
    OBVIOUS
  <2>1. k \in 0 .. m - 1 /\ k \in 0 .. n - 1 /\ k <= m
    OBVIOUS
  <2> QED
    BY <1>2, <2>1 DEF IteratesUpTo
<1> HIDE DEF S
<1>3. m \in S
  BY <1>1, <1>2, SetInduction
<1> QED
  BY <1>3 DEF S

Iterates(f, base, step) ==
    f[0] = base /\ \A k \in Nat : f[k + 1] = step[k][f[k]]

\* Definition by recursion: a step function can be iterated for ever.
LEMMA IteratesExist ==
    ASSUME NEW T, NEW base \in T, NEW step \in [Nat -> [T -> T]]
    PROVE  \E f \in [Nat -> T] : Iterates(f, base, step)
<1> DEFINE Goes(f, n) == IteratesUpTo(f, base, step, n)
           S == {n \in Nat : \E f \in [Nat -> T] : Goes(f, n)}
<1>1. 0 \in S
  <2>1. [k \in Nat |-> base] \in [Nat -> T] /\ Goes([k \in Nat |-> base], 0)
    BY DEF IteratesUpTo
  <2> QED
    BY <2>1
<1>2. ASSUME NEW n \in Nat, n \in S PROVE n + 1 \in S
  <2>1. PICK f \in [Nat -> T] : Goes(f, n)
    BY <1>2
  <2> DEFINE g == [k \in Nat |-> IF k <= n THEN f[k] ELSE step[n][f[n]]]
  <2>2. g \in [Nat -> T]
    BY <2>1
  <2>3. ASSUME NEW k \in 0 .. n PROVE g[k + 1] = step[k][g[k]]
    <3>1. CASE k = n
      BY <3>1
    <3>2. CASE k < n
      BY <2>1, <3>2 DEF IteratesUpTo
    <3> QED
      BY <3>1, <3>2
  <2>4. Goes(g, n + 1)
    BY <2>1, <2>3 DEF IteratesUpTo
  <2> QED
    BY <2>2, <2>4
<1> HIDE DEF S
<1>3. Nat \subseteq S
  BY <1>1, <1>2, SetInduction
<1> DEFINE it == [n \in Nat |-> CHOOSE f \in [Nat -> T] : Goes(f, n)]
           limit == [n \in Nat |-> it[n][n]]
<1>4. \A n \in Nat : it[n] \in [Nat -> T] /\ Goes(it[n], n)
  BY <1>3 DEF S
<1>5. limit \in [Nat -> T] /\ limit[0] = base
  BY <1>4 DEF IteratesUpTo
<1>6. ASSUME NEW k \in Nat PROVE limit[k + 1] = step[k][limit[k]]
  <2>1. it[k][k] = it[k + 1][k]
    <3>1. /\ Goes(it[k], k) /\ Goes(it[k + 1], k + 1)
          /\ k + 1 \in Nat /\ k <= k + 1
      BY <1>4
    <3> HIDE DEF it
    <3> QED
      BY <3>1, IteratesAgree
  <2>2. it[k + 1][k + 1] = step[k][it[k + 1][k]]
    <3>1. Goes(it[k + 1], k + 1) /\ k \in 0 .. (k + 1) - 1
      BY <1>4
    <3> QED
      BY <3>1 DEF IteratesUpTo
  <2> HIDE DEF it
  <2>3. limit[k] = it[k][k] /\ limit[k + 1] = it[k + 1][k + 1]
    OBVIOUS
  <2> QED
    BY <2>1, <2>2, <2>3
<1>7. Iterates(limit, base, step)
  BY <1>5, <1>6 DEF Iterates
<1> QED
  BY <1>5, <1>7

-----------------------------------------------------------------------------
(* Sums over finite sets.                                                  *)

\* How the fold over a finite set takes it apart: acc has a value for each part
\* of the set, found by removing the elements in the order of a CHOOSE.
Taken(s) == CHOOSE x \in s : TRUE

Accumulates(acc, f, S) ==
    acc = [s \in SUBSET S |-> IF s = {} THEN 0
                              ELSE f[Taken(s)] + acc[s \ {Taken(s)}]]

LEMMA SumIsAccumulated ==
    ASSUME NEW f, NEW S
    PROVE  SumFunctionOnSet(f, S) = (CHOOSE acc : Accumulates(acc, f, S))[S]
BY DEF SumFunctionOnSet, FoldFunctionOnSet, MapThenFoldSet, Accumulates, Taken

\* Such values exist, and are natural numbers if those of f are.
LEMMA AccumulationExists ==
    ASSUME NEW S, IsFiniteSet(S), NEW f, \A x \in S : f[x] \in Nat
    PROVE  \E acc \in [SUBSET S -> Nat] : Accumulates(acc, f, S)
<1> DEFINE T == [SUBSET S -> Nat]
           base == [s \in SUBSET S |-> 0]
           Next(g) == [s \in SUBSET S |->
                          IF s = {} THEN 0 ELSE f[Taken(s)] + g[s \ {Taken(s)}]]
           step == [n \in Nat |-> [g \in T |-> Next(g)]]
<1>1. \A s \in SUBSET S : s # {} => Taken(s) \in s
  BY DEF Taken
<1>2. base \in T /\ step \in [Nat -> [T -> T]]
  <2>1. ASSUME NEW g \in T PROVE Next(g) \in T
    <3>1. ASSUME NEW s \in SUBSET S, s # {}
          PROVE  f[Taken(s)] + g[s \ {Taken(s)}] \in Nat
      <4>1. f[Taken(s)] \in Nat /\ s \ {Taken(s)} \in SUBSET S
        BY <1>1, <3>1
      <4>2. g[s \ {Taken(s)}] \in Nat
        BY <4>1
      <4> QED
        BY <4>1, <4>2
    <3> QED
      BY <3>1
  <2> HIDE DEF Next
  <2> QED
    BY <2>1
<1> HIDE DEF T, base, step
<1>3. PICK h \in [Nat -> T] : Iterates(h, base, step)
  BY <1>2, IteratesExist
<1> DEFINE acc == [s \in SUBSET S |-> h[Cardinality(s)][s]]
<1>4. \A s \in SUBSET S : IsFiniteSet(s) /\ Cardinality(s) \in Nat
  BY FS_Subset, FS_CardinalityType
<1>5. acc \in [SUBSET S -> Nat]
  BY <1>3, <1>4 DEF T
<1>6. ASSUME NEW s \in SUBSET S
      PROVE  acc[s] = IF s = {} THEN 0 ELSE f[Taken(s)] + acc[s \ {Taken(s)}]
  <2>1. CASE s = {}
    BY <1>3, <2>1, FS_EmptySet DEF Iterates, base
  <2>2. CASE s # {}
    <3> DEFINE n == Cardinality(s) - 1
               r == s \ {Taken(s)}
    <3>1. r \in SUBSET S /\ Cardinality(r) = n /\ n \in Nat /\ Cardinality(s) = n + 1
      BY <1>1, <1>4, <2>2, FS_RemoveElement
    <3>2. h[n + 1] = step[n][h[n]] /\ h[n] \in T
      BY <1>3, <3>1 DEF Iterates
    <3>3. h[n + 1][s] = f[Taken(s)] + h[n][r]
      BY <2>2, <3>1, <3>2 DEF step
    <3> HIDE DEF n, r
    <3>4. acc[s] = h[n + 1][s] /\ acc[r] = h[n][r]
      BY <3>1
    <3> QED
      BY <2>2, <3>3, <3>4 DEF r
  <2> QED
    BY <2>1, <2>2
<1>7. Accumulates(acc, f, S)
  <2> HIDE DEF acc
  <2> DEFINE E(s) == IF s = {} THEN 0 ELSE f[Taken(s)] + acc[s \ {Taken(s)}]
  <2>1. acc = [s \in SUBSET S |-> acc[s]]
    BY <1>5
  <2>2. \A s \in SUBSET S : acc[s] = E(s)
    BY <1>6
  <2> HIDE DEF E
  <2>3. acc = [s \in SUBSET S |-> E(s)]
    BY <2>1, <2>2
  <2> QED
    BY <2>3 DEF Accumulates, E
<1> QED
  BY <1>5, <1>7

\* They do not depend on the set that is taken apart.
LEMMA AccumulationsAgree ==
    ASSUME NEW f, NEW S, NEW T, NEW a, NEW b,
           Accumulates(a, f, S), Accumulates(b, f, T),
           NEW s \in SUBSET (S \cap T), IsFiniteSet(s)
    PROVE  a[s] = b[s]
<1> DEFINE P == {n \in Nat : \A r \in SUBSET s : Cardinality(r) = n => a[r] = b[r]}
<1>1. \A r \in SUBSET s : IsFiniteSet(r) /\ Cardinality(r) \in Nat
  BY FS_Subset, FS_CardinalityType
<1>2. \A r \in SUBSET s :
        /\ a[r] = IF r = {} THEN 0 ELSE f[Taken(r)] + a[r \ {Taken(r)}]
        /\ b[r] = IF r = {} THEN 0 ELSE f[Taken(r)] + b[r \ {Taken(r)}]
  <2> SUFFICES ASSUME NEW r \in SUBSET s
               PROVE  /\ a[r] = IF r = {} THEN 0 ELSE f[Taken(r)] + a[r \ {Taken(r)}]
                      /\ b[r] = IF r = {} THEN 0 ELSE f[Taken(r)] + b[r \ {Taken(r)}]
    OBVIOUS
  <2>1. r \in SUBSET S /\ r \in SUBSET T
    OBVIOUS
  <2> QED
    BY <2>1 DEF Accumulates
<1>3. 0 \in P
  BY <1>1, <1>2, FS_EmptySet
<1>4. ASSUME NEW n \in Nat, n \in P PROVE n + 1 \in P
  <2> SUFFICES ASSUME NEW r \in SUBSET s, Cardinality(r) = n + 1
               PROVE  a[r] = b[r]
    OBVIOUS
  <2>1. r # {}
    BY FS_EmptySet
  <2>2. Taken(r) \in r
    BY <2>1 DEF Taken
  <2>3. r \ {Taken(r)} \in SUBSET s /\ Cardinality(r \ {Taken(r)}) = n
    <3>1. IsFiniteSet(r) /\ Cardinality(r \ {Taken(r)}) = Cardinality(r) - 1
      BY <1>1, <2>2, FS_RemoveElement
    <3> QED
      BY <3>1
  <2>4. a[r \ {Taken(r)}] = b[r \ {Taken(r)}]
    BY <1>4, <2>3
  <2> QED
    BY <1>2, <2>1, <2>4
<1> HIDE DEF P
<1>5. Cardinality(s) \in P
  BY <1>1, <1>3, <1>4, SetInduction
<1> QED
  BY <1>5 DEF P

LEMMA SumUnfolds ==
    ASSUME NEW S, IsFiniteSet(S), NEW f, \A x \in S : f[x] \in Nat
    PROVE  /\ SumFunctionOnSet(f, S) \in Nat
           /\ S = {} => SumFunctionOnSet(f, S) = 0
           /\ S # {} => SumFunctionOnSet(f, S) =
                          f[Taken(S)] + SumFunctionOnSet(f, S \ {Taken(S)})
<1> DEFINE Acc(T) == CHOOSE acc : Accumulates(acc, f, T)
           R == S \ {Taken(S)}
<1>1. ASSUME NEW T \in SUBSET S
      PROVE  Accumulates(Acc(T), f, T) /\ SumFunctionOnSet(f, T) = Acc(T)[T]
  <2>1. IsFiniteSet(T)
    BY FS_Subset
  <2>2. \E acc : Accumulates(acc, f, T)
    BY <2>1, AccumulationExists
  <2> QED
    BY <2>2, SumIsAccumulated
<1>2. PICK acc \in [SUBSET S -> Nat] : Accumulates(acc, f, S)
  BY AccumulationExists
<1> HIDE DEF Acc
<1>3. ASSUME NEW T \in SUBSET S PROVE SumFunctionOnSet(f, T) = acc[T]
  <2>1. IsFiniteSet(T) /\ T \in SUBSET (T \cap S)
    BY FS_Subset
  <2>2. Acc(T)[T] = acc[T]
    BY <1>1, <1>2, <2>1, AccumulationsAgree
  <2> QED
    BY <1>1, <2>2
<1>4. R \in SUBSET S /\ S \in SUBSET S
  OBVIOUS
<1>5. acc[S] = IF S = {} THEN 0 ELSE f[Taken(S)] + acc[R]
  BY <1>2, <1>4 DEF Accumulates
<1>6. SumFunctionOnSet(f, S) = acc[S] /\ SumFunctionOnSet(f, R) = acc[R]
  BY <1>3, <1>4
<1> HIDE DEF R
<1>7. acc[S] \in Nat
  BY <1>2
<1> QED
  BY <1>5, <1>6, <1>7 DEF R

\* The order does not matter: any element can be taken out first.
LEMMA SumRemove ==
    ASSUME NEW S, IsFiniteSet(S), NEW f, \A x \in S : f[x] \in Nat, NEW x \in S
    PROVE  SumFunctionOnSet(f, S) = f[x] + SumFunctionOnSet(f, S \ {x})
<1> DEFINE Sum(T) == SumFunctionOnSet(f, T)
           P == {n \in Nat : \A T \in SUBSET S : Cardinality(T) = n =>
                                \A y \in T : Sum(T) = f[y] + Sum(T \ {y})}
<1>1. \A T \in SUBSET S : IsFiniteSet(T) /\ Cardinality(T) \in Nat
  BY FS_Subset, FS_CardinalityType
<1>2. ASSUME NEW T \in SUBSET S
      PROVE  Sum(T) \in Nat /\ (T # {} => Sum(T) = f[Taken(T)] + Sum(T \ {Taken(T)}))
  BY <1>1, SumUnfolds
<1> HIDE DEF Sum
<1>3. 0 \in P
  BY <1>1, FS_EmptySet
<1>4. ASSUME NEW n \in Nat, n \in P PROVE n + 1 \in P
  <2> SUFFICES ASSUME NEW T \in SUBSET S, Cardinality(T) = n + 1, NEW y \in T
               PROVE  Sum(T) = f[y] + Sum(T \ {y})
    OBVIOUS
  <2> DEFINE c == Taken(T)
  <2>1. c \in T
    BY DEF Taken
  <2>2. Sum(T) = f[c] + Sum(T \ {c})
    BY <1>2
  <2> HIDE DEF c
  <2>3. CASE c = y
    BY <2>2, <2>3
  <2>4. CASE c # y
    <3>1. Cardinality(T \ {c}) = n /\ Cardinality(T \ {y}) = n
      BY <1>1, <2>1, FS_RemoveElement
    <3>2. /\ T \ {c} \in SUBSET S /\ T \ {y} \in SUBSET S
          /\ y \in T \ {c} /\ c \in T \ {y}
      BY <2>1, <2>4
    <3>3. Sum(T \ {c}) = f[y] + Sum((T \ {c}) \ {y})
      BY <1>4, <3>1, <3>2
    <3>4. Sum(T \ {y}) = f[c] + Sum((T \ {y}) \ {c})
      BY <1>4, <3>1, <3>2
    <3>5. (T \ {c}) \ {y} = (T \ {y}) \ {c}
      OBVIOUS
    <3>6. Sum((T \ {y}) \ {c}) \in Nat /\ f[c] \in Nat /\ f[y] \in Nat
      <4>1. (T \ {y}) \ {c} \in SUBSET S
        OBVIOUS
      <4> QED
        BY <1>2, <2>1, <4>1
    <3> DEFINE u == Sum((T \ {y}) \ {c})
               v == Sum(T \ {c})
               w == Sum(T \ {y})
    <3>7. v = f[y] + u /\ w = f[c] + u /\ Sum(T) = f[c] + v
      BY <2>2, <3>3, <3>4, <3>5
    <3>8. u \in Nat
      BY <3>6
    <3> HIDE DEF u, v, w
    <3>9. Sum(T) = f[y] + w
      BY <3>6, <3>7, <3>8
    <3> QED
      BY <3>9 DEF w
  <2> QED
    BY <2>3, <2>4
<1> HIDE DEF P
<1>5. Cardinality(S) \in P
  BY <1>1, <1>3, <1>4, SetInduction
<1> QED
  BY <1>5 DEF P, Sum

LEMMA SumAdd ==
    ASSUME NEW S, IsFiniteSet(S), NEW x, x \notin S,
           NEW f, \A y \in S \cup {x} : f[y] \in Nat
    PROVE  SumFunctionOnSet(f, S \cup {x}) = f[x] + SumFunctionOnSet(f, S)
<1>1. IsFiniteSet(S \cup {x}) /\ (S \cup {x}) \ {x} = S
  BY FS_AddElement
<1> DEFINE T == S \cup {x}
<1>2. x \in T /\ IsFiniteSet(T) /\ T \ {x} = S /\ \A y \in T : f[y] \in Nat
  BY <1>1
<1> HIDE DEF T
<1>3. SumFunctionOnSet(f, T) = f[x] + SumFunctionOnSet(f, T \ {x})
  BY <1>2, SumRemove
<1> QED
  BY <1>2, <1>3 DEF T

\* A larger set with larger values has the larger sum; it is enough that the
\* values that are left out are 0.
LEMMA SumMonotone ==
    ASSUME NEW S, NEW T, IsFiniteSet(S), IsFiniteSet(T),
           NEW f, NEW g, \A x \in S : f[x] \in Nat, \A x \in T : g[x] \in Nat,
           \A x \in S : f[x] = 0 \/ (x \in T /\ f[x] <= g[x])
    PROVE  SumFunctionOnSet(f, S) <= SumFunctionOnSet(g, T)
<1> DEFINE Sum(h, R) == SumFunctionOnSet(h, R)
           P == {n \in Nat : \A R \in SUBSET S, Q \in SUBSET T :
                    /\ Cardinality(R) = n
                    /\ \A x \in R : f[x] = 0 \/ (x \in Q /\ f[x] <= g[x])
                    => Sum(f, R) <= Sum(g, Q)}
<1>1. /\ \A R \in SUBSET S : IsFiniteSet(R) /\ Cardinality(R) \in Nat
      /\ \A Q \in SUBSET T : IsFiniteSet(Q)
  BY FS_Subset, FS_CardinalityType
<1>2. /\ \A R \in SUBSET S : Sum(f, R) \in Nat /\ (R = {} => Sum(f, R) = 0)
      /\ \A Q \in SUBSET T : Sum(g, Q) \in Nat
  BY <1>1, SumUnfolds
<1>3. /\ \A R \in SUBSET S : \A x \in R : Sum(f, R) = f[x] + Sum(f, R \ {x})
      /\ \A Q \in SUBSET T : \A x \in Q : Sum(g, Q) = g[x] + Sum(g, Q \ {x})
  BY <1>1, SumRemove
<1> HIDE DEF Sum
<1>4. 0 \in P
  BY <1>1, <1>2, FS_EmptySet
<1>5. ASSUME NEW n \in Nat, n \in P PROVE n + 1 \in P
  <2> SUFFICES ASSUME NEW R \in SUBSET S, NEW Q \in SUBSET T, Cardinality(R) = n + 1,
                      \A x \in R : f[x] = 0 \/ (x \in Q /\ f[x] <= g[x])
               PROVE  Sum(f, R) <= Sum(g, Q)
    OBVIOUS
  <2>1. PICK x \in R : TRUE
    BY FS_EmptySet
  <2>2. Cardinality(R \ {x}) = n /\ R \ {x} \in SUBSET S
    <3>1. IsFiniteSet(R) /\ Cardinality(R \ {x}) = Cardinality(R) - 1
      BY <1>1, <2>1, FS_RemoveElement
    <3> QED
      BY <3>1
  <2>3. Sum(f, R) = f[x] + Sum(f, R \ {x}) /\ f[x] \in Nat
    BY <1>3
  <2>4. CASE x \in Q /\ f[x] <= g[x]
    <3>1. Sum(g, Q) = g[x] + Sum(g, Q \ {x}) /\ g[x] \in Nat
      BY <1>3, <2>4
    <3>2. Sum(f, R \ {x}) <= Sum(g, Q \ {x})
      <4>1. /\ Q \ {x} \in SUBSET T
            /\ \A y \in R \ {x} : f[y] = 0 \/ (y \in Q \ {x} /\ f[y] <= g[y])
        OBVIOUS
      <4> QED
        BY <1>5, <2>2, <4>1
    <3>3. Sum(f, R \ {x}) \in Nat /\ Sum(g, Q \ {x}) \in Nat
      <4>1. Q \ {x} \in SUBSET T
        OBVIOUS
      <4> QED
        BY <1>2, <2>2, <4>1
    <3> DEFINE a == Sum(f, R \ {x})
               b == Sum(g, Q \ {x})
    <3>4. a \in Nat /\ b \in Nat /\ a <= b
      BY <3>2, <3>3
    <3> HIDE DEF a, b
    <3>5. f[x] + a <= g[x] + b
      BY <2>3, <2>4, <3>1, <3>4
    <3> QED
      BY <2>3, <3>1, <3>5 DEF a, b
  <2>5. CASE f[x] = 0
    <3>1. Sum(f, R \ {x}) <= Sum(g, Q)
      BY <1>5, <2>2
    <3>2. Sum(f, R \ {x}) \in Nat
      BY <1>2, <2>2
    <3> QED
      BY <2>3, <2>5, <3>1, <3>2
  <2> QED
    BY <2>4, <2>5
<1> HIDE DEF P
<1>6. Cardinality(S) \in P
  BY <1>1, <1>4, <1>5, SetInduction
<1> QED
  BY <1>6 DEF P, Sum

\* What is in both sets is counted twice.
LEMMA SumOfUnion ==
    ASSUME NEW S, NEW T, IsFiniteSet(S), IsFiniteSet(T),
           NEW f, \A x \in S \cup T : f[x] \in Nat
    PROVE  /\ SumFunctionOnSet(f, S \cup T) <=
                 SumFunctionOnSet(f, S) + SumFunctionOnSet(f, T)
           /\ S \cap T = {} => SumFunctionOnSet(f, S \cup T) =
                 SumFunctionOnSet(f, S) + SumFunctionOnSet(f, T)
<1> DEFINE Sum(R) == SumFunctionOnSet(f, R)
           P == {n \in Nat : \A R \in SUBSET S : Cardinality(R) = n =>
                    /\ Sum(R \cup T) <= Sum(R) + Sum(T)
                    /\ R \cap T = {} => Sum(R \cup T) = Sum(R) + Sum(T)}
           U == S \cup T
<1>1. IsFiniteSet(U) /\ S \in SUBSET U /\ T \in SUBSET U
  BY FS_Union
<1>2. \A R \in SUBSET U : IsFiniteSet(R) /\ Cardinality(R) \in Nat
  BY <1>1, FS_Subset, FS_CardinalityType
<1>3. \A R \in SUBSET U : /\ Sum(R) \in Nat
                          /\ R = {} => Sum(R) = 0
                          /\ \A x \in R : Sum(R) = f[x] + Sum(R \ {x})
  <2> SUFFICES ASSUME NEW R \in SUBSET U
               PROVE  /\ Sum(R) \in Nat
                      /\ R = {} => Sum(R) = 0
                      /\ \A x \in R : Sum(R) = f[x] + Sum(R \ {x})
    OBVIOUS
  <2>1. IsFiniteSet(R) /\ \A x \in R : f[x] \in Nat
    BY <1>2
  <2>2. Sum(R) \in Nat /\ (R = {} => Sum(R) = 0)
    BY <2>1, SumUnfolds
  <2>3. \A x \in R : Sum(R) = f[x] + Sum(R \ {x})
    BY <2>1, SumRemove
  <2> QED
    BY <2>2, <2>3
<1> HIDE DEF Sum
<1>4. 0 \in P
  <2> SUFFICES ASSUME NEW R \in SUBSET S, Cardinality(R) = 0
               PROVE  Sum(R \cup T) = Sum(R) + Sum(T) /\ Sum(R) + Sum(T) \in Int
    OBVIOUS
  <2>1. R = {}
    BY <1>1, <1>2, FS_EmptySet
  <2>2. Sum(R) = 0 /\ Sum(T) \in Nat
    BY <1>1, <1>3, <2>1
  <2>3. R \cup T = T
    BY <2>1
  <2>4. Sum(R \cup T) = Sum(T)
    BY <2>3
  <2> QED
    BY <2>2, <2>4
<1>5. ASSUME NEW n \in Nat, n \in P PROVE n + 1 \in P
  <2> SUFFICES ASSUME NEW R \in SUBSET S, Cardinality(R) = n + 1
               PROVE  /\ Sum(R \cup T) <= Sum(R) + Sum(T)
                      /\ R \cap T = {} => Sum(R \cup T) = Sum(R) + Sum(T)
    OBVIOUS
  <2>0. R # {}
    <3>1. Cardinality({}) = 0 /\ n + 1 # 0
      BY FS_EmptySet
    <3> HIDE DEF P, U
    <3> QED
      BY <3>1
  <2>1. PICK x \in R : TRUE
    BY <2>0
  <2> DEFINE Q == R \ {x}
  <2>2. Q \in SUBSET S /\ Cardinality(Q) = n
    <3>1. IsFiniteSet(R) /\ Cardinality(Q) = Cardinality(R) - 1
      BY <1>1, <1>2, <2>1, FS_RemoveElement
    <3> QED
      BY <3>1
  <2>3. /\ Sum(R) = f[x] + Sum(Q) /\ f[x] \in Nat
        /\ Sum(Q) \in Nat /\ Sum(T) \in Nat /\ Sum(Q \cup T) \in Nat
    <3>1. Q \cup T \in SUBSET U /\ Q \in SUBSET U /\ R \in SUBSET U
      OBVIOUS
    <3> QED
      BY <1>1, <1>3, <2>1, <3>1
  <2>4. /\ Sum(Q \cup T) <= Sum(Q) + Sum(T)
        /\ Q \cap T = {} => Sum(Q \cup T) = Sum(Q) + Sum(T)
    BY <1>5, <2>2
  <2>5. CASE x \in T
    <3>1. R \cup T = Q \cup T /\ R \cap T # {}
      BY <2>1, <2>5
    <3>2. Sum(R \cup T) = Sum(Q \cup T)
      BY <3>1
    <3> DEFINE a == Sum(R \cup T)
    <3> HIDE DEF Q, a
    <3>3. a = Sum(Q \cup T)
      BY <3>2 DEF a
    <3>4. a <= Sum(R) + Sum(T)
      BY <2>3, <2>4, <3>3
    <3> QED
      BY <3>1, <3>4 DEF a
  <2>6. CASE x \notin T
    <3>1. /\ (R \cup T) \ {x} = Q \cup T /\ x \in R \cup T /\ R \cup T \in SUBSET U
          /\ R \cap T = {} => Q \cap T = {}
      BY <2>1, <2>6
    <3>2. Sum(R \cup T) = f[x] + Sum((R \cup T) \ {x})
      BY <1>3, <3>1
    <3>3. Sum(R \cup T) = f[x] + Sum(Q \cup T)
      BY <3>1, <3>2
    <3> HIDE DEF Q
    <3> QED
      BY <2>3, <2>4, <3>1, <3>3
  <2> QED
    BY <2>5, <2>6
<1> HIDE DEF P
<1>6. Cardinality(S) \in P
  BY <1>1, <1>2, <1>4, <1>5, SetInduction
<1> QED
  BY <1>6 DEF P, Sum
=============================================================================
