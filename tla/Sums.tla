-------------------------------- MODULE Sums --------------------------------
(***************************************************************************)
(* Sums over finite sets.  MapThenSumSet of the community modules adds the *)
(* elements in an order that a CHOOSE leaves open.  These lemmas show that *)
(* the total does not depend on it, how it changes with the set and with   *)
(* the summands, and how large it can be.                                  *)
(***************************************************************************)
EXTENDS Integers, FiniteSetTheorems, WellFoundedInduction, TLAPS

----------------------------------------------------------------------------
(* Least numbers *)

\* A set of numbers has a least one.
LEMMA LeastNumber ==
    ASSUME NEW S \in SUBSET Nat, S # {}
    PROVE  \E x \in S : \A y \in S : x <= y
<1> DEFINE R == {p \in Nat \X Nat : p[1] < p[2]}
<1>1. IsWellFoundedOn(R, Nat)
  BY NatLessThanWellFounded, Zenon DEF OpToRel
<1>2. PICK x \in S : \A y \in S : ~ (<<y, x>> \in R)
  <2> HIDE DEF R
  <2> QED
    BY <1>1, WFMin
<1>3. \A y \in S : ~(y < x)
  BY <1>2
<1> QED
  BY <1>3

----------------------------------------------------------------------------
(* Induction over the natural numbers, for a set *)

LEMMA SetInduction ==
    ASSUME NEW S, 0 \in S, \A n \in Nat : n \in S => n + 1 \in S
    PROVE  \A n \in Nat : n \in S
<1> SUFFICES ASSUME NEW m \in Nat, m \notin S PROVE FALSE
  OBVIOUS
<1> DEFINE T == Nat \ S
<1>1. T \in SUBSET Nat /\ T # {}
  OBVIOUS
<1>2. PICK x \in T : \A y \in T : x <= y
  BY <1>1, LeastNumber
<1>3. x # 0 /\ x - 1 \in Nat /\ x - 1 \in T
  OBVIOUS
<1> QED
  BY <1>2, <1>3

----------------------------------------------------------------------------
(* Sums over finite sets *)

Pick(s) == CHOOSE x \in s : TRUE

\* g[s] is one step of a sum of w over s.
SumStep(g, w, s) ==
    g[s] = IF s = {} THEN 0 ELSE w[Pick(s)] + g[s \ {Pick(s)}]

IsSum(g, w, N) == \A s \in SUBSET N : SumStep(g, w, s)

LEMMA PickRemoved ==
    ASSUME NEW N, IsFiniteSet(N), NEW s \in SUBSET N, s # {}
    PROVE  /\ Pick(s) \in s /\ Pick(s) \in N /\ s \ {Pick(s)} \in SUBSET N
           /\ Cardinality(s) \in Nat \ {0}
           /\ Cardinality(s \ {Pick(s)}) = Cardinality(s) - 1
<1>1. Pick(s) \in s
  BY DEF Pick
<1>2. IsFiniteSet(s) /\ Cardinality(s) \in Nat /\ Cardinality(s) # 0
  BY FS_Subset, FS_CardinalityType, FS_EmptySet
<1>3. Cardinality(s \ {Pick(s)}) = Cardinality(s) - 1
  BY <1>1, <1>2, FS_RemoveElement
<1> QED
  BY <1>1, <1>2, <1>3

LEMMA SumExists ==
    ASSUME NEW N, IsFiniteSet(N), NEW w \in [N -> Int]
    PROVE  \E g \in [SUBSET N -> Int] : IsSum(g, w, N)
<1> DEFINE UpTo(n, g) == \A s \in SUBSET N : Cardinality(s) <= n => SumStep(g, w, s)
           S == {n \in Nat : \E g \in [SUBSET N -> Int] : UpTo(n, g)}
<1>1. \A s \in SUBSET N : /\ Cardinality(s) \in Nat /\ Cardinality(s) <= Cardinality(N)
                          /\ Cardinality(s) = 0 <=> s = {}
  BY FS_Subset, FS_CardinalityType, FS_EmptySet
<1>2. 0 \in S
  <2> DEFINE z == [s \in SUBSET N |-> 0]
  <2>1. z \in [SUBSET N -> Int] /\ UpTo(0, z)
    BY <1>1 DEF SumStep
  <2> HIDE DEF z, UpTo
  <2> QED
    BY <2>1
<1>3. ASSUME NEW n \in Nat, n \in S
      PROVE  n + 1 \in S
  <2>1. PICK g \in [SUBSET N -> Int] : UpTo(n, g)
    BY <1>3
  <2> DEFINE h == [s \in SUBSET N |-> IF Cardinality(s) <= n THEN g[s]
                                      ELSE w[Pick(s)] + g[s \ {Pick(s)}]]
  <2>2. h \in [SUBSET N -> Int]
    <3>1. ASSUME NEW s \in SUBSET N, ~(Cardinality(s) <= n)
          PROVE  w[Pick(s)] + g[s \ {Pick(s)}] \in Int
      BY <1>1, <3>1, PickRemoved
    <3> QED
      BY <3>1
  <2>3. UpTo(n + 1, h)
    <3> SUFFICES ASSUME NEW s \in SUBSET N, Cardinality(s) <= n + 1
                 PROVE  SumStep(h, w, s)
      OBVIOUS
    <3>1. CASE s = {}
      BY <1>1, <2>1, <3>1 DEF SumStep
    <3>2. CASE s # {}
      <4>1. /\ s \ {Pick(s)} \in SUBSET N /\ Cardinality(s \ {Pick(s)}) = Cardinality(s) - 1
            /\ Cardinality(s) \in Nat
        BY <3>2, PickRemoved
      <4>2. h[s \ {Pick(s)}] = g[s \ {Pick(s)}]
        BY <4>1
      <4>3. h[s] = w[Pick(s)] + g[s \ {Pick(s)}]
        BY <2>1, <3>2, <4>1 DEF SumStep
      <4> QED
        BY <3>2, <4>2, <4>3 DEF SumStep
    <3> QED
      BY <3>1, <3>2
  <2> HIDE DEF h, UpTo
  <2> QED
    BY <2>2, <2>3
<1>4. Cardinality(N) \in S
  <2> HIDE DEF S
  <2> QED
    BY <1>2, <1>3, SetInduction, FS_CardinalityType
<1>5. PICK g \in [SUBSET N -> Int] : UpTo(Cardinality(N), g)
  BY <1>4
<1> QED
  BY <1>1, <1>5 DEF IsSum

Agree(w, v, M) == \A i \in M : w[i] = v[i]

\* A sum depends on what is summed and on nothing else.
LEMMA SumUnique ==
    ASSUME NEW N, IsFiniteSet(N), NEW M \in SUBSET N, NEW w, NEW v, NEW g, NEW h,
           Agree(w, v, M), IsSum(g, w, N), IsSum(h, v, M)
    PROVE  \A s \in SUBSET M : h[s] = g[s]
<1> DEFINE S == {n \in Nat : \A s \in SUBSET M : Cardinality(s) = n => h[s] = g[s]}
<1>1. IsFiniteSet(M) /\ \A s \in SUBSET M : /\ s \in SUBSET N /\ Cardinality(s) \in Nat
                                            /\ Cardinality(s) = 0 <=> s = {}
  BY FS_Subset, FS_CardinalityType, FS_EmptySet
<1>2. 0 \in S
  BY <1>1 DEF IsSum, SumStep
<1>3. ASSUME NEW n \in Nat, n \in S
      PROVE  n + 1 \in S
  <2> SUFFICES ASSUME NEW s \in SUBSET M, Cardinality(s) = n + 1
               PROVE  h[s] = g[s]
    OBVIOUS
  <2>1. s # {} /\ s \in SUBSET N
    BY <1>1
  <2>2. /\ Pick(s) \in M /\ s \ {Pick(s)} \in SUBSET M
        /\ Cardinality(s \ {Pick(s)}) = n
    BY <1>1, <2>1, PickRemoved
  <2>3. h[s \ {Pick(s)}] = g[s \ {Pick(s)}]
    BY <1>3, <2>2
  <2>4. h[s] = v[Pick(s)] + h[s \ {Pick(s)}] /\ g[s] = w[Pick(s)] + g[s \ {Pick(s)}]
    BY <2>1 DEF IsSum, SumStep
  <2> QED
    BY <2>2, <2>3, <2>4 DEF Agree
<1>4. \A n \in Nat : n \in S
  <2> HIDE DEF S
  <2> QED
    BY <1>2, <1>3, SetInduction
<1> QED
  BY <1>1, <1>4

LEMMA SumSame ==
    ASSUME NEW N, IsFiniteSet(N), NEW w, NEW g, NEW h, IsSum(g, w, N), IsSum(h, w, N)
    PROVE  \A s \in SUBSET N : h[s] = g[s]
<1>1. N \in SUBSET N /\ Agree(w, w, N)
  BY DEF Agree
<1> QED
  BY <1>1, SumUnique

SumTyped(g, w, N) == w \in [N -> Int] /\ g \in [SUBSET N -> Int]

AnyFirst(g, w, N) == \A s \in SUBSET N : \A y \in s : g[s] = w[y] + g[s \ {y}]

\* Any element may be taken first.
LEMMA SumOfRest ==
    ASSUME NEW N, IsFiniteSet(N), NEW w, NEW g, IsSum(g, w, N), SumTyped(g, w, N)
    PROVE  AnyFirst(g, w, N)
<1> DEFINE S == {n \in Nat : \A s \in SUBSET N : Cardinality(s) = n =>
                                \A y \in s : g[s] = w[y] + g[s \ {y}]}
<1>0. w \in [N -> Int] /\ g \in [SUBSET N -> Int]
  BY DEF SumTyped
<1>1. \A s \in SUBSET N : /\ Cardinality(s) \in Nat /\ IsFiniteSet(s)
                          /\ Cardinality(s) = 0 <=> s = {}
  BY FS_Subset, FS_CardinalityType, FS_EmptySet
<1>2. 0 \in S
  BY <1>1
<1>3. ASSUME NEW n \in Nat, n \in S
      PROVE  n + 1 \in S
  <2> SUFFICES ASSUME NEW s \in SUBSET N, Cardinality(s) = n + 1, NEW y \in s
               PROVE  g[s] = w[y] + g[s \ {y}]
    OBVIOUS
  <2> DEFINE p == Pick(s)
  <2>1. /\ p \in s /\ s \ {p} \in SUBSET N /\ s \ {y} \in SUBSET N
        /\ (s \ {p}) \ {y} \in SUBSET N /\ (s \ {p}) \ {y} = (s \ {y}) \ {p}
        /\ Cardinality(s \ {p}) = n /\ Cardinality(s \ {y}) = n
    BY <1>1, PickRemoved, FS_RemoveElement
  <2>2. g[s] = w[p] + g[s \ {p}]
    BY <2>1 DEF IsSum, SumStep
  <2> HIDE DEF p
  <2>3. CASE y = p
    BY <2>2, <2>3
  <2>4. CASE y # p
    <3>1. g[s \ {p}] = w[y] + g[(s \ {p}) \ {y}]
      BY <1>3, <2>1, <2>4
    <3>2. g[s \ {y}] = w[p] + g[(s \ {p}) \ {y}]
      BY <1>3, <2>1, <2>4
    <3>3. /\ w[y] \in Int /\ w[p] \in Int
          /\ g[(s \ {p}) \ {y}] \in Int
      BY <1>0, <2>1
    <3> QED
      BY <2>2, <3>1, <3>2, <3>3
  <2> QED
    BY <2>3, <2>4
<1>4. \A n \in Nat : n \in S
  <2> HIDE DEF S
  <2> QED
    BY <1>2, <1>3, SetInduction
<1> QED
  BY <1>1, <1>4 DEF AnyFirst

----------------------------------------------------------------------------
(* Totals *)

IsTotal(x, w, S) == \E g \in [SUBSET S -> Int] : IsSum(g, w, S) /\ x = g[S]

\* There is one total.
LEMMA TotalUnique ==
    ASSUME NEW S, IsFiniteSet(S), NEW w, NEW v, Agree(w, v, S),
           NEW x, NEW y, IsTotal(x, w, S), IsTotal(y, v, S)
    PROVE  x = y
<1>1. PICK g \in [SUBSET S -> Int] : IsSum(g, w, S) /\ x = g[S]
  BY DEF IsTotal
<1>2. PICK h \in [SUBSET S -> Int] : IsSum(h, v, S) /\ y = h[S]
  BY DEF IsTotal
<1>3. S \in SUBSET S
  OBVIOUS
<1>4. \A s \in SUBSET S : h[s] = g[s]
  BY <1>1, <1>2, <1>3, SumUnique
<1> QED
  BY <1>1, <1>2, <1>3, <1>4

LEMMA TotalType ==
    ASSUME NEW S, NEW w, NEW x, IsTotal(x, w, S)
    PROVE  x \in Int
  BY DEF IsTotal

LEMMA TotalEmpty ==
    ASSUME NEW w, NEW x, IsTotal(x, w, {})
    PROVE  x = 0
  BY DEF IsTotal, IsSum, SumStep

\* The total of a set is that of one element and of the others.
LEMMA TotalRest ==
    ASSUME NEW S, IsFiniteSet(S), NEW w \in [S -> Int], NEW i \in S,
           NEW v, Agree(w, v, S \ {i}),
           NEW x, NEW y, IsTotal(x, w, S), IsTotal(y, v, S \ {i})
    PROVE  x = w[i] + y
<1> DEFINE T == S \ {i}
<1>1. PICK g \in [SUBSET S -> Int] : IsSum(g, w, S) /\ x = g[S]
  BY DEF IsTotal
<1>2. PICK h \in [SUBSET T -> Int] : IsSum(h, v, T) /\ y = h[T]
  BY DEF IsTotal
<1>3. T \in SUBSET S /\ T \in SUBSET T /\ S \in SUBSET S /\ Agree(w, v, T)
  OBVIOUS
<1> HIDE DEF T
<1>4. \A t \in SUBSET T : h[t] = g[t]
  BY <1>1, <1>2, <1>3, SumUnique
<1>5. AnyFirst(g, w, S)
  BY <1>1, SumOfRest DEF SumTyped
<1>6. g[S] = w[i] + g[T]
  BY <1>3, <1>5 DEF AnyFirst, T
<1> QED
  BY <1>1, <1>2, <1>3, <1>4, <1>6

\* One more for each summand is the number of summands more.
LEMMA TotalShift ==
    ASSUME NEW S, IsFiniteSet(S), NEW w \in [S -> Int], NEW v,
           \A i \in S : v[i] = w[i] + 1,
           NEW x, NEW y, IsTotal(x, w, S), IsTotal(y, v, S)
    PROVE  y = x + Cardinality(S)
<1>1. PICK g \in [SUBSET S -> Int] : IsSum(g, w, S) /\ x = g[S]
  BY DEF IsTotal
<1>a. \A s \in SUBSET S : Cardinality(s) \in Nat /\ g[s] \in Int
  BY <1>1, FS_Subset, FS_CardinalityType
<1>b. \A s \in SUBSET S : g[s] + Cardinality(s) \in Int
  BY <1>a
<1> DEFINE h == [s \in SUBSET S |-> g[s] + Cardinality(s)]
<1>2. \A s \in SUBSET S : Cardinality(s) \in Nat /\ g[s] \in Int /\ h[s] = g[s] + Cardinality(s)
  BY <1>a
<1>3. IsSum(h, v, S)
  <2> SUFFICES ASSUME NEW s \in SUBSET S PROVE SumStep(h, v, s)
    BY DEF IsSum
  <2> HIDE DEF h
  <2>1. CASE s = {}
    <3>1. g[s] = 0 /\ Cardinality(s) = 0
      BY <1>1, <2>1, FS_EmptySet DEF IsSum, SumStep
    <3> QED
      BY <1>2, <2>1, <3>1 DEF SumStep
  <2>2. CASE s # {}
    <3> DEFINE p == Pick(s)
    <3>1. /\ p \in S /\ s \ {p} \in SUBSET S
          /\ Cardinality(s) \in Nat /\ Cardinality(s \ {p}) = Cardinality(s) - 1
      BY <2>2, PickRemoved
    <3>2. g[s] = w[p] + g[s \ {p}]
      BY <1>1, <2>2 DEF IsSum, SumStep
    <3> HIDE DEF p
    <3>3. v[p] = w[p] + 1 /\ w[p] \in Int
      BY <3>1
    <3>4. h[s] = v[p] + h[s \ {p}]
      BY <1>2, <3>1, <3>2, <3>3
    <3> QED
      BY <2>2, <3>4 DEF SumStep, p
  <2> QED
    BY <2>1, <2>2
<1>4. S \in SUBSET S /\ h \in [SUBSET S -> Int]
  BY <1>b, Zenon
<1>5. h[S] = g[S] + Cardinality(S)
  BY <1>2, <1>4
<1> HIDE DEF h
<1>6. IsTotal(h[S], v, S) /\ Agree(v, v, S)
  BY <1>3, <1>4 DEF IsTotal, Agree
<1>7. y = h[S]
  BY <1>6, TotalUnique
<1> QED
  BY <1>1, <1>5, <1>7

\* A total is at most as many times the bound of its summands.
LEMMA TotalBound ==
    ASSUME NEW S, IsFiniteSet(S), NEW H \in Nat, NEW w,
           \A i \in S : w[i] \in Nat /\ w[i] <= H,
           NEW x, IsTotal(x, w, S)
    PROVE  x \in Nat /\ x <= H * Cardinality(S)
<1>1. PICK g \in [SUBSET S -> Int] : IsSum(g, w, S) /\ x = g[S]
  BY DEF IsTotal
<1> DEFINE Within(s) == 0 <= g[s] /\ g[s] <= H * Cardinality(s)
           N == {n \in Nat : \A s \in SUBSET S : Cardinality(s) = n => Within(s)}
<1>2. ASSUME NEW s \in SUBSET S
      PROVE  Cardinality(s) \in Nat /\ (Cardinality(s) = 0 <=> s = {})
  <2>1. IsFiniteSet(s)
    BY FS_Subset
  <2> QED
    BY <2>1, FS_CardinalityType, FS_EmptySet
<1>3. 0 \in N
  <2>1. g[{}] = 0
    <3>1. SumStep(g, w, {})
      BY <1>1 DEF IsSum
    <3> QED
      BY <3>1 DEF SumStep
  <2>2. ASSUME NEW s \in SUBSET S, Cardinality(s) = 0
        PROVE  Within(s)
    <3>1. s = {}
      BY <1>2, <2>2
    <3> QED
      BY <2>1, <2>2, <3>1
  <2> QED
    BY <2>2
<1>4. ASSUME NEW n \in Nat, n \in N
      PROVE  n + 1 \in N
  <2> SUFFICES ASSUME NEW s \in SUBSET S, Cardinality(s) = n + 1
               PROVE  Within(s)
    OBVIOUS
  <2> DEFINE p == Pick(s)
  <2>1. s # {}
    BY <1>2
  <2>2. p \in S /\ s \ {p} \in SUBSET S /\ Cardinality(s \ {p}) = n
    BY <2>1, PickRemoved
  <2>3. g[s] = w[p] + g[s \ {p}]
    BY <1>1, <2>1 DEF IsSum, SumStep
  <2>4. 0 <= g[s \ {p}] /\ g[s \ {p}] <= H * n /\ g[s \ {p}] \in Int
    BY <1>1, <1>4, <2>2
  <2> HIDE DEF p
  <2>5. w[p] \in Nat /\ w[p] <= H
    BY <2>2
  <2>6. H * (n + 1) = H * n + H /\ H * n \in Nat
    OBVIOUS
  <2> QED
    BY <2>3, <2>4, <2>5, <2>6
<1>5. \A n \in Nat : n \in N
  <2> HIDE DEF N
  <2> QED
    BY <1>3, <1>4, SetInduction
<1>6. S \in SUBSET S /\ Cardinality(S) \in Nat
  BY <1>2
<1> QED
  BY <1>1, <1>5, <1>6
=============================================================================
