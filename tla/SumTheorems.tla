----------------------------- MODULE SumTheorems -----------------------------
(***************************************************************************)
(* Sums of the values of a function over a finite set, as MapThenSumSet    *)
(* computes them: the facts that the proofs about visits, rollouts and     *)
(* virtual losses use.  Each is first-order, so that it can be cited by    *)
(* name, and is proved from a least counterexample among the subsets of    *)
(* the set.                                                                *)
(***************************************************************************)
EXTENDS FiniteSetsExt, FiniteSetTheorems, TLAPS

SumOf(w, S) == MapThenSumSet(LAMBDA x : w[x], S)

Chosen(s) == CHOOSE x \in s : TRUE

\* f is the fold of the values of w over the subsets of S.
IsFold(f, w, S) ==
    f = [s \in SUBSET S |-> IF s = {} THEN 0 ELSE w[Chosen(s)] + f[s \ {Chosen(s)}]]

------------------------------------------------------------------------------
(* The fold                                                                 *)

\* A set of subsets of a finite set has a least one.
LEMMA LeastSubset ==
    ASSUME NEW S, IsFiniteSet(S), NEW B \in SUBSET SUBSET S, B # {}
    PROVE  \E s \in B : \A r \in B : ~(r \subseteq s /\ r # s)
<1>1. IsWellFoundedOn(StrictSubsetOrdering(S), FiniteSubsetsOf(S))
  BY FS_StrictSubsetOrderingWellFounded
<1>2. B \subseteq FiniteSubsetsOf(S)
  BY FS_FiniteSubsetsOfFinite
<1>3. \E s \in B : \A r \in B : ~(<<r, s>> \in StrictSubsetOrdering(S))
  BY <1>1, <1>2, WFMin
<1> QED
  BY <1>3 DEF StrictSubsetOrdering

LEMMA ChosenIn == ASSUME NEW s, s # {} PROVE Chosen(s) \in s
BY DEF Chosen

LEMMA FoldAt ==
    ASSUME NEW S, NEW w, NEW f, IsFold(f, w, S), NEW s \in SUBSET S
    PROVE  /\ s = {} => f[s] = 0
           /\ s # {} => f[s] = w[Chosen(s)] + f[s \ {Chosen(s)}]
BY DEF IsFold

LEMMA FoldNone ==
    ASSUME NEW S, NEW w, NEW f, IsFold(f, w, S)
    PROVE  f[{}] = 0
BY DEF IsFold

\* The value at a set depends on the values of its elements only.
LEMMA FoldSame ==
    ASSUME NEW S, NEW T, NEW f, NEW g, NEW w, NEW v, IsFold(f, w, S), IsFold(g, v, T),
           NEW U, IsFiniteSet(U), U \subseteq S, U \subseteq T, \A x \in U : w[x] = v[x]
    PROVE  f[U] = g[U]
<1> DEFINE B == {s \in SUBSET U : f[s] # g[s]}
<1> SUFFICES ASSUME B # {} PROVE FALSE
  OBVIOUS
<1>1. PICK s \in B : \A r \in B : ~(r \subseteq s /\ r # s)
  <2>1. B \in SUBSET SUBSET U
    OBVIOUS
  <2> HIDE DEF B
  <2> QED
    BY <2>1, LeastSubset
<1>2. s \in SUBSET S /\ s \in SUBSET T /\ s \in SUBSET U /\ f[s] # g[s]
  OBVIOUS
<1>3. CASE s = {}
  <2>1. f[{}] = 0 /\ g[{}] = 0
    BY FoldNone
  <2> QED
    BY <1>2, <1>3, <2>1
<1>4. CASE s # {}
  <2> DEFINE c == Chosen(s)
             r == s \ {c}
  <2>1. c \in s
    BY <1>4, ChosenIn
  <2>2. f[s] = w[c] + f[r] /\ g[s] = v[c] + g[r]
    BY <1>2, <1>4, FoldAt
  <2>3. r \subseteq s /\ r # s /\ r \in SUBSET U
    BY <1>2, <2>1
  <2>4. f[r] = g[r]
    BY <1>1, <2>3
  <2>5. w[c] = v[c]
    BY <1>2, <2>1
  <2> QED
    BY <1>2, <2>2, <2>4, <2>5
<1> QED
  BY <1>3, <1>4

\* A finite set has a fold.
LEMMA FoldExists ==
    ASSUME NEW S, IsFiniteSet(S), NEW w
    PROVE  \E f : IsFold(f, w, S)
<1> DEFINE Has(s) == \E f : IsFold(f, w, s)
           B == {s \in SUBSET S : ~Has(s)}
<1> SUFFICES ASSUME B # {} PROVE FALSE
  OBVIOUS
<1>1. PICK s \in B : \A r \in B : ~(r \subseteq s /\ r # s)
  <2>1. B \in SUBSET SUBSET S
    OBVIOUS
  <2> HIDE DEF B
  <2> QED
    BY <2>1, LeastSubset
<1>2. ASSUME NEW r \in SUBSET s, r # s
      PROVE  Has(r)
  BY <1>1, <1>2
<1> HIDE DEF B
<1> DEFINE val == [r \in SUBSET s |-> (CHOOSE f : IsFold(f, w, r))[r]]
           f == [r \in SUBSET s |-> IF r = {} THEN 0 ELSE w[Chosen(r)] + val[r \ {Chosen(r)}]]
<1>3. \A r \in SUBSET s : r # {} => r \ {Chosen(r)} \in SUBSET s /\ r \ {Chosen(r)} # s
  BY ChosenIn
<1>4. ASSUME NEW r \in SUBSET s, r # s
      PROVE  f[r] = val[r]
  <2> DEFINE g == CHOOSE h : IsFold(h, w, r)
  <2>1. IsFold(g, w, r)
    BY <1>2, <1>4
  <2>2. val[r] = g[r]
    OBVIOUS
  <2> HIDE DEF g
  <2>3. CASE r = {}
    <3>1. g[r] = 0
      BY <2>1, <2>3, FoldAt
    <3>2. f[r] = 0
      BY <2>3
    <3> QED
      BY <2>2, <3>1, <3>2
  <2>4. CASE r # {}
    <3> DEFINE c == Chosen(r)
               q == r \ {c}
    <3>1. g[r] = w[c] + g[q]
      BY <2>1, <2>4, FoldAt
    <3>2. q \in SUBSET s /\ q # s /\ q \subseteq r
      BY <1>3, <2>4
    <3>3. IsFold(CHOOSE h : IsFold(h, w, q), w, q)
      BY <1>2, <3>2
    <3>4. IsFiniteSet(q)
      <4>1. s \in SUBSET S
        BY DEF B
      <4> QED
        BY <3>2, <4>1, FS_Subset
    <3>5. g[q] = (CHOOSE h : IsFold(h, w, q))[q]
      BY <2>1, <3>2, <3>3, <3>4, FoldSame
    <3>6. val[q] = g[q]
      BY <3>2, <3>5
    <3>7. f[r] = w[c] + val[q]
      BY <2>4
    <3> QED
      BY <2>2, <3>1, <3>6, <3>7
  <2> QED
    BY <2>3, <2>4
<1>5. IsFold(f, w, s)
  <2> HIDE DEF val
  <2>1. \A r \in SUBSET s : r # {} => f[r \ {Chosen(r)}] = val[r \ {Chosen(r)}]
    BY <1>3, <1>4
  <2>2. f = [r \in SUBSET s |-> IF r = {} THEN 0 ELSE w[Chosen(r)] + f[r \ {Chosen(r)}]]
    <3> DEFINE h == [r \in SUBSET s |-> IF r = {} THEN 0
                                        ELSE w[Chosen(r)] + f[r \ {Chosen(r)}]]
    <3>1. \A r \in SUBSET s : f[r] = h[r]
      BY <2>1
    <3>2. f = h
      BY <3>1
    <3> QED
      BY <3>2
  <2> HIDE DEF f
  <2> QED
    BY <2>2 DEF IsFold
<1>6. ~Has(s)
  BY DEF B
<1> HIDE DEF f, val
<1> QED
  BY <1>5, <1>6

------------------------------------------------------------------------------
(* Sums                                                                     *)

LEMMA SumIsFold ==
    ASSUME NEW S, IsFiniteSet(S), NEW w
    PROVE  \E f : IsFold(f, w, S) /\ SumOf(w, S) = f[S]
<1> DEFINE h == CHOOSE g : IsFold(g, w, S)
<1>1. IsFold(h, w, S)
  BY FoldExists
<1>2. SumOf(w, S) = h[S]
  BY DEF SumOf, MapThenSumSet, MapThenFoldSet, IsFold, Chosen
<1> HIDE DEF h
<1> QED
  BY <1>1, <1>2

\* The sum over no element, and over a set with one more.
LEMMA SumEmpty == ASSUME NEW w PROVE SumOf(w, {}) = 0
<1>1. PICK f : IsFold(f, w, {}) /\ SumOf(w, {}) = f[{}]
  BY FS_EmptySet, SumIsFold
<1> QED
  BY <1>1, FoldAt

\* Functions that agree on a set have the same sum over it.
LEMMA SumSame ==
    ASSUME NEW S, IsFiniteSet(S), NEW w, NEW v, \A x \in S : w[x] = v[x]
    PROVE  SumOf(w, S) = SumOf(v, S)
<1>1. PICK f : IsFold(f, w, S) /\ SumOf(w, S) = f[S]
  BY SumIsFold
<1>2. PICK g : IsFold(g, v, S) /\ SumOf(v, S) = g[S]
  BY SumIsFold
<1>3. f[S] = g[S]
  BY <1>1, <1>2, FoldSame
<1> QED
  BY <1>1, <1>2, <1>3

LEMMA SumChosen ==
    ASSUME NEW S, IsFiniteSet(S), S # {}, NEW w
    PROVE  SumOf(w, S) = w[Chosen(S)] + SumOf(w, S \ {Chosen(S)})
<1> DEFINE c == Chosen(S)
           r == S \ {c}
<1>1. PICK f : IsFold(f, w, S) /\ SumOf(w, S) = f[S]
  BY SumIsFold
<1>2. IsFiniteSet(r) /\ r \subseteq S
  BY FS_Subset
<1>3. PICK g : IsFold(g, w, r) /\ SumOf(w, r) = g[r]
  BY <1>2, SumIsFold
<1>4. f[r] = g[r]
  BY <1>1, <1>2, <1>3, FoldSame
<1>5. f[S] = w[c] + f[r]
  <2>1. S \in SUBSET S
    OBVIOUS
  <2>2. IsFold(f, w, S)
    BY <1>1
  <2>3. S # {} => f[S] = w[Chosen(S)] + f[S \ {Chosen(S)}]
    BY <2>1, <2>2, FoldAt
  <2> QED
    BY <2>3
<1> QED
  BY <1>1, <1>3, <1>4, <1>5

\* A sum of integers is an integer, one of natural numbers a natural number.
LEMMA SumIn ==
    ASSUME NEW S, IsFiniteSet(S), NEW w, NEW N, 0 \in N, \A x \in S : w[x] \in N,
           \A m \in N : \A n \in N : m + n \in N
    PROVE  SumOf(w, S) \in N
<1> DEFINE B == {s \in SUBSET S : SumOf(w, s) \notin N}
<1> SUFFICES ASSUME B # {} PROVE FALSE
  OBVIOUS
<1>1. PICK s \in B : \A r \in B : ~(r \subseteq s /\ r # s)
  <2>1. B \in SUBSET SUBSET S
    OBVIOUS
  <2> HIDE DEF B
  <2> QED
    BY <2>1, LeastSubset
<1>2. s \in SUBSET S /\ SumOf(w, s) \notin N /\ IsFiniteSet(s)
  BY FS_Subset
<1>3. s # {}
  BY <1>2, SumEmpty
<1> DEFINE c == Chosen(s)
           r == s \ {c}
<1>4. c \in s
  BY <1>3, ChosenIn
<1>5. SumOf(w, s) = w[c] + SumOf(w, r)
  BY <1>2, <1>3, SumChosen
<1>6. SumOf(w, r) \in N
  BY <1>1, <1>2, <1>4
<1>7. w[c] \in N
  BY <1>2, <1>4
<1> QED
  BY <1>2, <1>5, <1>6, <1>7

LEMMA SumInt ==
    ASSUME NEW S, IsFiniteSet(S), NEW w, \A x \in S : w[x] \in Int
    PROVE  SumOf(w, S) \in Int
<1>1. 0 \in Int /\ \A m \in Int : \A n \in Int : m + n \in Int
  OBVIOUS
<1> QED
  BY <1>1, SumIn

LEMMA SumNat ==
    ASSUME NEW S, IsFiniteSet(S), NEW w, \A x \in S : w[x] \in Nat
    PROVE  SumOf(w, S) \in Nat
<1>1. 0 \in Nat /\ \A m \in Nat : \A n \in Nat : m + n \in Nat
  OBVIOUS
<1> QED
  BY <1>1, SumIn

\* Any element may be taken out of a sum.
LEMMA SumWithout ==
    ASSUME NEW S, IsFiniteSet(S), NEW w, \A y \in S : w[y] \in Int, NEW x \in S
    PROVE  SumOf(w, S) = w[x] + SumOf(w, S \ {x})
<1> DEFINE B == {s \in SUBSET S : \E y \in s : SumOf(w, s) # w[y] + SumOf(w, s \ {y})}
<1> SUFFICES ASSUME B # {} PROVE FALSE
  OBVIOUS
<1>1. PICK s \in B : \A r \in B : ~(r \subseteq s /\ r # s)
  <2>1. B \in SUBSET SUBSET S
    OBVIOUS
  <2> HIDE DEF B
  <2> QED
    BY <2>1, LeastSubset
<1>2. PICK y \in s : SumOf(w, s) # w[y] + SumOf(w, s \ {y})
  OBVIOUS
<1>3. s \in SUBSET S /\ IsFiniteSet(s) /\ s # {}
  BY FS_Subset
<1> DEFINE c == Chosen(s)
           r == s \ {c}
           q == s \ {y}
           o == r \ {y}
<1>4. c \in s /\ SumOf(w, s) = w[c] + SumOf(w, r)
  BY <1>3, ChosenIn, SumChosen
<1>5. c # y
  BY <1>2, <1>4
<1>6. \A z \in r : SumOf(w, r) = w[z] + SumOf(w, r \ {z})
  <2>1. r \in SUBSET S /\ r \subseteq s /\ r # s
    BY <1>3, <1>4
  <2> QED
    BY <1>1, <2>1
<1>7. SumOf(w, r) = w[y] + SumOf(w, o)
  BY <1>5, <1>6
<1>8. \A z \in q : SumOf(w, q) = w[z] + SumOf(w, q \ {z})
  <2>1. q \in SUBSET S /\ q \subseteq s /\ q # s
    BY <1>3, <1>2
  <2> QED
    BY <1>1, <2>1
<1>9. SumOf(w, q) = w[c] + SumOf(w, o)
  <2>1. c \in q /\ q \ {c} = o
    BY <1>4, <1>5
  <2> HIDE DEF q, o, c
  <2> QED
    BY <1>8, <2>1
<1>10. w[c] \in Int /\ w[y] \in Int /\ SumOf(w, o) \in Int
  <2>1. IsFiniteSet(o) /\ o \subseteq S
    BY <1>3, FS_Subset
  <2> QED
    BY <1>3, <1>4, <2>1, SumInt
<1> HIDE DEF B, c, r, q, o
<1>11. SumOf(w, s) = w[y] + SumOf(w, q)
  BY <1>4, <1>7, <1>9, <1>10
<1> QED
  BY <1>2, <1>11 DEF q

\* One element more.
LEMMA SumWith ==
    ASSUME NEW S, IsFiniteSet(S), NEW w, \A y \in S : w[y] \in Int,
           NEW x, x \notin S, w[x] \in Int
    PROVE  SumOf(w, S \cup {x}) = SumOf(w, S) + w[x]
<1> DEFINE T == S \cup {x}
<1>1. IsFiniteSet(T) /\ x \in T /\ T \ {x} = S /\ \A y \in T : w[y] \in Int
  BY FS_AddElement
<1>2. SumOf(w, S) \in Int
  BY SumInt
<1> HIDE DEF T
<1>3. SumOf(w, T) = w[x] + SumOf(w, S)
  BY <1>1, SumWithout
<1> QED
  BY <1>2, <1>3 DEF T

\* The value at one element changes.
LEMMA SumChange ==
    ASSUME NEW S, IsFiniteSet(S), NEW w, NEW v, \A y \in S : w[y] \in Int,
           NEW x \in S, v[x] \in Int, \A y \in S \ {x} : v[y] = w[y]
    PROVE  SumOf(v, S) = SumOf(w, S) - w[x] + v[x]
<1> DEFINE r == S \ {x}
<1>1. IsFiniteSet(r) /\ r \subseteq S
  BY FS_Subset
<1>2. SumOf(w, r) = SumOf(v, r) /\ SumOf(w, r) \in Int
  BY <1>1, SumSame, SumInt
<1>3. SumOf(w, S) = w[x] + SumOf(w, r)
  BY SumWithout
<1>4. SumOf(v, S) = v[x] + SumOf(v, r)
  <2>1. \A y \in S : v[y] \in Int
    OBVIOUS
  <2> QED
    BY <2>1, SumWithout
<1>5. w[x] \in Int
  OBVIOUS
<1> HIDE DEF r
<1> QED
  BY <1>2, <1>3, <1>4, <1>5

\* Where no value is larger, no sum is larger.
LEMMA SumMonotone ==
    ASSUME NEW S, IsFiniteSet(S), NEW w, NEW v,
           \A x \in S : w[x] \in Int /\ v[x] \in Int /\ w[x] <= v[x]
    PROVE  SumOf(w, S) <= SumOf(v, S)
<1> DEFINE B == {s \in SUBSET S : ~(SumOf(w, s) <= SumOf(v, s))}
<1> SUFFICES ASSUME B # {} PROVE FALSE
  OBVIOUS
<1>1. PICK s \in B : \A r \in B : ~(r \subseteq s /\ r # s)
  <2>1. B \in SUBSET SUBSET S
    OBVIOUS
  <2> HIDE DEF B
  <2> QED
    BY <2>1, LeastSubset
<1>2. s \in SUBSET S /\ ~(SumOf(w, s) <= SumOf(v, s)) /\ IsFiniteSet(s)
  BY FS_Subset
<1>3. s # {}
  <2> SUFFICES ASSUME s = {} PROVE FALSE
    OBVIOUS
  <2>1. SumOf(w, s) = 0 /\ SumOf(v, s) = 0
    BY SumEmpty
  <2> QED
    BY <1>2, <2>1
<1> DEFINE c == Chosen(s)
           r == s \ {c}
<1>4. c \in s /\ c \in S
  BY <1>2, <1>3, ChosenIn
<1>5. SumOf(w, s) = w[c] + SumOf(w, r) /\ SumOf(v, s) = v[c] + SumOf(v, r)
  BY <1>2, <1>3, SumChosen
<1>6. SumOf(w, r) <= SumOf(v, r)
  BY <1>1, <1>2, <1>4
<1>7. IsFiniteSet(r) /\ r \subseteq S
  BY <1>2, FS_Subset
<1>8. SumOf(w, r) \in Int /\ SumOf(v, r) \in Int
  BY <1>7, SumInt
<1>9. w[c] \in Int /\ v[c] \in Int /\ w[c] <= v[c]
  BY <1>4
<1> HIDE DEF B, r, c
<1>10. SumOf(w, s) <= SumOf(v, s)
  BY <1>5, <1>6, <1>8, <1>9
<1> QED
  BY <1>2, <1>10

\* The sum of a field of records, as MapThenSumSet has it.
LEMMA FieldSum ==
    ASSUME NEW T, NEW S, IsFiniteSet(S), NEW w, \A k \in S : w[k] = T[k].n
    PROVE  MapThenSumSet(LAMBDA k : T[k].n, S) = SumOf(w, S)
<1> DEFINE Body(h) == [s \in SUBSET S |->
                          IF s = {} THEN 0 ELSE T[Chosen(s)].n + h[s \ {Chosen(s)}]]
           g == CHOOSE h : h = Body(h)
<1>1. PICK f : IsFold(f, w, S) /\ SumOf(w, S) = f[S]
  BY SumIsFold
<1>2. \A s \in SUBSET S : s # {} => w[Chosen(s)] = T[Chosen(s)].n
  BY ChosenIn
<1>3. f = Body(f)
  BY <1>1, <1>2 DEF IsFold
<1>4. g = Body(g)
  BY <1>3
<1>5. MapThenSumSet(LAMBDA k : T[k].n, S) = g[S]
  BY DEF MapThenSumSet, MapThenFoldSet, Chosen
<1> HIDE DEF g
<1>6. IsFold(g, w, S)
  BY <1>2, <1>4 DEF IsFold
<1>7. g[S] = f[S]
  BY <1>1, <1>6, FoldSame
<1> QED
  BY <1>1, <1>5, <1>7

\* Elements whose value is 0 add nothing.
LEMMA SumSupport ==
    ASSUME NEW S, IsFiniteSet(S), NEW T, IsFiniteSet(T), NEW w,
           \A x \in S : w[x] \in Int, \A x \in T : w[x] = 0
    PROVE  SumOf(w, S \cup T) = SumOf(w, S)
<1> DEFINE B == {s \in SUBSET T : SumOf(w, S \cup s) # SumOf(w, S)}
<1> SUFFICES ASSUME B # {} PROVE FALSE
  OBVIOUS
<1>1. PICK s \in B : \A r \in B : ~(r \subseteq s /\ r # s)
  <2>1. B \in SUBSET SUBSET T
    OBVIOUS
  <2> HIDE DEF B
  <2> QED
    BY <2>1, LeastSubset
<1>2. s \in SUBSET T /\ SumOf(w, S \cup s) # SumOf(w, S)
  OBVIOUS
<1>3. PICK c \in s : c \notin S
  <2>1. S \cup s # S
    BY <1>2
  <2> QED
    BY <2>1
<1> DEFINE r == s \ {c}
           R == S \cup r
<1>4. SumOf(w, R) = SumOf(w, S)
  <2>1. r \in SUBSET T /\ r \subseteq s /\ r # s
    BY <1>2, <1>3
  <2> QED
    BY <1>1, <2>1
<1>5. IsFiniteSet(R)
  <2>1. r \in SUBSET T
    BY <1>2
  <2>2. IsFiniteSet(r)
    BY <2>1, FS_Subset
  <2> QED
    BY <2>2, FS_Union
<1>6. c \notin R /\ S \cup s = R \cup {c} /\ w[c] = 0 /\ w[c] \in Int
  BY <1>2, <1>3
<1>7. \A y \in R : w[y] \in Int
  BY <1>2
<1> HIDE DEF B, r, R
<1>8. SumOf(w, R \cup {c}) = SumOf(w, R) + w[c]
  BY <1>5, <1>6, <1>7, SumWith
<1>9. SumOf(w, R) \in Int
  BY <1>5, <1>7, SumInt
<1>10. SumOf(w, R) + 0 = SumOf(w, R)
  BY <1>9
<1> QED
  BY <1>2, <1>4, <1>6, <1>8, <1>10

------------------------------------------------------------------------------
(* Counting                                                                 *)

One(b) == IF b THEN 1 ELSE 0

\* Two finite sets that differ in one element at most.
LEMMA CountMove ==
    ASSUME NEW S, IsFiniteSet(S), NEW T, NEW x, T \ {x} = S \ {x}
    PROVE  /\ IsFiniteSet(T) /\ Cardinality(S) \in Nat /\ Cardinality(T) \in Nat
           /\ Cardinality(T) + One(x \in S) = Cardinality(S) + One(x \in T)
<1> DEFINE r == S \ {x}
<1>1. IsFiniteSet(r) /\ Cardinality(r) = IF x \in S THEN Cardinality(S) - 1 ELSE Cardinality(S)
  BY FS_RemoveElement
<1>2. IsFiniteSet(T)
  <2>1. IsFiniteSet(r \cup {x})
    BY <1>1, FS_AddElement
  <2>2. T \in SUBSET (r \cup {x})
    OBVIOUS
  <2> QED
    BY <2>1, <2>2, FS_Subset
<1>3. Cardinality(T \ {x}) = IF x \in T THEN Cardinality(T) - 1 ELSE Cardinality(T)
  BY <1>2, FS_RemoveElement
<1>4. Cardinality(T) \in Nat /\ Cardinality(S) \in Nat
  BY <1>2, FS_CardinalityType
<1>5. T \ {x} = r
  OBVIOUS
<1> HIDE DEF r
<1> QED
  BY <1>1, <1>2, <1>3, <1>4, <1>5 DEF One

\* The values of a function over a set are those of another over its image.
LEMMA SumMoved ==
    ASSUME NEW S, IsFiniteSet(S), NEW w, NEW v, NEW f, \A x \in S : w[x] \in Int,
           \A x \in S : \A y \in S : f[x] = f[y] => x = y,
           \A x \in S : v[f[x]] = w[x]
    PROVE  SumOf(v, {f[x] : x \in S}) = SumOf(w, S)
<1> DEFINE Im(s) == {f[x] : x \in s}
           B == {s \in SUBSET S : SumOf(v, Im(s)) # SumOf(w, s)}
<1> SUFFICES ASSUME B # {} PROVE FALSE
  OBVIOUS
<1>1. \E s \in B : \A r \in B : ~(r \subseteq s /\ r # s)
  <2>1. B \in SUBSET SUBSET S
    OBVIOUS
  <2> HIDE DEF B
  <2> QED
    BY <2>1, LeastSubset
<1>2. PICK s \in SUBSET S : SumOf(v, Im(s)) # SumOf(w, s)
                           /\ \A r \in SUBSET s : r # s => r \notin B
  BY <1>1
<1>f. IsFiniteSet(s)
  BY FS_Subset
<1>3. s # {}
  <2>1. Im({}) = {}
    OBVIOUS
  <2> QED
    BY <1>2, <2>1, SumEmpty
<1>4. PICK x \in s : TRUE
  BY <1>3
<1>5. SumOf(v, Im(s \ {x})) = SumOf(w, s \ {x})
  BY <1>2, <1>4
<1>6. Im(s) \ {f[x]} = Im(s \ {x}) /\ f[x] \in Im(s)
  BY <1>2, <1>4
<1>7. IsFiniteSet(Im(s))
  <2> DEFINE g == [y \in s |-> f[y]]
  <2>1. g \in Surjection(s, Im(s))
    BY DEF Surjection
  <2> QED
    BY <1>f, <2>1, FS_Surjection
<1>8. \A y \in Im(s) : v[y] \in Int
  BY <1>2
<1>9. SumOf(v, Im(s)) = v[f[x]] + SumOf(v, Im(s) \ {f[x]})
  BY <1>6, <1>7, <1>8, SumWithout
<1>10. SumOf(w, s) = w[x] + SumOf(w, s \ {x})
  BY <1>2, <1>4, <1>f, SumWithout
<1>11. v[f[x]] = w[x]
  BY <1>2, <1>4
<1> QED
  BY <1>2, <1>5, <1>6, <1>9, <1>10, <1>11
==============================================================================
