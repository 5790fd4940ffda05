--------------------------- MODULE DataInduction ---------------------------
(***************************************************************************)
(* Induction stated with sets in place of predicates, which first-order    *)
(* provers can instantiate: a property is the set of what has it.  From    *)
(* it, recursive functions exist and sums over finite sets do not depend   *)
(* on an order.                                                            *)
(***************************************************************************)
EXTENDS Integers, Sequences, FiniteSetTheorems, TLAPS

-----------------------------------------------------------------------------
(* A family of subsets of a finite set has a minimal member.               *)

Family(S, F)  == F \subseteq SUBSET S
HasMinimal(F) == \E T \in F : \A U \in F : U \subseteq T => U = T

LEMMA MinimalMember ==
  ASSUME NEW S, IsFiniteSet(S), NEW F, Family(S, F), F # {}
  PROVE  HasMinimal(F)
<1>1. IsWellFoundedOn(StrictSubsetOrdering(S), FiniteSubsetsOf(S))
  BY FS_StrictSubsetOrderingWellFounded
<1>2. FiniteSubsetsOf(S) = SUBSET S  BY FS_FiniteSubsetsOfFinite
<1>3. PICK T \in F : \A U \in F : <<U, T>> \notin StrictSubsetOrdering(S)
  BY <1>1, <1>2, WFMin DEF Family
<1>4. QED  BY <1>3 DEF StrictSubsetOrdering, HasMinimal, Family

\* What holds of the empty set and of every set with one element more than a set it
\* holds of, holds of a finite set.
LEMMA SetInduction ==
  ASSUME NEW S, IsFiniteSet(S), NEW P, {} \in P,
         \A T \in SUBSET S : \A x \in S \ T : T \in P => T \cup {x} \in P
  PROVE  S \in P
<1> DEFINE F == {T \in SUBSET S : T \notin P}
<1> SUFFICES ASSUME S \notin P  PROVE FALSE  OBVIOUS
<1>1. Family(S, F)  BY DEF Family
<1>2. F # {}  OBVIOUS
<1>3. HasMinimal(F)
  <2> HIDE DEF F
  <2> QED  BY <1>1, <1>2, MinimalMember
<1>4. PICK T \in F : \A U \in F : U \subseteq T => U = T  BY <1>3 DEF HasMinimal
<1>5. PICK x \in T : TRUE  BY <1>4
<1>6. T \ {x} \in SUBSET S /\ x \in S \ (T \ {x}) /\ T \ {x} \subseteq T /\ T \ {x} # T
  BY <1>4, <1>5
<1>7. T \ {x} \in P  BY <1>4, <1>6
<1>8. (T \ {x}) \cup {x} = T  BY <1>5
<1>9. QED  BY <1>4, <1>6, <1>7, <1>8

\* What holds of 0, and of the successor of every number below n it holds of, holds
\* up to n.
LEMMA UpTo ==
  ASSUME NEW n \in Nat, NEW P, 0 \in P, \A i \in 0..n - 1 : i \in P => i + 1 \in P
  PROVE  \A i \in 0..n : i \in P
<1> SUFFICES ASSUME NEW t \in 0..n, t \notin P  PROVE FALSE  OBVIOUS
<1> DEFINE F == {0..i : i \in {j \in 0..n : j \notin P}}
<1>1. IsFiniteSet(0..n)  BY FS_Interval
<1>2. Family(0..n, F)  BY DEF Family
<1>3. F # {}  OBVIOUS
<1>4. HasMinimal(F)
  <2> HIDE DEF F
  <2> QED  BY <1>1, <1>2, <1>3, MinimalMember
<1>5. PICK m \in 0..n : m \notin P /\ \A U \in F : U \subseteq 0..m => U = 0..m
  BY <1>4 DEF HasMinimal
<1>6. m - 1 \in 0..n - 1 /\ m - 1 \notin P  BY <1>5
<1>7. 0..m - 1 \in F /\ 0..m - 1 \subseteq 0..m  BY <1>6
<1>8. 0..m - 1 = 0..m  BY <1>5, <1>7
<1>9. m \in 0..m /\ m \notin 0..m - 1  OBVIOUS
<1>10. QED  BY <1>8, <1>9

\* What holds of a set whose proper subsets it holds of, holds of every subset of a
\* finite set.
LEMMA SubsetInduction ==
  ASSUME NEW S, IsFiniteSet(S), NEW P,
         \A T \in SUBSET S : (\A U \in SUBSET T : U # T => U \in P) => T \in P
  PROVE  \A T \in SUBSET S : T \in P
<1> DEFINE F == {T \in SUBSET S : T \notin P}
<1> SUFFICES ASSUME F # {}  PROVE FALSE  OBVIOUS
<1>1. Family(S, F)  BY DEF Family
<1>2. HasMinimal(F)
  <2> HIDE DEF F
  <2> QED  BY <1>1, MinimalMember
<1>3. PICK T \in F : \A U \in F : U \subseteq T => U = T  BY <1>2 DEF HasMinimal
<1>4. \A U \in SUBSET T : U # T => U \in P  BY <1>3
<1>5. QED  BY <1>3, <1>4

-----------------------------------------------------------------------------
(* Sums.  MapThenSumSet takes one chosen element after the other off a set; *)
(* what it computes is the last value of a function that Sums.              *)

Pick(T) == CHOOSE x \in T : TRUE

Sums(sum, f, S) ==
    sum = [T \in SUBSET S |-> IF T = {} THEN 0 ELSE f[Pick(T)] + sum[T \ {Pick(T)}]]

LEMMA PickIn == ASSUME NEW T, T # {}  PROVE Pick(T) \in T
  BY DEF Pick

LEMMA SumsStep ==
  ASSUME NEW S, NEW f, NEW sum, Sums(sum, f, S), NEW T \in SUBSET S
  PROVE  sum[T] = IF T = {} THEN 0 ELSE f[Pick(T)] + sum[T \ {Pick(T)}]
  BY DEF Sums

LEMMA SumsAgree ==
  ASSUME NEW S, IsFiniteSet(S), NEW f, NEW g, NEW U, NEW V, NEW sum, NEW total,
         S \subseteq U, S \subseteq V, \A x \in S : f[x] = g[x],
         Sums(sum, f, U), Sums(total, g, V)
  PROVE  sum[S] = total[S]
<1> DEFINE P == {T \in SUBSET S : sum[T] = total[T]}
<1>1. ASSUME NEW T \in SUBSET S, \A W \in SUBSET T : W # T => W \in P
      PROVE  T \in P
  <2>1. /\ sum[T] = IF T = {} THEN 0 ELSE f[Pick(T)] + sum[T \ {Pick(T)}]
        /\ total[T] = IF T = {} THEN 0 ELSE g[Pick(T)] + total[T \ {Pick(T)}]
    <3>1. T \in SUBSET U /\ T \in SUBSET V  OBVIOUS
    <3>2. QED  BY <3>1, SumsStep
  <2>2. CASE T # {}
    <3>1. Pick(T) \in T  BY <2>2, PickIn
    <3>2. T \ {Pick(T)} \in P  BY <1>1, <3>1
    <3>3. QED  BY <2>1, <3>1, <3>2
  <2>3. QED  BY <2>1, <2>2
<1>2. \A T \in SUBSET S : T \in P
  <2> HIDE DEF P
  <2> QED  BY <1>1, SubsetInduction
<1>3. QED  BY <1>2

LEMMA SumsExist ==
  ASSUME NEW S, IsFiniteSet(S), NEW f
  PROVE  \E sum : Sums(sum, f, S)
<1> DEFINE P == {T \in SUBSET S : \E sum : Sums(sum, f, T)}
           Of(T) == CHOOSE sum : Sums(sum, f, T)
<1>1. ASSUME NEW T \in SUBSET S, \A U \in SUBSET T : U # T => U \in P
      PROVE  T \in P
  <2> DEFINE last(U) == Of(U)[U]
             sum == [U \in SUBSET T |-> IF U = {} THEN 0
                                        ELSE f[Pick(U)] + last(U \ {Pick(U)})]
  <2>1. ASSUME NEW U \in SUBSET T, U # T
        PROVE  Sums(Of(U), f, U)
    BY <1>1, <2>1
  <2>2. ASSUME NEW U \in SUBSET T, U # T  PROVE sum[U] = last(U)
    <3>1. last(U) = IF U = {} THEN 0 ELSE f[Pick(U)] + Of(U)[U \ {Pick(U)}]
      <4> HIDE DEF Of
      <4> QED  BY <2>1, <2>2, SumsStep
    <3>2. CASE U = {}  BY <3>1, <3>2
    <3>3. CASE U # {}
      <4> DEFINE W == U \ {Pick(U)}
      <4>1. Pick(U) \in U  BY <3>3, PickIn
      <4>2. W \in SUBSET T /\ W # T /\ W \subseteq U /\ IsFiniteSet(W)
        BY <4>1, <2>2, FS_Subset
      <4>3. Sums(Of(W), f, W) /\ Sums(Of(U), f, U)  BY <2>1, <2>2, <4>2
      <4>4. Of(W)[W] = Of(U)[W]
        <5> HIDE DEF Of, W
        <5> QED  BY <4>2, <4>3, SumsAgree
      <4>5. QED  BY <3>1, <3>3, <4>4
    <3>4. QED  BY <3>2, <3>3
  <2>3. \A U \in SUBSET T : U # {} => /\ U \ {Pick(U)} \in SUBSET T
                                      /\ U \ {Pick(U)} # T
    BY PickIn
  <2>4. Sums(sum, f, T)
    <3> HIDE DEF last
    <3> QED BY <2>2, <2>3 DEF Sums
  <2>5. QED  BY <2>4
<1>2. \A T \in SUBSET S : T \in P
  <2> HIDE DEF P
  <2> QED  BY <1>1, SubsetInduction
<1>3. QED  BY <1>2

LEMMA SumsTyped ==
  ASSUME NEW S, IsFiniteSet(S), NEW f \in [S -> Nat], NEW sum, Sums(sum, f, S)
  PROVE  \A T \in SUBSET S : sum[T] \in Nat
<1> DEFINE P == {T \in SUBSET S : sum[T] \in Nat}
<1>1. ASSUME NEW T \in SUBSET S, \A U \in SUBSET T : U # T => U \in P
      PROVE  T \in P
  <2>1. sum[T] = IF T = {} THEN 0 ELSE f[Pick(T)] + sum[T \ {Pick(T)}]
    BY DEF Sums
  <2>2. CASE T # {}
    <3>1. Pick(T) \in T  BY <2>2, PickIn
    <3>2. T \ {Pick(T)} \in P /\ f[Pick(T)] \in Nat  BY <1>1, <3>1
    <3>3. QED  BY <2>1, <2>2, <3>2
  <2>3. QED  BY <2>1, <2>2
<1>2. \A T \in SUBSET S : T \in P
  <2> HIDE DEF P
  <2> QED  BY <1>1, SubsetInduction
<1>3. QED  BY <1>2

\* Any element may be taken off first.
LEMMA SumsApart ==
  ASSUME NEW S, IsFiniteSet(S), NEW f \in [S -> Nat], NEW sum, Sums(sum, f, S)
  PROVE  \A T \in SUBSET S : \A x \in T : sum[T] = f[x] + sum[T \ {x}]
<1> DEFINE P == {T \in SUBSET S : \A x \in T : sum[T] = f[x] + sum[T \ {x}]}
<1>1. \A T \in SUBSET S : sum[T] \in Nat  BY SumsTyped
<1>2. ASSUME NEW T \in SUBSET S, \A U \in SUBSET T : U # T => U \in P, NEW x \in T
      PROVE  sum[T] = f[x] + sum[T \ {x}]
  <2> DEFINE y == Pick(T)
  <2>1. sum[T] = f[y] + sum[T \ {y}]  BY SumsStep
  <2>2. y \in T  BY PickIn
  <2>3. CASE x # y
    <3>1. T \ {x} \in P /\ T \ {y} \in P /\ y \in T \ {x} /\ x \in T \ {y}
      BY <1>2, <2>2, <2>3
    <3>2. sum[T \ {x}] = f[y] + sum[(T \ {x}) \ {y}]  BY <3>1
    <3>3. sum[T \ {y}] = f[x] + sum[(T \ {y}) \ {x}]  BY <3>1
    <3>4. sum[(T \ {x}) \ {y}] = sum[(T \ {y}) \ {x}]
      <4>1. (T \ {x}) \ {y} = (T \ {y}) \ {x}  OBVIOUS
      <4>2. QED  BY <4>1
    <3>5. sum[(T \ {x}) \ {y}] \in Nat /\ f[x] \in Nat /\ f[y] \in Nat  BY <1>1, <2>2
    <3>6. ASSUME NEW all \in Int, NEW less \in Int, NEW other \in Int, NEW rest \in Nat,
                 NEW a \in Nat, NEW b \in Nat, all = b + other, less = b + rest,
                 other = a + rest
          PROVE  all = a + less
      BY <3>6
    <3>7. sum[T] \in Nat /\ sum[T \ {x}] \in Nat /\ sum[T \ {y}] \in Nat  BY <1>1
    <3> HIDE DEF y
    <3>8. QED  BY <2>1, <3>2, <3>3, <3>4, <3>5, <3>6, <3>7
  <2>4. QED  BY <2>1, <2>3
<1>3. \A T \in SUBSET S : T \in P
  <2>1. ASSUME NEW T \in SUBSET S, \A U \in SUBSET T : U # T => U \in P
        PROVE  T \in P
    BY <1>2, <2>1
  <2> HIDE DEF P
  <2> QED  BY <2>1, SubsetInduction
<1>4. QED  BY <1>3

-----------------------------------------------------------------------------
(* The total of a function's values *)

Total(f) == (CHOOSE sum : Sums(sum, f, DOMAIN f))[DOMAIN f]

Part(f, T) == [x \in T |-> f[x]]

LEMMA TotalIs ==
  ASSUME NEW S, IsFiniteSet(S), NEW f, NEW sum, Sums(sum, f, S),
         NEW T \in SUBSET S, NEW g, DOMAIN g = T, \A x \in T : g[x] = f[x]
  PROVE  Total(g) = sum[T]
<1>1. IsFiniteSet(T)  BY FS_Subset
<1>2. PICK total : total = (CHOOSE t : Sums(t, g, T)) /\ Sums(total, g, T)
  BY <1>1, SumsExist
<1>3. total[T] = sum[T]  BY <1>1, <1>2, SumsAgree
<1>4. QED  BY <1>2, <1>3 DEF Total

LEMMA TotalTyped ==
  ASSUME NEW S, IsFiniteSet(S), NEW f \in [S -> Nat]
  PROVE  Total(f) \in Nat
<1>1. PICK sum : Sums(sum, f, S)  BY SumsExist
<1>2. Total(f) = sum[S] /\ sum[S] \in Nat  BY <1>1, TotalIs, SumsTyped
<1>3. QED  BY <1>2

LEMMA TotalEmpty == \A f : DOMAIN f = {} => Total(f) = 0
<1> SUFFICES ASSUME NEW f, DOMAIN f = {}  PROVE Total(f) = 0  OBVIOUS
<1>1. IsFiniteSet({})  BY FS_EmptySet
<1>2. PICK sum : Sums(sum, f, {})  BY <1>1, SumsExist
<1>3. Total(f) = sum[{}]  BY <1>1, <1>2, TotalIs
<1>4. QED  BY <1>2, <1>3, SumsStep

LEMMA TotalApart ==
  ASSUME NEW S, IsFiniteSet(S), NEW f \in [S -> Nat], NEW x \in S
  PROVE  Total(f) = f[x] + Total(Part(f, S \ {x}))
<1>1. PICK sum : Sums(sum, f, S)  BY SumsExist
<1>2. Total(f) = sum[S]  BY <1>1, TotalIs
<1>3. Total(Part(f, S \ {x})) = sum[S \ {x}]  BY <1>1, TotalIs DEF Part
<1>4. QED  BY <1>1, <1>2, <1>3, SumsApart

\* A part of the values, each perhaps less, makes no more.
LEMMA TotalMonotonic ==
  ASSUME NEW S, IsFiniteSet(S), NEW f \in [S -> Nat],
         NEW T \in SUBSET S, NEW g \in [T -> Nat], \A x \in T : g[x] <= f[x]
  PROVE  Total(g) <= Total(f)
<1> DEFINE h(W) == Total(Part(g, W \cap T))
           P == {W \in SUBSET S : h(W) <= Total(Part(f, W))}
<1>1. {} \in P
  BY TotalEmpty DEF Part
<1>2. ASSUME NEW W \in SUBSET S, NEW x \in S \ W, W \in P
      PROVE  W \cup {x} \in P
  <2> DEFINE V == W \cup {x}
  <2>1. IsFiniteSet(V) /\ IsFiniteSet(W) /\ IsFiniteSet(V \cap T) /\ IsFiniteSet(W \cap T)
    BY FS_Subset
  <2>2. /\ Part(f, V) \in [V -> Nat] /\ Part(f, W) \in [W -> Nat]
        /\ Part(g, V \cap T) \in [V \cap T -> Nat] /\ Part(g, W \cap T) \in [W \cap T -> Nat]
    BY DEF Part
  <2>3. Part(Part(f, V), V \ {x}) = Part(f, W)  BY <1>2 DEF Part
  <2>4. Total(Part(f, V)) = f[x] + Total(Part(f, W))
    <3>1. Total(Part(f, V)) = Part(f, V)[x] + Total(Part(Part(f, V), V \ {x}))
      <4> HIDE DEF V
      <4>1. x \in V  BY DEF V
      <4> QED  BY <2>1, <2>2, <4>1, TotalApart
    <3>2. QED  BY <3>1, <2>3 DEF Part
  <2>5. Total(Part(f, W)) \in Nat /\ h(W) \in Nat  BY <2>1, <2>2, TotalTyped
  <2>6. CASE x \in T
    <3>1. Part(Part(g, V \cap T), (V \cap T) \ {x}) = Part(g, W \cap T)  BY <1>2 DEF Part
    <3>2. h(V) = Part(g, V \cap T)[x] + Total(Part(Part(g, V \cap T), (V \cap T) \ {x}))
      <4> HIDE DEF V
      <4>1. x \in V \cap T  BY <2>6 DEF V
      <4> QED  BY <2>1, <2>2, <4>1, TotalApart
    <3>3. h(V) = g[x] + h(W)  BY <3>1, <3>2, <2>6 DEF Part
    <3>4. g[x] <= f[x] /\ g[x] \in Nat /\ f[x] \in Nat  BY <2>6
    <3>5. h(W) <= Total(Part(f, W))  BY <1>2
    <3> HIDE DEF h
    <3>6. h(V) <= Total(Part(f, V))  BY <2>4, <2>5, <3>3, <3>4, <3>5
    <3>7. QED  BY <3>6
  <2>7. CASE x \notin T
    <3>1. h(V) = h(W)
      <4>1. V \cap T = W \cap T  BY <2>7
      <4>2. QED  BY <4>1
    <3>2. f[x] \in Nat /\ h(W) <= Total(Part(f, W))  BY <1>2
    <3> HIDE DEF h
    <3>3. h(V) <= Total(Part(f, V))  BY <2>4, <2>5, <3>1, <3>2
    <3>4. QED  BY <3>3
  <2>8. QED  BY <2>6, <2>7
<1>3. S \in P
  <2> HIDE DEF P
  <2> QED  BY <1>1, <1>2, SetInduction
<1>4. Part(g, S \cap T) = g /\ Part(f, S) = f
  <2>1. S \cap T = T  OBVIOUS
  <2>2. Part(g, T) = g /\ Part(f, S) = f  BY DEF Part
  <2>3. QED  BY <2>1, <2>2
<1>5. QED  BY <1>3, <1>4

=============================================================================
