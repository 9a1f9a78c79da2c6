----------------------------- MODULE FoldLemmas -----------------------------
(***************************************************************************)
(* Induction over numbers, sets and sequences, and what the folds of the   *)
(* community modules compute, for the proofs about models that use them.   *)
(*                                                                         *)
(* The provers cannot instantiate an operator parameter, so an induction   *)
(* is stated with the set of the things that have the property, and the    *)
(* function a fold recurses with is shown to exist by hand: as the limit   *)
(* of its restrictions to ever larger sets.                                *)
(***************************************************************************)
EXTENDS Integers, Sequences, FiniteSets, FiniteSetsExt, SequencesExt,
        FiniteSetTheorems, WellFoundedInduction, TLAPS

(* A nonempty set of naturals has a least element.                         *)
LEMMA LeastNatural ==
  ASSUME NEW T \in SUBSET Nat, T # {}
  PROVE  \E x \in T : \A y \in T : x <= y
<1>1. \E x \in T : \A y \in T : ~(<<y, x>> \in OpToRel(<, Nat))
  BY NatLessThanWellFounded, WFMin
<1>2. PICK x \in T : \A y \in T : ~(<<y, x>> \in OpToRel(<, Nat))
  BY <1>1
<1>3. \A y \in T : ~(y < x)
  BY <1>2 DEF OpToRel
<1>4. QED
  BY <1>3

(* Induction over the naturals.                                            *)
LEMMA NatInductive ==
  ASSUME NEW G, 0 \in G, \A n \in Nat : n \in G => n + 1 \in G
  PROVE  \A n \in Nat : n \in G
<1> DEFINE T == Nat \ G
<1> SUFFICES ASSUME T # {} PROVE FALSE
  OBVIOUS
<1>1. PICK x \in T : \A y \in T : x <= y
  BY LeastNatural
<1>2. x - 1 \in Nat /\ x - 1 \notin T
  BY <1>1
<1>3. QED
  BY <1>2

(* Induction over the subsets of a finite set.                             *)
LEMMA SubsetInductive ==
  ASSUME NEW S, IsFiniteSet(S), NEW G, {} \in G,
         \A T \in SUBSET S : T # {} /\ (\A x \in T : T \ {x} \in G) => T \in G
  PROVE  \A T \in SUBSET S : T \in G
<1> DEFINE H == {n \in Nat : \A T \in SUBSET S : Cardinality(T) = n => T \in G}
<1>1. \A T \in SUBSET S : IsFiniteSet(T) /\ Cardinality(T) \in Nat
  BY FS_Subset, FS_CardinalityType
<1>2. 0 \in H
  BY <1>1, FS_EmptySet
<1>3. ASSUME NEW n \in Nat, n \in H
      PROVE  n + 1 \in H
  <2> SUFFICES ASSUME NEW T \in SUBSET S, Cardinality(T) = n + 1
               PROVE  T \in G
    OBVIOUS
  <2>1. T # {}
    <3>1. Cardinality({}) = 0 /\ n + 1 # 0
      BY FS_EmptySet
    <3> QED
      BY <3>1
  <2>2. \A x \in T : T \ {x} \in SUBSET S /\ Cardinality(T \ {x}) = n
    BY <1>1, FS_RemoveElement
  <2> QED
    BY <1>3, <2>1, <2>2
<1> HIDE DEF H
<1>4. \A n \in Nat : n \in H
  BY <1>2, <1>3, NatInductive
<1> QED
  BY <1>1, <1>4 DEF H

(* Induction over a size: what holds of a place when it holds of all       *)
(* smaller ones holds of every place.                                      *)
Sized(X, size) == \A x \in X : size[x] \in Nat

Inherits(X, size, G) ==
  \A x \in X : (\A y \in X : size[y] < size[x] => y \in G) => x \in G

LEMMA SizeInductive ==
  ASSUME NEW X, NEW size, Sized(X, size), NEW G, Inherits(X, size, G)
  PROVE  \A x \in X : x \in G
<1> USE DEF Sized, Inherits
<1> DEFINE T == {n \in Nat : \E x \in X : x \notin G /\ size[x] = n}
<1> SUFFICES ASSUME NEW z \in X, z \notin G PROVE FALSE
  OBVIOUS
<1>1. T \in SUBSET Nat /\ T # {}
  OBVIOUS
<1>2. PICK n \in T : \A k \in T : n <= k
  BY <1>1, LeastNatural
<1>3. PICK x \in X : x \notin G /\ size[x] = n
  BY <1>2
<1>4. ASSUME NEW y \in X, size[y] < size[x], y \notin G
      PROVE  FALSE
  <2>1. size[y] \in T /\ n \in Nat /\ size[y] \in Nat
    BY <1>2, <1>4
  <2> HIDE DEF T
  <2> QED
    BY <1>2, <1>3, <1>4, <2>1
<1> QED
  BY <1>3, <1>4

-----------------------------------------------------------------------------
(* A walk from place to place: f[x] is what is found where the walk from x *)
(* ends.  Stop are the places where it does, Go says how it goes on from   *)
(* the others, and size is what each step makes smaller.                   *)
IsWalk(f, X, Stop, Res, Go) ==
  f = [x \in X |-> IF x \in Stop THEN Res[x] ELSE f[Go[x]]]

(* A function may be defined by such a recursion.                          *)
LEMMA WalkExists ==
  ASSUME NEW X, NEW Stop, NEW Res, NEW Go, NEW size,
         \A x \in X : size[x] \in Nat,
         \A x \in X : x \notin Stop => Go[x] \in X /\ size[Go[x]] < size[x]
  PROVE  \E f : IsWalk(f, X, Stop, Res, Go)
<1> DEFINE D(n) == {x \in X : size[x] <= n}
           Good(n, g) == g = [x \in D(n) |-> IF x \in Stop THEN Res[x] ELSE g[Go[x]]]
           H == {n \in Nat : \E g : Good(n, g)}
           U == {n \in Nat : \A g, h : \A k \in Nat :
                   n <= k /\ Good(n, g) /\ Good(k, h) => \A x \in D(n) : h[x] = g[x]}
<1>1. 0 \in H
  <2> DEFINE g == [x \in D(0) |-> Res[x]]
  <2>1. \A x \in D(0) : x \in Stop
    <3> SUFFICES ASSUME NEW x \in D(0), x \notin Stop PROVE FALSE
      OBVIOUS
    <3>1. Go[x] \in X /\ size[Go[x]] < size[x] /\ size[x] <= 0
      OBVIOUS
    <3>2. size[Go[x]] \in Nat /\ size[x] \in Nat
      BY <3>1
    <3> QED
      BY <3>1, <3>2
  <2> HIDE DEF D
  <2>2. g = [x \in D(0) |-> IF x \in Stop THEN Res[x] ELSE g[Go[x]]]
    BY <2>1
  <2> QED
    BY <2>2
<1>2. ASSUME NEW n \in Nat, NEW x \in D(n + 1), x \notin Stop
      PROVE  Go[x] \in D(n)
  <2>1. Go[x] \in X /\ size[Go[x]] < size[x] /\ size[x] <= n + 1
    BY <1>2
  <2>2. size[Go[x]] \in Nat /\ size[x] \in Nat
    BY <2>1, <1>2
  <2> QED
    BY <2>1, <2>2
<1>3. ASSUME NEW n \in Nat, NEW k \in Nat, n <= k
      PROVE  D(n) \subseteq D(k)
  <2> SUFFICES ASSUME NEW x \in D(n) PROVE size[x] <= k
    OBVIOUS
  <2>1. size[x] \in Nat /\ size[x] <= n
    OBVIOUS
  <2> QED
    BY <1>3, <2>1
<1> HIDE DEF D
<1>4. ASSUME NEW n \in Nat, n \in H
      PROVE  n + 1 \in H
  <2>1. PICK g : Good(n, g)
    BY <1>4
  <2> DEFINE h == [x \in D(n + 1) |-> IF x \in Stop THEN Res[x] ELSE g[Go[x]]]
  <2>2. \A x \in D(n) : h[x] = g[x]
    <3>1. D(n) \subseteq D(n + 1)
      BY <1>3
    <3>2. \A x \in D(n) : g[x] = IF x \in Stop THEN Res[x] ELSE g[Go[x]]
      BY <2>1
    <3> QED
      BY <3>1, <3>2
  <2>3. h = [x \in D(n + 1) |-> IF x \in Stop THEN Res[x] ELSE h[Go[x]]]
    <3>1. ASSUME NEW x \in D(n + 1), x \notin Stop
          PROVE  h[Go[x]] = g[Go[x]]
      BY <1>2, <2>2, <3>1
    <3> QED
      BY <3>1
  <2>4. Good(n + 1, h)
    BY <2>3
  <2> HIDE DEF Good, h
  <2> QED
    BY <2>4
<1>5. 0 \in U
  <2> SUFFICES ASSUME NEW g, NEW h, NEW k \in Nat, Good(0, g), Good(k, h), NEW x \in D(0)
               PROVE  h[x] = g[x]
    OBVIOUS
  <2>1. x \in Stop
    <3>1. x \notin Stop => Go[x] \in X /\ size[Go[x]] < size[x] /\ size[x] <= 0 /\ x \in X
      BY DEF D
    <3>2. x \notin Stop => size[Go[x]] \in Nat /\ size[x] \in Nat
      BY <3>1
    <3> QED
      BY <3>1, <3>2
  <2>2. x \in D(k)
    BY <1>3
  <2>3. g[x] = Res[x]
    BY <2>1
  <2>4. h[x] = Res[x]
    BY <2>1, <2>2
  <2> QED
    BY <2>3, <2>4
<1>6. ASSUME NEW n \in Nat, n \in U
      PROVE  n + 1 \in U
  <2> SUFFICES ASSUME NEW g, NEW h, NEW k \in Nat, n + 1 <= k, Good(n + 1, g), Good(k, h),
                      NEW x \in D(n + 1)
               PROVE  h[x] = g[x]
    OBVIOUS
  <2> DEFINE b == [y \in D(n) |-> g[y]]
  <2>1. D(n) \subseteq D(n + 1) /\ D(n + 1) \subseteq D(k)
    BY <1>3
  <2>2. ASSUME NEW y \in D(n), y \notin Stop
        PROVE  Go[y] \in D(n)
    <3>1. y \in X /\ size[y] <= n /\ Go[y] \in X /\ size[Go[y]] < size[y]
      BY <2>2 DEF D
    <3>2. size[y] \in Nat /\ size[Go[y]] \in Nat
      BY <3>1
    <3> QED
      BY <3>1, <3>2 DEF D
  <2>3. \A y \in D(n) : g[y] = IF y \in Stop THEN Res[y] ELSE g[Go[y]]
    BY <2>1
  <2>4. b = [y \in D(n) |-> IF y \in Stop THEN Res[y] ELSE b[Go[y]]]
    BY <2>2, <2>3
  <2>5. \A y \in D(n) : h[y] = g[y]
    <3> HIDE DEF b
    <3>1. Good(n, b) /\ n <= k
      BY <2>4
    <3>2. \A y \in D(n) : h[y] = b[y]
      BY <1>6, <3>1
    <3> QED
      BY <3>2 DEF b
  <2>6. g[x] = IF x \in Stop THEN Res[x] ELSE g[Go[x]]
    OBVIOUS
  <2>7. h[x] = IF x \in Stop THEN Res[x] ELSE h[Go[x]]
    BY <2>1
  <2>8. x \notin Stop => Go[x] \in D(n)
    BY <1>2
  <2> QED
    BY <2>5, <2>6, <2>7, <2>8
<1> HIDE DEF H, U
<1>7. \A n \in Nat : n \in H
  BY <1>1, <1>4, NatInductive
<1>8. \A n \in Nat : n \in U
  BY <1>5, <1>6, NatInductive
<1> DEFINE L(n) == CHOOSE g : Good(n, g)
           f == [x \in X |-> L(size[x])[x]]
<1>9. \A n \in Nat : Good(n, L(n))
  <2> HIDE DEF Good
  <2> QED
    BY <1>7 DEF H
<1> HIDE DEF L
<1>10. ASSUME NEW x \in X
       PROVE  f[x] = IF x \in Stop THEN Res[x] ELSE f[Go[x]]
  <2>1. size[x] \in Nat /\ x \in D(size[x])
    BY DEF D
  <2>2. L(size[x])[x] = IF x \in Stop THEN Res[x] ELSE L(size[x])[Go[x]]
    BY <1>9, <2>1
  <2>3. ASSUME x \notin Stop
        PROVE  L(size[x])[Go[x]] = L(size[Go[x]])[Go[x]] /\ Go[x] \in X
    <3>1. Go[x] \in X /\ size[Go[x]] \in Nat /\ size[Go[x]] <= size[x]
      <4>1. Go[x] \in X /\ size[Go[x]] < size[x]
        BY <2>3
      <4>2. size[Go[x]] \in Nat
        BY <4>1
      <4> QED
        BY <2>1, <4>1, <4>2
    <3>2. Go[x] \in D(size[Go[x]])
      BY <3>1 DEF D
    <3>3. Good(size[Go[x]], L(size[Go[x]])) /\ Good(size[x], L(size[x]))
      BY <1>9, <2>1, <3>1
    <3>4. \A y \in D(size[Go[x]]) : L(size[x])[y] = L(size[Go[x]])[y]
      <4> HIDE DEF Good
      <4> QED
        BY <1>8, <2>1, <3>1, <3>3 DEF U
    <3> QED
      BY <3>1, <3>2, <3>4
  <2> QED
    BY <2>2, <2>3
<1> QED
  BY <1>10 DEF IsWalk

-----------------------------------------------------------------------------
IsRecursive(g, S, V, base, pick, next) ==
  /\ g \in [SUBSET S -> V]
  /\ \A T \in SUBSET S : g[T] = IF T = {} THEN base ELSE next[T][g[T \ {pick[T]}]]

(* A function on the subsets of a finite set may be defined by what it is  *)
(* for the empty set and how it follows, for any other set, from its value *)
(* for the set without one element.                                        *)
LEMMA SubsetRecursion ==
  ASSUME NEW S, IsFiniteSet(S), NEW V, NEW base \in V,
         NEW pick, \A T \in SUBSET S : T # {} => pick[T] \in T,
         NEW next, \A T \in SUBSET S, v \in V : T # {} => next[T][v] \in V
  PROVE  \E g : IsRecursive(g, S, V, base, pick, next)
<1> DEFINE D(n) == {T \in SUBSET S : Cardinality(T) <= n}
           Good(n, g) == \A T \in D(n) :
             g[T] = IF T = {} THEN base ELSE next[T][g[T \ {pick[T]}]]
           H == {n \in Nat : \E g \in [D(n) -> V] : Good(n, g)}
<1>1. \A T \in SUBSET S : IsFiniteSet(T) /\ Cardinality(T) \in Nat
  BY FS_Subset, FS_CardinalityType
<1>2. 0 \in H
  <2> DEFINE g == [T \in D(0) |-> base]
  <2>1. \A T \in D(0) : T = {}
    BY <1>1, FS_EmptySet
  <2>2. g \in [D(0) -> V] /\ Good(0, g)
    BY <2>1
  <2> QED
    BY <2>2
<1>3. ASSUME NEW n \in Nat, n \in H
      PROVE  n + 1 \in H
  <2>1. PICK g \in [D(n) -> V] : Good(n, g)
    BY <1>3
  <2> DEFINE h == [T \in D(n + 1) |->
                     IF T = {} THEN base ELSE next[T][g[T \ {pick[T]}]]]
  <2>2. \A T \in D(n + 1) : T # {} => T \ {pick[T]} \in D(n)
    <3> SUFFICES ASSUME NEW T \in D(n + 1), T # {}
                 PROVE  T \ {pick[T]} \in D(n)
      OBVIOUS
    <3>1. pick[T] \in T
      OBVIOUS
    <3>2. Cardinality(T \ {pick[T]}) = Cardinality(T) - 1
      BY <1>1, <3>1, FS_RemoveElement
    <3> QED
      BY <1>1, <3>2
  <2>3. D(n) \subseteq D(n + 1)
    BY <1>1
  <2>4. \A T \in D(n) : h[T] = g[T]
    BY <2>1, <2>3
  <2>5. Good(n + 1, h)
    <3> SUFFICES ASSUME NEW T \in D(n + 1)
                 PROVE  h[T] = IF T = {} THEN base ELSE next[T][h[T \ {pick[T]}]]
      OBVIOUS
    <3>1. T # {} => h[T \ {pick[T]}] = g[T \ {pick[T]}]
      BY <2>2, <2>4
    <3> HIDE DEF D
    <3> QED
      BY <3>1
  <2>6. h \in [D(n + 1) -> V]
    <3> SUFFICES ASSUME NEW T \in D(n + 1)
                 PROVE  h[T] \in V
      OBVIOUS
    <3>1. T # {} => g[T \ {pick[T]}] \in V
      BY <2>2
    <3> QED
      BY <3>1
  <2> HIDE DEF D, Good, h
  <2>7. n + 1 \in Nat
    OBVIOUS
  <2> QED
    BY <2>5, <2>6, <2>7
<1> HIDE DEF H
<1>4. Cardinality(S) \in H
  BY <1>1, <1>2, <1>3, NatInductive
<1>5. D(Cardinality(S)) = SUBSET S
  BY FS_Subset, <1>1
<1> QED
  BY <1>4, <1>5 DEF H, IsRecursive

-----------------------------------------------------------------------------
(* Sums.                                                                   *)

SumOver(f, S) == MapThenSumSet(LAMBDA x : f[x], S)

AnyOf(T) == CHOOSE x \in T : TRUE

IsSumTable(g, f, S) ==
  /\ g \in [SUBSET S -> Nat]
  /\ \A T \in SUBSET S :
       g[T] = IF T = {} THEN 0 ELSE f[AnyOf(T)] + g[T \ {AnyOf(T)}]

(* The sum over a set is what its recursive definition says.               *)
LEMMA SumRecursion ==
  ASSUME NEW S, IsFiniteSet(S), NEW f, \A x \in S : f[x] \in Nat
  PROVE  \E g : IsSumTable(g, f, S) /\ SumOver(f, S) = g[S]
<1> DEFINE Sums(g) == g = [s \in SUBSET S |->
             IF s = {} THEN 0 ELSE f[AnyOf(s)] + g[s \ {AnyOf(s)}]]
           pick == [T \in SUBSET S |-> AnyOf(T)]
           next == [T \in SUBSET S |-> [v \in Nat |-> f[AnyOf(T)] + v]]
<1>1. \A T \in SUBSET S : T # {} => AnyOf(T) \in T
  BY DEF AnyOf
<1>2. PICK g : IsRecursive(g, S, Nat, 0, pick, next)
  <2>1. \A T \in SUBSET S : T # {} => pick[T] \in T
    BY <1>1
  <2>2. \A T \in SUBSET S, v \in Nat : T # {} => next[T][v] \in Nat
    BY <1>1
  <2>3. 0 \in Nat
    OBVIOUS
  <2> HIDE DEF pick, next
  <2> QED
    BY <2>1, <2>2, <2>3, SubsetRecursion
<1>3. ASSUME NEW T \in SUBSET S
      PROVE  g[T] = IF T = {} THEN 0 ELSE f[AnyOf(T)] + g[T \ {AnyOf(T)}]
  <2>1. pick[T] = AnyOf(T) /\ T \ {AnyOf(T)} \in SUBSET S
    OBVIOUS
  <2>2. next[T][g[T \ {AnyOf(T)}]] = f[AnyOf(T)] + g[T \ {AnyOf(T)}]
    BY <1>2, <2>1 DEF IsRecursive
  <2> HIDE DEF pick, next
  <2> QED
    BY <1>2, <2>1, <2>2 DEF IsRecursive
<1>4. Sums(g)
  BY <1>2, <1>3 DEF IsRecursive
<1> DEFINE iter == CHOOSE h : Sums(h)
<1>5. Sums(iter)
  <2> HIDE DEF Sums
  <2> QED
    BY <1>4
<1>6. SumOver(f, S) = iter[S]
  BY DEF SumOver, MapThenSumSet, MapThenFoldSet, AnyOf
<1> HIDE DEF iter
<1>7. \A T \in SUBSET S :
        iter[T] = IF T = {} THEN 0 ELSE f[AnyOf(T)] + iter[T \ {AnyOf(T)}]
  BY <1>5
<1>8. \A T \in SUBSET S : iter[T] = g[T]
  <2> DEFINE G == {T \in SUBSET S : iter[T] = g[T]}
  <2>1. {} \in G
    BY <1>3, <1>7
  <2>2. ASSUME NEW T \in SUBSET S, T # {}, \A x \in T : T \ {x} \in G
        PROVE  T \in G
    <3>1. iter[T \ {AnyOf(T)}] = g[T \ {AnyOf(T)}]
      BY <1>1, <2>2
    <3> QED
      BY <1>3, <1>7, <3>1
  <2> HIDE DEF G
  <2>3. \A T \in SUBSET S : T \in G
    BY <2>1, <2>2, SubsetInductive
  <2> QED
    BY <2>3 DEF G
<1> QED
  BY <1>2, <1>3, <1>6, <1>8 DEF IsSumTable, IsRecursive

(* All the sums over subsets of a set come from one table.                 *)
LEMMA SumTable ==
  ASSUME NEW S, IsFiniteSet(S), NEW f, \A x \in S : f[x] \in Nat
  PROVE  \E g : IsSumTable(g, f, S) /\ \A T \in SUBSET S : SumOver(f, T) = g[T]
<1>1. PICK g : IsSumTable(g, f, S)
  BY SumRecursion
<1>2. ASSUME NEW U \in SUBSET S
      PROVE  SumOver(f, U) = g[U]
  <2>1. IsFiniteSet(U) /\ \A x \in U : f[x] \in Nat
    BY FS_Subset
  <2>2. PICK h : IsSumTable(h, f, U) /\ SumOver(f, U) = h[U]
    BY <2>1, SumRecursion
  <2> DEFINE G == {T \in SUBSET U : h[T] = g[T]}
  <2>3. {} \in G
    BY <1>1, <2>2 DEF IsSumTable
  <2>4. ASSUME NEW T \in SUBSET U, T # {}, \A x \in T : T \ {x} \in G
        PROVE  T \in G
    <3>1. h[T \ {AnyOf(T)}] = g[T \ {AnyOf(T)}]
      BY <2>4 DEF AnyOf
    <3> QED
      BY <1>1, <2>2, <3>1 DEF IsSumTable
  <2> HIDE DEF G
  <2>5. \A T \in SUBSET U : T \in G
    BY <2>1, <2>3, <2>4, SubsetInductive
  <2> QED
    BY <2>2, <2>5 DEF G
<1> QED
  BY <1>1, <1>2

(* A sum is a natural number, and none of its terms is special.            *)
LEMMA SumOverSet ==
  ASSUME NEW S, IsFiniteSet(S), NEW f, \A x \in S : f[x] \in Nat
  PROVE  /\ SumOver(f, S) \in Nat
         /\ S = {} => SumOver(f, S) = 0
         /\ \A x \in S : SumOver(f, S) = f[x] + SumOver(f, S \ {x})
<1>1. PICK g : IsSumTable(g, f, S) /\ \A T \in SUBSET S : SumOver(f, T) = g[T]
  BY SumTable
<1> DEFINE G == {T \in SUBSET S : \A x \in T : g[T] = f[x] + g[T \ {x}]}
<1>2. {} \in G
  OBVIOUS
<1>3. ASSUME NEW T \in SUBSET S, T # {}, \A x \in T : T \ {x} \in G
      PROVE  T \in G
  <2> SUFFICES ASSUME NEW x \in T
               PROVE  g[T] = f[x] + g[T \ {x}]
    OBVIOUS
  <2> DEFINE y == AnyOf(T)
  <2>1. y \in T
    BY DEF AnyOf
  <2>2. g[T] = f[y] + g[T \ {y}]
    BY <1>1 DEF IsSumTable
  <2> HIDE DEF y
  <2>3. CASE x # y
    <3> DEFINE U == T \ {x, y}
    <3>1. (T \ {y}) \ {x} = U /\ (T \ {x}) \ {y} = U
      OBVIOUS
    <3>2. g[T \ {y}] = f[x] + g[U]
      BY <1>3, <2>1, <2>3, <3>1
    <3>3. g[T \ {x}] = f[y] + g[U]
      BY <1>3, <2>1, <2>3, <3>1
    <3>4. f[x] \in Nat /\ f[y] \in Nat /\ g[U] \in Nat
      BY <1>1, <2>1 DEF IsSumTable
    <3> QED
      BY <2>2, <3>2, <3>3, <3>4
  <2> QED
    BY <2>2, <2>3
<1>4. S \in G
  <2> HIDE DEF G
  <2>1. \A T \in SUBSET S : T \in G
    BY <1>2, <1>3, SubsetInductive
  <2> QED
    BY <2>1
<1>5. SumOver(f, S) = g[S] /\ \A x \in S : SumOver(f, S \ {x}) = g[S \ {x}]
  BY <1>1
<1>6. \A x \in S : g[S] = f[x] + g[S \ {x}]
  BY <1>4
<1>7. g[S] \in Nat /\ g[{}] = 0
  BY <1>1 DEF IsSumTable
<1> QED
  BY <1>5, <1>6, <1>7

(* Equal terms have equal sums.                                            *)
LEMMA SumOverSame ==
  ASSUME NEW S, IsFiniteSet(S), NEW f, NEW h,
         \A x \in S : f[x] \in Nat /\ h[x] = f[x]
  PROVE  SumOver(h, S) = SumOver(f, S)
<1> DEFINE G == {T \in SUBSET S : SumOver(h, T) = SumOver(f, T)}
<1>1. \A T \in SUBSET S : IsFiniteSet(T)
  BY FS_Subset
<1>2. {} \in G
  BY <1>1, SumOverSet
<1>3. ASSUME NEW T \in SUBSET S, T # {}, \A x \in T : T \ {x} \in G
      PROVE  T \in G
  <2>1. PICK x \in T : TRUE
    BY <1>3
  <2>2. SumOver(f, T) = f[x] + SumOver(f, T \ {x})
    BY <1>1, SumOverSet
  <2>3. SumOver(h, T) = h[x] + SumOver(h, T \ {x})
    BY <1>1, SumOverSet
  <2> QED
    BY <1>3, <2>2, <2>3
<1> HIDE DEF G
<1>4. \A T \in SUBSET S : T \in G
  BY <1>2, <1>3, SubsetInductive
<1> QED
  BY <1>4 DEF G

(* Nothing adds up to nothing.                                             *)
LEMMA SumOverZero ==
  ASSUME NEW S, IsFiniteSet(S), NEW f, \A x \in S : f[x] = 0
  PROVE  SumOver(f, S) = 0
<1> DEFINE G == {T \in SUBSET S : SumOver(f, T) = 0}
<1>1. \A T \in SUBSET S : IsFiniteSet(T)
  BY FS_Subset
<1>2. {} \in G
  BY <1>1, SumOverSet
<1>3. ASSUME NEW T \in SUBSET S, T # {}, \A x \in T : T \ {x} \in G
      PROVE  T \in G
  <2>1. PICK x \in T : TRUE
    BY <1>3
  <2>2. SumOver(f, T) = f[x] + SumOver(f, T \ {x})
    BY <1>1, SumOverSet
  <2> QED
    BY <1>3, <2>2
<1> HIDE DEF G
<1>4. \A T \in SUBSET S : T \in G
  BY <1>2, <1>3, SubsetInductive
<1> QED
  BY <1>4 DEF G

(* What grows in no place adds up to no more.                              *)
LEMMA SumOverLess ==
  ASSUME NEW S, IsFiniteSet(S), NEW f, NEW h,
         \A x \in S : f[x] \in Nat /\ h[x] \in Nat /\ f[x] <= h[x]
  PROVE  SumOver(f, S) <= SumOver(h, S)
<1> DEFINE G == {T \in SUBSET S : SumOver(f, T) <= SumOver(h, T)}
<1>1. \A T \in SUBSET S : IsFiniteSet(T)
  BY FS_Subset
<1>2. {} \in G
  <2>1. SumOver(f, {}) = 0 /\ SumOver(h, {}) = 0
    BY <1>1, SumOverSet
  <2> QED
    BY <2>1
<1>3. ASSUME NEW T \in SUBSET S, T # {}, \A x \in T : T \ {x} \in G
      PROVE  T \in G
  <2>1. PICK x \in T : TRUE
    BY <1>3
  <2>2. /\ SumOver(f, T) = f[x] + SumOver(f, T \ {x})
        /\ SumOver(h, T) = h[x] + SumOver(h, T \ {x})
    BY <1>1, SumOverSet
  <2>3. SumOver(f, T \ {x}) \in Nat /\ SumOver(h, T \ {x}) \in Nat
    BY <1>1, SumOverSet
  <2>4. SumOver(f, T \ {x}) <= SumOver(h, T \ {x}) /\ f[x] <= h[x]
    BY <1>3
  <2>5. f[x] \in Nat /\ h[x] \in Nat
    OBVIOUS
  <2>6. SumOver(f, T) <= SumOver(h, T)
    <3> HIDE DEF G
    <3> QED
      BY <2>2, <2>3, <2>4, <2>5
  <2> QED
    BY <2>6
<1> HIDE DEF G
<1>4. \A T \in SUBSET S : T \in G
  BY <1>2, <1>3, SubsetInductive
<1> QED
  BY <1>4 DEF G

(* Sums may be taken apart.                                                *)
LEMMA SumOverBoth ==
  ASSUME NEW S, IsFiniteSet(S), NEW f, NEW g, NEW h,
         \A x \in S : f[x] \in Nat /\ g[x] \in Nat /\ h[x] = f[x] + g[x]
  PROVE  SumOver(h, S) = SumOver(f, S) + SumOver(g, S)
<1> DEFINE G == {T \in SUBSET S : SumOver(h, T) = SumOver(f, T) + SumOver(g, T)}
<1>0. \A x \in S : h[x] \in Nat
  OBVIOUS
<1>1. \A T \in SUBSET S : IsFiniteSet(T)
  BY FS_Subset
<1>2. {} \in G
  <2>1. SumOver(f, {}) = 0 /\ SumOver(g, {}) = 0 /\ SumOver(h, {}) = 0
    BY <1>1, SumOverSet
  <2> QED
    BY <2>1
<1>3. ASSUME NEW T \in SUBSET S, T # {}, \A x \in T : T \ {x} \in G
      PROVE  T \in G
  <2>1. PICK x \in T : TRUE
    BY <1>3
  <2>2. /\ SumOver(f, T) = f[x] + SumOver(f, T \ {x})
        /\ SumOver(g, T) = g[x] + SumOver(g, T \ {x})
        /\ SumOver(h, T) = h[x] + SumOver(h, T \ {x})
    BY <1>0, <1>1, SumOverSet
  <2>3. /\ SumOver(f, T \ {x}) \in Nat /\ SumOver(g, T \ {x}) \in Nat
        /\ f[x] \in Nat /\ g[x] \in Nat /\ h[x] = f[x] + g[x]
    BY <1>1, SumOverSet
  <2>4. SumOver(h, T \ {x}) = SumOver(f, T \ {x}) + SumOver(g, T \ {x})
    BY <1>3
  <2>5. SumOver(h, T) = SumOver(f, T) + SumOver(g, T)
    <3> HIDE DEF G
    <3> QED
      BY <2>2, <2>3, <2>4
  <2> QED
    BY <2>5
<1> HIDE DEF G
<1>4. \A T \in SUBSET S : T \in G
  BY <1>2, <1>3, SubsetInductive
<1> QED
  BY <1>4 DEF G
=============================================================================
