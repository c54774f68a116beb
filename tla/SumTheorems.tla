----------------------------- MODULE SumTheorems -----------------------------
(***************************************************************************)
(* Induction over the subsets of a finite set, by a minimal counterexample *)
(* (the library's own induction takes an operator), and what it gives:     *)
(* that sums over finite sets, as Functions defines them by recursion, are *)
(* well defined, what follows for sums of integers, and the least member   *)
(* of a finite set of integers.                                            *)
(***************************************************************************)
EXTENDS Integers, FiniteSetsExt, FiniteSetTheorems, WellFoundedInduction, TLAPS

\* What holds of a set whenever it holds of all smaller ones holds of all.
LEMMA SubsetInduction ==
  ASSUME NEW S, IsFiniteSet(S), NEW Good,
         \A T \in SUBSET S : (\A U \in SUBSET T : U # T => U \in Good) => T \in Good
  PROVE  \A T \in SUBSET S : T \in Good
<1> DEFINE Bad == {T \in SUBSET S : T \notin Good}
           order == StrictSubsetOrdering(S)
<1>1. Bad \subseteq FiniteSubsetsOf(S)
  BY FS_Subset DEF FiniteSubsetsOf
<1>2. IsWellFoundedOn(order, FiniteSubsetsOf(S))
  BY FS_StrictSubsetOrderingWellFounded
<1>3. SUFFICES ASSUME Bad # {} PROVE FALSE
  OBVIOUS
<1> HIDE DEF Bad, order
<1>4. PICK T \in Bad : \A U \in Bad : ~(<<U, T>> \in order)
  BY <1>1, <1>2, <1>3, WFMin
<1>5. T \in SUBSET S /\ T \notin Good
  BY <1>4 DEF Bad
<1>6. \A U \in SUBSET T : U # T => U \in Good
  <2> SUFFICES ASSUME NEW U \in SUBSET T, U # T, U \notin Good PROVE FALSE
    OBVIOUS
  <2>1. U \in Bad
    BY <1>5 DEF Bad
  <2>2. <<U, T>> \in order
    BY <1>5 DEF order, StrictSubsetOrdering
  <2> QED
    BY <1>4, <2>1, <2>2
<1> QED
  BY <1>5, <1>6

-----------------------------------------------------------------------------
(* The recursion is well defined *)

\* The element that a sum of T takes first.
Pick(T) == CHOOSE x \in T : TRUE

\* g is the sum of f over each subset of S.
Sums(f, S, g) ==
  g = [T \in SUBSET S |-> IF T = {} THEN 0 ELSE f[Pick(T)] + g[T \ {Pick(T)}]]

LEMMA Picked == ASSUME NEW T, T # {} PROVE Pick(T) \in T
BY DEF Pick

LEMMA SumIsChosen ==
  ASSUME NEW f, NEW S
  PROVE  SumFunctionOnSet(f, S) = (CHOOSE g : Sums(f, S, g))[S]
BY DEF SumFunctionOnSet, FoldFunctionOnSet, MapThenFoldSet, Sums, Pick

LEMMA SumsUnfold ==
  ASSUME NEW f, NEW S, NEW g, Sums(f, S, g), NEW T \in SUBSET S
  PROVE  g[T] = IF T = {} THEN 0 ELSE f[Pick(T)] + g[T \ {Pick(T)}]
BY DEF Sums

\* Two functions that sum f agree where both are defined.
LEMMA SumsAgree ==
  ASSUME NEW f, NEW S, IsFiniteSet(S), NEW R \in SUBSET S, NEW g, NEW h,
         Sums(f, S, g), Sums(f, R, h)
  PROVE  \A T \in SUBSET R : g[T] = h[T]
<1> DEFINE Good == {T \in SUBSET R : g[T] = h[T]}
<1>1. ASSUME NEW T \in SUBSET R, \A U \in SUBSET T : U # T => U \in Good
      PROVE  T \in Good
  <2>1. g[T] = IF T = {} THEN 0 ELSE f[Pick(T)] + g[T \ {Pick(T)}]
    <3>1. T \in SUBSET S
      OBVIOUS
    <3> QED
      BY <3>1, SumsUnfold
  <2>2. h[T] = IF T = {} THEN 0 ELSE f[Pick(T)] + h[T \ {Pick(T)}]
    BY DEF Sums
  <2>3. T # {} => g[T \ {Pick(T)}] = h[T \ {Pick(T)}]
    BY <1>1, Picked
  <2> QED
    BY <2>1, <2>2, <2>3
<1>2. IsFiniteSet(R)
  BY FS_Subset
<1> HIDE DEF Good
<1>3. \A T \in SUBSET R : T \in Good
  BY <1>1, <1>2, SubsetInduction
<1> QED
  BY <1>3 DEF Good

LEMMA SumsExist ==
  ASSUME NEW f, NEW S, IsFiniteSet(S)
  PROVE  \E g : Sums(f, S, g)
<1> DEFINE Good == {T \in SUBSET S : \E g : Sums(f, T, g)}
           total(T) == (CHOOSE g : Sums(f, T, g))[T]
<1>1. ASSUME NEW T \in SUBSET S, \A U \in SUBSET T : U # T => U \in Good
      PROVE  T \in Good
  <2> DEFINE sum(U) == IF U = {} THEN 0 ELSE f[Pick(U)] + total(U \ {Pick(U)})
             g == [U \in SUBSET T |-> sum(U)]
  <2>1. ASSUME NEW U \in SUBSET T, U # T
        PROVE  total(U) = sum(U)
    <3>1. Sums(f, U, CHOOSE h : Sums(f, U, h))
      BY <1>1, <2>1
    <3>2. CASE U = {}
      BY <3>1, <3>2, SumsUnfold
    <3>3. CASE U # {}
      <4> DEFINE R == U \ {Pick(U)}
      <4>1. R \in SUBSET U /\ R \in SUBSET T /\ R # T
        BY <3>3, Picked
      <4>2. Sums(f, R, CHOOSE h : Sums(f, R, h))
        BY <1>1, <4>1
      <4>3. IsFiniteSet(U)
        BY FS_Subset
      <4> HIDE DEF R
      <4>4. (CHOOSE h : Sums(f, U, h))[R] = total(R)
        BY <3>1, <4>1, <4>2, <4>3, SumsAgree
      <4>5. total(U) = f[Pick(U)] + (CHOOSE h : Sums(f, U, h))[R]
        BY <3>1, <3>3, SumsUnfold DEF R
      <4> QED
        BY <3>3, <4>4, <4>5 DEF R
    <3> QED
      BY <3>2, <3>3
  <2>2. ASSUME NEW U \in SUBSET T
        PROVE  g[U] = IF U = {} THEN 0 ELSE f[Pick(U)] + g[U \ {Pick(U)}]
    <3>1. CASE U = {}
      BY <3>1
    <3>2. CASE U # {}
      <4>1. U \ {Pick(U)} \in SUBSET T /\ U \ {Pick(U)} # T
        BY <3>2, Picked
      <4>2. g[U \ {Pick(U)}] = total(U \ {Pick(U)})
        BY <2>1, <4>1
      <4> QED
        BY <3>2, <4>2
    <3> QED
      BY <3>1, <3>2
  <2>3. Sums(f, T, g)
    <3> HIDE DEF sum
    <3> QED BY <2>2 DEF Sums
  <2> QED
    BY <2>3
<1> HIDE DEF Good
<1>2. \A T \in SUBSET S : T \in Good
  BY <1>1, SubsetInduction
<1> QED
  BY <1>2 DEF Good

\* A sum over no elements is 0, and one over others is that of an element and
\* of the rest.
THEOREM SumUnfolds ==
  ASSUME NEW f, NEW S, IsFiniteSet(S)
  PROVE  SumFunctionOnSet(f, S) =
           IF S = {} THEN 0
           ELSE f[Pick(S)] + SumFunctionOnSet(f, S \ {Pick(S)})
<1> DEFINE R == S \ {Pick(S)}
           g == CHOOSE h : Sums(f, S, h)
           k == CHOOSE h : Sums(f, R, h)
<1>1. R \in SUBSET S /\ IsFiniteSet(R)
  BY FS_Subset
<1>2. Sums(f, S, g)
  BY SumsExist
<1>3. Sums(f, R, k)
  BY <1>1, SumsExist
<1>4. SumFunctionOnSet(f, S) = g[S] /\ SumFunctionOnSet(f, R) = k[R]
  BY SumIsChosen
<1> HIDE DEF R, g, k
<1>5. g[R] = k[R]
  BY <1>1, <1>2, <1>3, SumsAgree
<1>6. g[S] = IF S = {} THEN 0 ELSE f[Pick(S)] + g[S \ {Pick(S)}]
  BY <1>2, SumsUnfold
<1> QED
  BY <1>4, <1>5, <1>6 DEF R

-----------------------------------------------------------------------------
(* Sums of integers *)

LEMMA SumOfNone == ASSUME NEW f PROVE SumFunctionOnSet(f, {}) = 0
BY SumUnfolds, FS_EmptySet

LEMMA SumType ==
  ASSUME NEW S, IsFiniteSet(S), NEW f, \A x \in S : f[x] \in Int
  PROVE  SumFunctionOnSet(f, S) \in Int
<1> DEFINE Good == {T \in SUBSET S : SumFunctionOnSet(f, T) \in Int}
<1>1. ASSUME NEW T \in SUBSET S, \A U \in SUBSET T : U # T => U \in Good
      PROVE  T \in Good
  <2>1. SumFunctionOnSet(f, T) =
          IF T = {} THEN 0 ELSE f[Pick(T)] + SumFunctionOnSet(f, T \ {Pick(T)})
    BY FS_Subset, SumUnfolds
  <2>2. T # {} => /\ SumFunctionOnSet(f, T \ {Pick(T)}) \in Int
                  /\ f[Pick(T)] \in Int
    BY <1>1, Picked
  <2> QED
    BY <2>1, <2>2
<1> HIDE DEF Good
<1>2. \A T \in SUBSET S : T \in Good
  BY <1>1, SubsetInduction
<1> QED
  BY <1>2 DEF Good

\* Whichever element is taken first, the sum is the same.
THEOREM SumRemove ==
  ASSUME NEW S, IsFiniteSet(S), NEW f, \A x \in S : f[x] \in Int, NEW x \in S
  PROVE  SumFunctionOnSet(f, S) = f[x] + SumFunctionOnSet(f, S \ {x})
<1> DEFINE Sum(T) == SumFunctionOnSet(f, T)
           Good == {T \in SUBSET S : \A y \in T : Sum(T) = f[y] + Sum(T \ {y})}
<1>0. ASSUME NEW T \in SUBSET S PROVE Sum(T) \in Int /\ IsFiniteSet(T)
  <2>1. IsFiniteSet(T)
    BY FS_Subset
  <2> QED
    BY <2>1, SumType
<1>1. ASSUME NEW T \in SUBSET S, \A U \in SUBSET T : U # T => U \in Good
      PROVE  T \in Good
  <2> SUFFICES ASSUME NEW y \in T PROVE Sum(T) = f[y] + Sum(T \ {y})
    OBVIOUS
  <2> DEFINE p == Pick(T)
  <2>1. p \in T /\ Sum(T) = f[p] + Sum(T \ {p})
    BY <1>0, SumUnfolds, Picked
  <2> HIDE DEF p
  <2>2. CASE y = p
    BY <2>1, <2>2
  <2>3. CASE y # p
    <3> DEFINE R == (T \ {p}) \ {y}
    <3>1. Sum(T \ {p}) = f[y] + Sum(R)
      <4>1. T \ {p} \in Good /\ y \in T \ {p}
        BY <1>1, <2>1, <2>3
      <4> HIDE DEF Sum
      <4> QED
        BY <4>1
    <3>2. Sum(T \ {y}) = f[p] + Sum((T \ {y}) \ {p})
      <4>1. T \ {y} \in Good /\ p \in T \ {y}
        BY <1>1, <2>1, <2>3
      <4> HIDE DEF Sum
      <4> QED
        BY <4>1
    <3>3. (T \ {y}) \ {p} = R
      OBVIOUS
    <3>4. Sum(R) \in Int /\ f[p] \in Int /\ f[y] \in Int
      BY <1>0, <2>1
    <3>5. Sum(T) = f[p] + (f[y] + Sum(R)) /\ Sum(T \ {y}) = f[p] + Sum(R)
      BY <2>1, <3>1, <3>2, <3>3
    <3> HIDE DEF R, Sum
    <3> QED
      BY <3>4, <3>5
  <2> QED
    BY <2>2, <2>3
<1> HIDE DEF Good, Sum
<1>2. \A T \in SUBSET S : T \in Good
  BY <1>1, SubsetInduction
<1> QED
  BY <1>2 DEF Good, Sum

\* One more member adds its term.
THEOREM SumAdd ==
  ASSUME NEW S, IsFiniteSet(S), NEW x, x \notin S,
         NEW f, \A y \in S \cup {x} : f[y] \in Int
  PROVE  SumFunctionOnSet(f, S \cup {x}) = f[x] + SumFunctionOnSet(f, S)
<1>1. IsFiniteSet(S \cup {x}) /\ (S \cup {x}) \ {x} = S
  BY FS_AddElement
<1> QED
  BY <1>1, SumRemove

\* Induction over the elements of a set, one at a time.
LEMMA ElementInduction ==
  ASSUME NEW S, IsFiniteSet(S), NEW Good, {} \in Good,
         \A T \in SUBSET S, x \in S : T \in Good /\ x \notin T => T \cup {x} \in Good
  PROVE  \A T \in SUBSET S : T \in Good
<1>1. ASSUME NEW T \in SUBSET S, \A U \in SUBSET T : U # T => U \in Good
      PROVE  T \in Good
  <2>1. CASE T = {}
    BY <2>1
  <2>2. CASE T # {}
    <3>1. PICK x \in T : TRUE
      BY <2>2
    <3>2. T \ {x} \in Good /\ (T \ {x}) \cup {x} = T /\ T \ {x} \in SUBSET S
      BY <1>1
    <3> QED
      BY <3>2
  <2> QED
    BY <2>1, <2>2
<1> QED
  BY <1>1, SubsetInduction

LEMMA SumNat ==
  ASSUME NEW S, IsFiniteSet(S), NEW f, \A x \in S : f[x] \in Nat
  PROVE  SumFunctionOnSet(f, S) \in Nat
<1> DEFINE Good == {T \in SUBSET S : SumFunctionOnSet(f, T) \in Nat}
<1>1. {} \in Good
  BY SumOfNone
<1>2. ASSUME NEW T \in SUBSET S, NEW x \in S, T \in Good, x \notin T
      PROVE  T \cup {x} \in Good
  <2>1. SumFunctionOnSet(f, T \cup {x}) = f[x] + SumFunctionOnSet(f, T)
    <3>1. IsFiniteSet(T) /\ \A y \in T \cup {x} : f[y] \in Int
      BY FS_Subset
    <3> QED
      BY <1>2, <3>1, SumAdd
  <2> QED
    BY <1>2, <2>1
<1> HIDE DEF Good
<1>3. \A T \in SUBSET S : T \in Good
  BY <1>1, <1>2, ElementInduction
<1> QED
  BY <1>3 DEF Good

\* A sum grows with its terms.
THEOREM SumMonotone ==
  ASSUME NEW S, IsFiniteSet(S), NEW f, NEW g,
         \A x \in S : f[x] \in Int /\ g[x] \in Int /\ f[x] <= g[x]
  PROVE  SumFunctionOnSet(f, S) <= SumFunctionOnSet(g, S)
<1> DEFINE Good == {T \in SUBSET S : /\ SumFunctionOnSet(f, T) \in Int
                                    /\ SumFunctionOnSet(g, T) \in Int
                                    /\ SumFunctionOnSet(f, T) <= SumFunctionOnSet(g, T)}
<1>1. {} \in Good
  BY SumOfNone
<1>2. ASSUME NEW T \in SUBSET S, NEW x \in S, T \in Good, x \notin T
      PROVE  T \cup {x} \in Good
  <2>1. IsFiniteSet(T)
    BY FS_Subset
  <2>2. /\ SumFunctionOnSet(f, T \cup {x}) = f[x] + SumFunctionOnSet(f, T)
        /\ SumFunctionOnSet(g, T \cup {x}) = g[x] + SumFunctionOnSet(g, T)
    BY <1>2, <2>1, SumAdd
  <2>3. f[x] \in Int /\ g[x] \in Int /\ f[x] <= g[x]
    OBVIOUS
  <2> QED
    BY <1>2, <2>2, <2>3
<1> HIDE DEF Good
<1>3. \A T \in SUBSET S : T \in Good
  BY <1>1, <1>2, ElementInduction
<1> QED
  BY <1>3 DEF Good

\* A sum depends on the function's values only.
LEMMA SumSame ==
  ASSUME NEW S, IsFiniteSet(S), NEW f, NEW g,
         \A x \in S : f[x] \in Int /\ g[x] = f[x]
  PROVE  SumFunctionOnSet(f, S) = SumFunctionOnSet(g, S)
<1>1. /\ SumFunctionOnSet(f, S) \in Int /\ SumFunctionOnSet(g, S) \in Int
  BY SumType
<1>2. /\ SumFunctionOnSet(f, S) <= SumFunctionOnSet(g, S)
      /\ SumFunctionOnSet(g, S) <= SumFunctionOnSet(f, S)
  BY SumMonotone
<1> QED
  BY <1>1, <1>2

\* Terms that are not negative and come to 0 are all 0.
LEMMA SumZero ==
  ASSUME NEW S, IsFiniteSet(S), NEW f, \A x \in S : f[x] \in Nat,
         SumFunctionOnSet(f, S) = 0
  PROVE  \A x \in S : f[x] = 0
<1> SUFFICES ASSUME NEW x \in S PROVE f[x] = 0
  OBVIOUS
<1>1. SumFunctionOnSet(f, S) = f[x] + SumFunctionOnSet(f, S \ {x})
  BY SumRemove
<1>2. SumFunctionOnSet(f, S \ {x}) \in Nat
  BY FS_Subset, SumNat
<1> QED
  BY <1>1, <1>2

\* The sum of a single term.
LEMMA SumOfOne ==
  ASSUME NEW x, NEW f, f[x] \in Int
  PROVE  SumFunctionOnSet(f, {x}) = f[x]
<1>1. SumFunctionOnSet(f, {} \cup {x}) = f[x] + SumFunctionOnSet(f, {})
  BY FS_EmptySet, SumAdd
<1> QED
  BY <1>1, SumOfNone

LEMMA ImageFinite ==
  ASSUME NEW S, IsFiniteSet(S), NEW h
  PROVE  IsFiniteSet({h[x] : x \in S})
<1> DEFINE Image(T) == {h[x] : x \in T}
           Good == {T \in SUBSET S : IsFiniteSet(Image(T))}
<1>1. {} \in Good
  BY FS_EmptySet
<1>2. ASSUME NEW T \in SUBSET S, NEW x \in S, T \in Good, x \notin T
      PROVE  T \cup {x} \in Good
  <2>1. Image(T \cup {x}) = Image(T) \cup {h[x]}
    OBVIOUS
  <2>2. IsFiniteSet(Image(T))
    BY <1>2
  <2> HIDE DEF Image
  <2>3. IsFiniteSet(Image(T) \cup {h[x]})
    BY <2>2, FS_AddElement
  <2> QED
    BY <2>1, <2>3
<1> HIDE DEF Good
<1>3. \A T \in SUBSET S : T \in Good
  BY <1>1, <1>2, ElementInduction
<1> QED
  BY <1>3 DEF Good

\* A sum over the distinct images of a set is one over the set.
THEOREM SumImage ==
  ASSUME NEW S, IsFiniteSet(S), NEW h, \A x, y \in S : h[x] = h[y] => x = y,
         NEW f, \A x \in S : f[h[x]] \in Int,
         NEW g, \A x \in S : g[x] = f[h[x]]
  PROVE  SumFunctionOnSet(f, {h[x] : x \in S}) = SumFunctionOnSet(g, S)
<1> DEFINE Image(T) == {h[x] : x \in T}
           Good == {T \in SUBSET S :
                      /\ IsFiniteSet(Image(T))
                      /\ SumFunctionOnSet(f, Image(T)) = SumFunctionOnSet(g, T)}
<1>1. {} \in Good
  <2>1. Image({}) = {}
    OBVIOUS
  <2> QED
    BY <2>1, SumOfNone, FS_EmptySet
<1>2. ASSUME NEW T \in SUBSET S, NEW x \in S, T \in Good, x \notin T
      PROVE  T \cup {x} \in Good
  <2>1. IsFiniteSet(T)
    BY FS_Subset
  <2>2. IsFiniteSet(Image(T))
    BY <1>2
  <2>3. h[x] \notin Image(T) /\ \A y \in Image(T) \cup {h[x]} : f[y] \in Int
    BY <1>2
  <2>4. SumFunctionOnSet(f, Image(T) \cup {h[x]}) = f[h[x]] + SumFunctionOnSet(f, Image(T))
    BY <2>2, <2>3, SumAdd
  <2>5. SumFunctionOnSet(g, T \cup {x}) = g[x] + SumFunctionOnSet(g, T)
    <3>1. \A y \in T \cup {x} : g[y] \in Int
      OBVIOUS
    <3> QED
      BY <1>2, <2>1, <3>1, SumAdd
  <2>6. Image(T \cup {x}) = Image(T) \cup {h[x]}
    OBVIOUS
  <2>7. IsFiniteSet(Image(T) \cup {h[x]})
    BY <2>2, FS_AddElement
  <2> HIDE DEF Image
  <2> QED
    BY <1>2, <2>4, <2>5, <2>6, <2>7
<1> HIDE DEF Good
<1>3. \A T \in SUBSET S : T \in Good
  BY <1>1, <1>2, ElementInduction
<1> QED
  BY <1>3 DEF Good

\* A term that falls lowers the sum.
THEOREM SumFalls ==
  ASSUME NEW S, IsFiniteSet(S), NEW f, NEW g, \A y \in S : f[y] \in Int /\ g[y] \in Int,
         NEW x \in S, \A y \in S \ {x} : g[y] = f[y], g[x] < f[x]
  PROVE  SumFunctionOnSet(g, S) < SumFunctionOnSet(f, S)
<1> DEFINE R == S \ {x}
<1>1. IsFiniteSet(R)
  BY FS_Subset
<1>2. /\ SumFunctionOnSet(f, S) = f[x] + SumFunctionOnSet(f, R)
      /\ SumFunctionOnSet(g, S) = g[x] + SumFunctionOnSet(g, R)
  BY SumRemove
<1>3. SumFunctionOnSet(f, R) = SumFunctionOnSet(g, R) /\ SumFunctionOnSet(f, R) \in Int
  <2> HIDE DEF R
  <2>1. \A y \in R : f[y] \in Int /\ g[y] = f[y]
    BY DEF R
  <2> QED
    BY <1>1, <2>1, SumSame, SumType
<1> HIDE DEF R
<1> QED
  BY <1>2, <1>3

\* Some members of a finite set of integers are least.
LEMMA LeastMember ==
  ASSUME NEW S, IsFiniteSet(S), S \subseteq Int, S # {}
  PROVE  \E x \in S : \A y \in S : x <= y
<1> DEFINE Good == {T \in SUBSET S : T # {} => \E x \in T : \A y \in T : x <= y}
<1>1. {} \in Good
  OBVIOUS
<1>2. ASSUME NEW T \in SUBSET S, NEW x \in S, T \in Good, x \notin T
      PROVE  T \cup {x} \in Good
  <2>1. CASE T = {}
    BY <2>1
  <2>2. CASE T # {}
    <3>1. PICK y \in T : \A z \in T : y <= z
      BY <1>2, <2>2
    <3>2. \E m \in {x, y} : \A z \in T \cup {x} : m <= z
      BY <3>1
    <3> QED
      BY <3>1, <3>2
  <2> QED
    BY <2>1, <2>2
<1> HIDE DEF Good
<1>3. \A T \in SUBSET S : T \in Good
  BY <1>1, <1>2, ElementInduction
<1> QED
  BY <1>3 DEF Good

\* Of terms that are not negative, fewer come to no more.
LEMMA SumSubset ==
  ASSUME NEW S, IsFiniteSet(S), NEW f, \A x \in S : f[x] \in Nat, NEW R \in SUBSET S
  PROVE  SumFunctionOnSet(f, R) <= SumFunctionOnSet(f, S)
<1> DEFINE D == S \ R
           Good == {T \in SUBSET D : SumFunctionOnSet(f, R) <= SumFunctionOnSet(f, R \cup T)}
<1>1. IsFiniteSet(D) /\ IsFiniteSet(R) /\ SumFunctionOnSet(f, R) \in Nat
  BY FS_Subset, SumNat
<1>2. {} \in Good
  <2>1. R \cup {} = R
    OBVIOUS
  <2> QED
    BY <1>1, <2>1
<1>3. ASSUME NEW T \in SUBSET D, NEW x \in D, T \in Good, x \notin T
      PROVE  T \cup {x} \in Good
  <2> DEFINE U == R \cup T
  <2>1. IsFiniteSet(U) /\ x \notin U /\ \A y \in U \cup {x} : f[y] \in Nat /\ f[y] \in Int
    BY <1>3, FS_Subset
  <2>2. R \cup (T \cup {x}) = U \cup {x}
    OBVIOUS
  <2>3. SumFunctionOnSet(f, R) <= SumFunctionOnSet(f, U)
    BY <1>3
  <2> HIDE DEF U
  <2>4. SumFunctionOnSet(f, U \cup {x}) = f[x] + SumFunctionOnSet(f, U)
    BY <2>1, SumAdd
  <2>5. SumFunctionOnSet(f, U) \in Nat /\ f[x] \in Nat
    BY <2>1, SumNat
  <2>6. SumFunctionOnSet(f, R) <= SumFunctionOnSet(f, U \cup {x})
    BY <1>1, <2>3, <2>4, <2>5
  <2> QED
    BY <2>2, <2>6
<1>4. R \cup D = S
  OBVIOUS
<1> HIDE DEF Good, D
<1>5. \A T \in SUBSET D : T \in Good
  BY <1>1, <1>2, <1>3, ElementInduction
<1> QED
  BY <1>4, <1>5 DEF Good

\* Terms of at least c come to at least c times their number.
LEMMA SumAtLeast ==
  ASSUME NEW S, IsFiniteSet(S), NEW c \in Int, NEW f, \A x \in S : f[x] \in Int /\ c <= f[x]
  PROVE  c * Cardinality(S) <= SumFunctionOnSet(f, S)
<1> DEFINE Good == {T \in SUBSET S : c * Cardinality(T) <= SumFunctionOnSet(f, T)}
<1>1. {} \in Good
  BY SumOfNone, FS_EmptySet
<1>2. ASSUME NEW T \in SUBSET S, NEW x \in S, T \in Good, x \notin T
      PROVE  T \cup {x} \in Good
  <2>1. IsFiniteSet(T) /\ \A y \in T \cup {x} : f[y] \in Int
    BY FS_Subset
  <2>2. /\ SumFunctionOnSet(f, T \cup {x}) = f[x] + SumFunctionOnSet(f, T)
        /\ SumFunctionOnSet(f, T) \in Int
    BY <1>2, <2>1, SumAdd, SumType
  <2>3. Cardinality(T \cup {x}) = Cardinality(T) + 1 /\ Cardinality(T) \in Nat
    BY <1>2, <2>1, FS_AddElement, FS_CardinalityType
  <2>4. /\ c * (Cardinality(T) + 1) = c * Cardinality(T) + c
        /\ c * Cardinality(T) \in Int
    <3>1. \A n \in Int : c * (n + 1) = c * n + c /\ c * n \in Int
      OBVIOUS
    <3> DEFINE n == Cardinality(T)
    <3>2. n \in Int
      BY <2>3
    <3> HIDE DEF n
    <3>3. c * (n + 1) = c * n + c /\ c * n \in Int
      BY <3>1, <3>2
    <3> QED
      BY <3>3 DEF n
  <2>5. c * Cardinality(T) <= SumFunctionOnSet(f, T)
    BY <1>2
  <2>6. c * Cardinality(T \cup {x}) <= SumFunctionOnSet(f, T \cup {x})
    <3> DEFINE n == c * Cardinality(T)
               s == SumFunctionOnSet(f, T)
    <3>1. n \in Int /\ s \in Int /\ f[x] \in Int /\ n <= s /\ c <= f[x]
      BY <2>2, <2>4, <2>5
    <3>2. c * Cardinality(T \cup {x}) = n + c /\ SumFunctionOnSet(f, T \cup {x}) = f[x] + s
      BY <2>2, <2>3, <2>4
    <3> HIDE DEF n, s
    <3> QED
      BY <3>1, <3>2
  <2> QED
    BY <2>6
<1> HIDE DEF Good
<1>3. \A T \in SUBSET S : T \in Good
  BY <1>1, <1>2, ElementInduction
<1> QED
  BY <1>3 DEF Good
=============================================================================
