--------------------------- MODULE DataInduction ---------------------------
(* Induction over numbers and finite sets, stated for sets rather than     *)
(* operators, and what it gives for folds and sums.                        *)
EXTENDS Integers, SequencesExt, Functions, FiniteSetTheorems, SequenceTheorems,
        WellFoundedInduction, TLAPS

\* Every set of natural numbers that is not empty has a least one.
LEMMA LeastNat ==
  ASSUME NEW T \in SUBSET Nat, T # {}
  PROVE  \E x \in T : \A y \in T : x <= y
<1> DEFINE R == OpToRel(<, Nat)
<1>1. IsWellFoundedOn(R, Nat)
  BY NatLessThanWellFounded
<1>2. \E x \in T : \A y \in T : ~(<<y, x>> \in R)
  <2> HIDE DEF R
  <2> QED BY <1>1, WFMin
<1>3. \A x, y \in Nat : ~(<<y, x>> \in R) => x <= y
  BY DEF OpToRel
<1> QED BY <1>2, <1>3

\* A set that has 0 and with every number the next has all of them.
LEMMA AllNat ==
  ASSUME NEW T \in SUBSET Nat, 0 \in T, \A n \in T : n + 1 \in T
  PROVE  T = Nat
<1> SUFFICES ASSUME Nat \ T # {} PROVE FALSE
  OBVIOUS
<1>1. PICK x \in Nat \ T : \A y \in Nat \ T : x <= y
  BY LeastNat
<1>2. x - 1 \in T
  BY <1>1
<1> QED BY <1>1, <1>2

\* The same for the subsets of a finite set.
LEMMA LeastSubset ==
  ASSUME NEW S, IsFiniteSet(S), NEW T \in SUBSET (SUBSET S), T # {}
  PROVE  \E A \in T : \A x \in A : A \ {x} \notin T
<1> DEFINE R == StrictSubsetOrdering(S)
<1>1. IsWellFoundedOn(R, SUBSET S)
  BY FS_StrictSubsetOrderingWellFounded, FS_FiniteSubsetsOfFinite
<1>2. \E A \in T : \A B \in T : ~(<<B, A>> \in R)
  <2> HIDE DEF R
  <2> QED BY <1>1, WFMin
<1>3. \A A \in T : \A x \in A : <<A \ {x}, A>> \in R
  BY DEF StrictSubsetOrdering
<1> HIDE DEF R
<1> QED BY <1>2, <1>3

LEMMA AllSubsets ==
  ASSUME NEW S, IsFiniteSet(S), NEW F \in SUBSET (SUBSET S), {} \in F,
         \A A \in (SUBSET S) \ {{}} : (\A x \in A : A \ {x} \in F) => A \in F
  PROVE  F = SUBSET S
<1> SUFFICES ASSUME (SUBSET S) \ F # {} PROVE FALSE
  OBVIOUS
<1>1. PICK A \in (SUBSET S) \ F : \A x \in A : A \ {x} \notin (SUBSET S) \ F
  BY LeastSubset
<1>2. \A x \in A : A \ {x} \in F
  BY <1>1
<1> QED BY <1>1, <1>2

-----------------------------------------------------------------------------
(* Recursive functions.                                                    *)

\* A function of the numbers up to n that is defined from each to the next.
Iterates(f, n, X, base, step) ==
    f \in [0..n -> X] /\ f[0] = base /\ \A i \in 1..n : f[i] = step[i][f[i - 1]]

LEMMA RecursionUpTo ==
  ASSUME NEW X, NEW base \in X, NEW n \in Nat, NEW step \in [1..n -> [X -> X]]
  PROVE  \E f : Iterates(f, n, X, base, step)
<1> DEFINE Upto(k, f) == /\ f \in [0..k -> X] /\ f[0] = base
                         /\ \A i \in 1..k : f[i] = step[i][f[i - 1]]
           T == {k \in Nat : k <= n => \E f : Upto(k, f)}
<1>1. 0 \in T
  <2>1. Upto(0, [i \in 0..0 |-> base])
    OBVIOUS
  <2> QED BY <2>1
<1>2. \A k \in T : k + 1 \in T
  <2> SUFFICES ASSUME NEW k \in T, k + 1 <= n PROVE \E f : Upto(k + 1, f)
    OBVIOUS
  <2>1. PICK f : Upto(k, f)
    OBVIOUS
  <2> DEFINE g == [i \in 0..(k + 1) |-> IF i = k + 1 THEN step[k + 1][f[k]] ELSE f[i]]
  <2>2. Upto(k + 1, g)
    BY <2>1
  <2> QED BY <2>2
<1>3. T = Nat
  <2> HIDE DEF T
  <2>1. T \subseteq Nat
    BY DEF T
  <2> QED BY <1>1, <1>2, <2>1, AllNat
<1> QED BY <1>3 DEF Iterates

\* A function of the subsets of a finite set that is defined for each from
\* what is left when a chosen element is taken out.
Chooses(choice, S) == /\ choice \in [(SUBSET S) \ {{}} -> S]
                      /\ \A A \in (SUBSET S) \ {{}} : choice[A] \in A

FoldOf(f, S, X, base, choice, step) ==
    /\ f \in [SUBSET S -> X] /\ f[{}] = base
    /\ \A A \in (SUBSET S) \ {{}} : f[A] = step[choice[A]][f[A \ {choice[A]}]]

LEMMA RecursionOnSubsets ==
  ASSUME NEW S, IsFiniteSet(S), NEW X, NEW base \in X,
         NEW choice, Chooses(choice, S), NEW step \in [S -> [X -> X]]
  PROVE  \E f : FoldOf(f, S, X, base, choice, step)
<1> USE DEF Chooses
<1> DEFINE Small(k) == {A \in SUBSET S : Cardinality(A) <= k}
           On(k, f) == /\ f \in [Small(k) -> X] /\ f[{}] = base
                       /\ \A A \in Small(k) \ {{}} :
                             f[A] = step[choice[A]][f[A \ {choice[A]}]]
           T == {k \in Nat : \E f : On(k, f)}
<1>1. \A A \in SUBSET S : IsFiniteSet(A) /\ Cardinality(A) \in Nat
  BY FS_Subset, FS_CardinalityType
<1>2. \A A \in (SUBSET S) \ {{}} : /\ A \ {choice[A]} \in SUBSET S
                                   /\ Cardinality(A \ {choice[A]}) = Cardinality(A) - 1
  BY <1>1, FS_RemoveElement
<1>3. {} \in SUBSET S /\ Cardinality({}) = 0
  BY FS_EmptySet
<1>4. 0 \in T
  <2>1. Small(0) = {{}}
    BY <1>1, <1>3, FS_EmptySet
  <2>2. On(0, [A \in Small(0) |-> base])
    <3> HIDE DEF Small
    <3> QED BY <2>1
  <2> QED BY <2>2
<1>5. \A k \in T : k + 1 \in T
  <2> TAKE k \in T
  <2> DEFINE some == CHOOSE f : On(k, f)
             next(A) == step[choice[A]][some[A \ {choice[A]}]]
             g == [A \in Small(k + 1) |-> IF A \in Small(k) THEN some[A] ELSE next(A)]
  <2>1. k \in Nat /\ On(k, some)
    <3> HIDE DEF On
    <3> QED OBVIOUS
  <2>2. {} \in Small(k) /\ Small(k) \subseteq Small(k + 1)
    BY <1>1, <1>3
  <2>3. \A A \in Small(k + 1) \ {{}} : A \ {choice[A]} \in Small(k) /\ choice[A] \in S
    BY <1>1, <1>2
  <2>4. \A A \in Small(k + 1) \ {{}} : next(A) \in X
    <3> TAKE A \in Small(k + 1) \ {{}}
    <3>1. some[A \ {choice[A]}] \in X
      <4> HIDE DEF Small, some
      <4> QED BY <2>1, <2>3
    <3>2. step[choice[A]] \in [X -> X]
      <4> HIDE DEF Small, some
      <4> QED BY <2>3
    <3> HIDE DEF some
    <3> QED BY <3>1, <3>2
  <2>5. \A A \in Small(k + 1) \ {{}} : g[A] = next(A)
    <3> HIDE DEF Small, some
    <3> QED BY <2>1
  <2>6. On(k + 1, g)
    <3>1. g \in [Small(k + 1) -> X]
      <4> HIDE DEF Small, some, next
      <4> QED BY <2>1, <2>2, <2>4
    <3>2. g[{}] = base
      <4> HIDE DEF Small, some, next
      <4> QED BY <2>1, <2>2
    <3>3. \A A \in Small(k + 1) \ {{}} : g[A] = step[choice[A]][g[A \ {choice[A]}]]
      <4> TAKE A \in Small(k + 1) \ {{}}
      <4>1. g[A \ {choice[A]}] = some[A \ {choice[A]}]
        <5> HIDE DEF Small, some, next
        <5> QED BY <2>2, <2>3
      <4> QED BY <2>5, <4>1
    <3> HIDE DEF g, Small
    <3> QED BY <3>1, <3>2, <3>3
  <2>7. \E f : On(k + 1, f)
    <3> HIDE DEF On, g
    <3> QED BY <2>6
  <2> HIDE DEF On, some, next, g
  <2> QED BY <2>1, <2>7
<1>6. T = Nat
  <2> HIDE DEF T
  <2>1. T \subseteq Nat
    BY DEF T
  <2> QED BY <1>4, <1>5, <2>1, AllNat
<1>7. Small(Cardinality(S)) = SUBSET S
  BY <1>1, FS_Subset
<1>8. PICK f : On(Cardinality(S), f)
  BY <1>1, <1>6
<1> QED BY <1>7, <1>8 DEF FoldOf

\* A recursion whose value at each point looks at points of smaller measure only.
Looks(F, D, m, X) ==
    \A f, g \in X : \A x \in D :
        (\A y \in D : m[y] < m[x] => f[y] = g[y]) => F[f][x] = F[g][x]

Measured(F, D, R, m, N) ==
    /\ [D -> R] # {} /\ F \in [[D -> R] -> [D -> R]]
    /\ N \in Nat /\ m \in [D -> 0..N] /\ Looks(F, D, m, [D -> R])

LEMMA MeasuredRecursion ==
  ASSUME NEW F, NEW D, NEW R, NEW m, NEW N, Measured(F, D, R, m, N)
  PROVE  \E f \in [D -> R] : f = F[f]
<1> DEFINE X == [D -> R]
<1> USE DEF Measured
<1>0. X # {} /\ F \in [X -> X] /\ Looks(F, D, m, X)
  OBVIOUS
<1>00. N \in Nat /\ m \in [D -> 0..N]
  OBVIOUS
<1> HIDE DEF Measured, X
<1> USE <1>0, <1>00
<1> DEFINE step == [i \in 1..(N + 1) |-> F]
<1>1. PICK base \in X : TRUE
  OBVIOUS
<1>2. step \in [1..(N + 1) -> [X -> X]] /\ N + 1 \in Nat
  OBVIOUS
<1>3. PICK h : Iterates(h, N + 1, X, base, step)
  <2> HIDE DEF step
  <2> QED BY <1>1, <1>2, RecursionUpTo
<1>4. /\ \A i \in 0..(N + 1) : h[i] \in X
      /\ \A i \in 1..(N + 1) : h[i] = F[h[i - 1]]
  BY <1>3 DEF Iterates
<1> HIDE DEF step
<1> DEFINE Settled(i) == \A x \in D : m[x] < i => h[i + 1][x] = h[i][x]
           T == {i \in Nat : i <= N => Settled(i)}
<1>5. 0 \in T
  OBVIOUS
<1>6. ASSUME NEW i \in T PROVE i + 1 \in T
  <2> SUFFICES ASSUME i + 1 <= N, NEW x \in D, m[x] < i + 1
               PROVE  h[i + 2][x] = h[i + 1][x]
    OBVIOUS
  <2>1. i \in 0..(N + 1) /\ i + 1 \in 1..(N + 1) /\ i + 2 \in 1..(N + 1)
    OBVIOUS
  <2>2. h[i] \in X /\ h[i + 1] \in X /\ h[i + 1] = F[h[i]] /\ h[i + 2] = F[h[i + 1]]
    <3>1. (i + 1) - 1 = i /\ (i + 2) - 1 = i + 1 /\ i + 1 \in 0..(N + 1)
      BY <2>1
    <3> QED BY <1>4, <2>1, <3>1
  <2>3. \A y \in D : m[y] < m[x] => h[i + 1][y] = h[i][y]
    <3>1. Settled(i)
      BY <2>1
    <3>2. ASSUME NEW y \in D, m[y] < m[x] PROVE m[y] < i
      <4>1. m[y] \in Int /\ m[x] \in Int
        OBVIOUS
      <4> QED BY <3>2, <4>1
    <3> QED BY <3>1, <3>2
  <2>4. F[h[i + 1]][x] = F[h[i]][x]
    <3> HIDE DEF T, Settled
    <3> QED BY ONLY <2>2, <2>3, x \in D, <1>0, Zenon DEF Looks
  <2> QED BY <2>2, <2>4
<1>7. T = Nat
  <2>1. T \subseteq Nat
    OBVIOUS
  <2> HIDE DEF T
  <2> QED BY <1>5, <1>6, <2>1, AllNat
<1>8. \A x \in D : h[N + 1][x] = F[h[N + 1]][x]
  <2> SUFFICES ASSUME NEW x \in D PROVE h[N + 1][x] = F[h[N + 1]][x]
    OBVIOUS
  <2>1. N \in 0..(N + 1) /\ N + 1 \in 1..(N + 1) /\ N + 1 \in 0..(N + 1) /\ (N + 1) - 1 = N
    OBVIOUS
  <2>2. h[N] \in X /\ h[N + 1] \in X /\ h[N + 1] = F[h[N]]
    BY <1>4, <2>1
  <2>3. Settled(N)
    <3>1. N \in T
      <4> HIDE DEF T
      <4> QED BY <1>7
    <3> HIDE DEF Settled
    <3> QED BY <3>1
  <2>4. \A y \in D : m[y] < m[x] => h[N + 1][y] = h[N][y]
    BY <2>3
  <2> QED BY <2>2, <2>4 DEF Looks
<1>9. h[N + 1] \in X /\ F[h[N + 1]] \in X
  BY <1>4
<1> QED BY <1>8, <1>9 DEF X

-----------------------------------------------------------------------------
(* Sums of functions.                                                      *)

Weights(w, S) == w \in [S -> Nat] /\ IsFiniteSet(S)

\* The fold behind a sum obeys its recursion.
Sums(w, S, f) ==
    /\ DOMAIN f = SUBSET S /\ f[{}] = 0
    /\ \A A \in (SUBSET S) \ {{}} :
          f[A] = w[CHOOSE x \in A : TRUE] + f[A \ {CHOOSE x \in A : TRUE}]

LEMMA SumRecursion ==
  ASSUME NEW w, NEW S, Weights(w, S)
  PROVE  \E f : Sums(w, S, f) /\ SumFunction(w) = f[S]
<1> DEFINE one(A) == CHOOSE x \in A : TRUE
           choice == [A \in (SUBSET S) \ {{}} |-> one(A)]
           step == [x \in S |-> [n \in Nat |-> w[x] + n]]
           body(f) == [A \in SUBSET S |-> IF A = {} THEN 0 ELSE w[one(A)] + f[A \ {one(A)}]]
           iter == CHOOSE f : f = body(f)
<1>1. \A A \in (SUBSET S) \ {{}} : one(A) \in A
  OBVIOUS
<1>2. Chooses(choice, S)
  <2> HIDE DEF one
  <2> QED BY <1>1 DEF Chooses
<1>3. step \in [S -> [Nat -> Nat]]
  BY DEF Weights
<1>4. \E f : FoldOf(f, S, Nat, 0, choice, step)
  <2> HIDE DEF choice, step
  <2>1. IsFiniteSet(S) /\ 0 \in Nat
    BY DEF Weights
  <2> QED BY <1>2, <1>3, <2>1, RecursionOnSubsets
<1>5. PICK f : FoldOf(f, S, Nat, 0, choice, step)
  BY <1>4
<1> USE DEF FoldOf
<1>6. \A A \in (SUBSET S) \ {{}} : f[A] = w[one(A)] + f[A \ {one(A)}]
  <2> TAKE A \in (SUBSET S) \ {{}}
  <2>1. choice[A] = one(A) /\ one(A) \in S /\ f[A \ {one(A)}] \in Nat
    <3> HIDE DEF one
    <3> QED BY <1>1, <1>5
  <2> HIDE DEF one, choice
  <2> QED BY <1>5, <2>1
<1>7. f = body(f)
  <2> HIDE DEF one
  <2> QED BY <1>5, <1>6
<1>8. iter = body(iter)
  <2> HIDE DEF body
  <2> QED BY <1>7
<1>9. SumFunction(w) = iter[S]
  BY DEF SumFunction, SumFunctionOnSet, FoldFunctionOnSet, MapThenFoldSet, Weights
<1>10. Sums(w, S, iter)
  <2> HIDE DEF one, iter
  <2>1. Sums(w, S, iter) <=> /\ DOMAIN iter = SUBSET S /\ iter[{}] = 0
                             /\ \A A \in (SUBSET S) \ {{}} : iter[A] = w[one(A)] + iter[A \ {one(A)}]
    BY DEF Sums, one
  <2> QED BY <1>8, <2>1
<1> HIDE DEF iter
<1> QED BY <1>9, <1>10

LEMMA SumType ==
  ASSUME NEW w, NEW S, Weights(w, S), NEW f, Sums(w, S, f)
  PROVE  \A A \in SUBSET S : f[A] \in Nat
<1> DEFINE T == {A \in SUBSET S : f[A] \in Nat}
<1>1. {} \in T
  BY DEF Sums
<1>2. \A A \in (SUBSET S) \ {{}} : (\A x \in A : A \ {x} \in T) => A \in T
  BY DEF Sums, Weights
<1>3. T = SUBSET S
  <2>1. T \in SUBSET (SUBSET S) /\ IsFiniteSet(S)
    BY DEF Weights
  <2> HIDE DEF T
  <2> QED BY <1>1, <1>2, <2>1, AllSubsets
<1> QED BY <1>3

\* Any element may be taken out first.
LEMMA SumTake ==
  ASSUME NEW w, NEW S, Weights(w, S), NEW f, Sums(w, S, f)
  PROVE  \A A \in SUBSET S : \A x \in A : f[A] = w[x] + f[A \ {x}]
<1> DEFINE Taken(A) == \A x \in A : f[A] = w[x] + f[A \ {x}]
           T == {A \in SUBSET S : Taken(A)}
<1>1. {} \in T
  OBVIOUS
<1>2. ASSUME NEW A \in (SUBSET S) \ {{}}, \A x \in A : A \ {x} \in T
      PROVE  A \in T
  <2> DEFINE c == CHOOSE x \in A : TRUE
  <2>1. c \in A /\ f[A] = w[c] + f[A \ {c}]
    BY DEF Sums
  <2> HIDE DEF c
  <2>2. ASSUME NEW x \in A PROVE f[A] = w[x] + f[A \ {x}]
    <3>1. CASE x = c
      BY <2>1, <3>1
    <3>2. CASE x # c
      <4>1. /\ f[A \ {c}] = w[x] + f[(A \ {c}) \ {x}]
            /\ f[A \ {x}] = w[c] + f[(A \ {x}) \ {c}]
        BY <1>2, <2>1, <3>2
      <4>2. (A \ {c}) \ {x} = (A \ {x}) \ {c}
        OBVIOUS
      <4>3. w[x] \in Nat /\ w[c] \in Nat
        BY <2>1 DEF Weights
      <4>4. f[(A \ {x}) \ {c}] \in Nat
        BY SumType
      <4>5. f[A \ {c}] = w[x] + f[(A \ {x}) \ {c}]
        BY <4>1, <4>2
      <4> QED BY <2>1, <4>1, <4>3, <4>4, <4>5
    <3> QED BY <3>1, <3>2
  <2> QED BY <2>2
<1>3. T = SUBSET S
  <2>1. T \in SUBSET (SUBSET S) /\ IsFiniteSet(S)
    BY DEF Weights
  <2> HIDE DEF T
  <2> QED BY <1>1, <1>2, <2>1, AllSubsets
<1> QED BY <1>3

\* What is summed over more elements is the same on those they share.
LEMMA SumsAgree ==
  ASSUME NEW w, NEW S, Weights(w, S), NEW f, Sums(w, S, f),
         NEW v, NEW R \in SUBSET S, Weights(v, R), NEW g, Sums(v, R, g),
         \A x \in R : v[x] = w[x]
  PROVE  \A A \in SUBSET R : g[A] = f[A]
<1> DEFINE T == {A \in SUBSET R : g[A] = f[A]}
<1>1. {} \in T
  BY DEF Sums
<1>2. ASSUME NEW A \in (SUBSET R) \ {{}}, \A x \in A : A \ {x} \in T
      PROVE  A \in T
  <2>1. PICK x \in A : TRUE
    OBVIOUS
  <2>2. f[A] = w[x] + f[A \ {x}]
    BY SumTake
  <2>3. g[A] = v[x] + g[A \ {x}]
    BY SumTake
  <2> QED BY <1>2, <2>2, <2>3
<1>3. T = SUBSET R
  <2>1. T \in SUBSET (SUBSET R) /\ IsFiniteSet(R)
    BY DEF Weights
  <2> HIDE DEF T
  <2> QED BY <1>1, <1>2, <2>1, AllSubsets
<1> QED BY <1>3

\* The sum is a number, and 0 if there is nothing to add.
LEMMA SumIsNat ==
  ASSUME NEW w, NEW S, Weights(w, S)
  PROVE  SumFunction(w) \in Nat /\ (S = {} => SumFunction(w) = 0)
<1>1. PICK f : Sums(w, S, f) /\ SumFunction(w) = f[S]
  BY SumRecursion
<1>2. f[S] \in Nat
  BY <1>1, SumType
<1> QED BY <1>1, <1>2 DEF Sums

LEMMA PartWeights ==
  ASSUME NEW w, NEW S, Weights(w, S), NEW A \in SUBSET S
  PROVE  Weights(Restrict(w, A), A) /\ \A x \in A : Restrict(w, A)[x] = w[x]
BY FS_Subset DEF Weights, Restrict

\* What a part of the elements adds up to, in terms of one fold.
LEMMA SumOfPart ==
  ASSUME NEW w, NEW S, Weights(w, S), NEW f, Sums(w, S, f), NEW A \in SUBSET S
  PROVE  SumFunction(Restrict(w, A)) = f[A]
<1>1. Weights(Restrict(w, A), A) /\ \A x \in A : Restrict(w, A)[x] = w[x]
  BY PartWeights
<1>2. PICK g : Sums(Restrict(w, A), A, g) /\ SumFunction(Restrict(w, A)) = g[A]
  BY <1>1, SumRecursion
<1>3. \A B \in SUBSET A : g[B] = f[B]
  BY <1>1, <1>2, SumsAgree
<1> QED BY <1>2, <1>3

\* One element taken out.
LEMMA SumWithout ==
  ASSUME NEW w, NEW S, Weights(w, S), NEW x \in S
  PROVE  SumFunction(w) = w[x] + SumFunction(Restrict(w, S \ {x}))
<1>1. PICK f : Sums(w, S, f) /\ SumFunction(w) = f[S]
  BY SumRecursion
<1>2. f[S] = w[x] + f[S \ {x}]
  BY <1>1, SumTake
<1>3. SumFunction(Restrict(w, S \ {x})) = f[S \ {x}]
  BY <1>1, SumOfPart
<1> QED BY <1>1, <1>2, <1>3

\* One element added.
LEMMA SumOfOneMore ==
  ASSUME NEW w, NEW S, Weights(w, S), NEW x, x \notin S,
         NEW v, DOMAIN v = S \cup {x}, v = [y \in DOMAIN v |-> v[y]],
         v[x] \in Nat, \A y \in S : v[y] = w[y]
  PROVE  /\ IsFiniteSet(DOMAIN v) /\ SumFunction(v) = SumFunction(w) + v[x]
<1> DEFINE more == S \cup {x}
<1>1. Weights(v, more)
  BY FS_AddElement DEF Weights
<1>2. Restrict(v, more \ {x}) = w
  <2>1. more \ {x} = S
    OBVIOUS
  <2> QED BY <2>1 DEF Restrict, Weights
<1>3. SumFunction(v) = v[x] + SumFunction(w)
  <2>1. x \in more
    OBVIOUS
  <2> HIDE DEF more
  <2> QED BY <1>1, <1>2, <2>1, SumWithout
<1>4. SumFunction(w) \in Nat
  BY SumIsNat
<1> QED BY <1>1, <1>3, <1>4 DEF Weights

\* A part and the rest.
LEMMA SumSplit ==
  ASSUME NEW w, NEW S, Weights(w, S), NEW A \in SUBSET S
  PROVE  SumFunction(w) = SumFunction(Restrict(w, A)) + SumFunction(Restrict(w, S \ A))
<1>1. PICK f : Sums(w, S, f) /\ SumFunction(w) = f[S]
  BY SumRecursion
<1>2. \A B \in SUBSET S : f[B] \in Nat
  BY <1>1, SumType
<1> DEFINE T == {B \in SUBSET S : f[S] = f[B] + f[S \ B]}
<1>3. {} \in T
  <2>1. f[{}] = 0 /\ S \ {} = S
    BY <1>1 DEF Sums
  <2> QED BY <1>2, <2>1
<1>4. ASSUME NEW B \in (SUBSET S) \ {{}}, \A x \in B : B \ {x} \in T
      PROVE  B \in T
  <2>1. PICK x \in B : TRUE
    OBVIOUS
  <2>2. f[B] = w[x] + f[B \ {x}]
    BY <1>1, SumTake
  <2>3. f[S \ (B \ {x})] = w[x] + f[S \ B]
    <3>1. S \ (B \ {x}) \in SUBSET S /\ x \in S \ (B \ {x})
      OBVIOUS
    <3>2. f[S \ (B \ {x})] = w[x] + f[(S \ (B \ {x})) \ {x}]
      BY <1>1, <3>1, SumTake
    <3>3. (S \ (B \ {x})) \ {x} = S \ B
      OBVIOUS
    <3> QED BY <3>2, <3>3
  <2>4. f[S] = f[B \ {x}] + f[S \ (B \ {x})]
    BY <1>4
  <2>5. w[x] \in Nat /\ f[B \ {x}] \in Nat /\ f[S \ B] \in Nat
    BY <1>2 DEF Weights
  <2>6. f[S] = f[B] + f[S \ B]
    BY <2>2, <2>3, <2>4, <2>5
  <2> QED BY <2>6
<1>5. T = SUBSET S
  <2>1. T \in SUBSET (SUBSET S) /\ IsFiniteSet(S)
    BY DEF Weights
  <2> HIDE DEF T
  <2> QED BY <1>3, <1>4, <2>1, AllSubsets
<1>6. f[S] = f[A] + f[S \ A]
  BY <1>5
<1>7. SumFunction(Restrict(w, A)) = f[A] /\ SumFunction(Restrict(w, S \ A)) = f[S \ A]
  BY <1>1, SumOfPart
<1> QED BY <1>1, <1>6, <1>7

-----------------------------------------------------------------------------
(* Folds over sequences.                                                   *)

LEMMA GreatestOf ==
  ASSUME NEW n \in Nat, NEW S \in (SUBSET (1..n)) \ {{}}
  PROVE  Max(S) \in S /\ \A y \in S : Max(S) >= y
  <1> DEFINE T == {n - x : x \in S}
  <1>1. T \in SUBSET Nat /\ T # {}
    OBVIOUS
  <1>2. PICK t \in T : \A y \in T : t <= y
    <2> HIDE DEF T
    <2> QED BY <1>1, LeastNat
  <1>3. PICK x \in S : t = n - x
    BY <1>2
  <1>4. \A y \in S : x >= y
    <2> TAKE y \in S
    <2>1. n - y \in T
      OBVIOUS
    <2>2. t <= n - y
      BY <1>2, <2>1
    <2> QED BY <1>3, <2>2
  <1>5. \E z \in S : \A y \in S : z >= y
    BY <1>4
  <1>6. Max(S) = CHOOSE z \in S : \A y \in S : z >= y
    BY DEF Max
  <1> QED BY <1>5, <1>6, Zenon

LEMMA GreatestUpTo ==
  ASSUME NEW k \in Nat \ {0}
  PROVE  Max(1..k) = k /\ (1..k) \ {k} = 1..(k - 1) /\ 1..k # {}
  <1>1. 1..k \in (SUBSET (1..k)) \ {{}}
    OBVIOUS
  <1>2. Max(1..k) \in 1..k /\ \A y \in 1..k : Max(1..k) >= y
    BY <1>1, GreatestOf
  <1> QED BY <1>2

\* What FoldLeft computes on the way, as a function of the indices folded.
FoldsBy(h, X, base, n, next) ==
    /\ h \in [SUBSET (1..n) -> X] /\ h[{}] = base
    /\ \A S \in (SUBSET (1..n)) \ {{}} : /\ Max(S) \in 1..n
                                         /\ h[S] = next[Max(S)][h[S \ {Max(S)}]]

LEMMA FoldExists ==
  ASSUME NEW X, NEW base \in X, NEW n \in Nat, NEW next \in [1..n -> [X -> X]]
  PROVE  \E h : FoldsBy(h, X, base, n, next)
  <1> DEFINE choice == [S \in (SUBSET (1..n)) \ {{}} |-> Max(S)]
  <1>1. \A S \in (SUBSET (1..n)) \ {{}} : Max(S) \in S /\ Max(S) \in 1..n
    BY GreatestOf
  <1>2. Chooses(choice, 1..n)
    BY <1>1 DEF Chooses
  <1>3. IsFiniteSet(1..n)
    BY FS_Interval
  <1> HIDE DEF choice
  <1>4. PICK h : FoldOf(h, 1..n, X, base, choice, next)
    BY <1>2, <1>3, RecursionOnSubsets
  <1>5. h \in [SUBSET (1..n) -> X] /\ h[{}] = base
    BY <1>4 DEF FoldOf
  <1>6. \A S \in (SUBSET (1..n)) \ {{}} : h[S] = next[Max(S)][h[S \ {Max(S)}]]
    BY <1>1, <1>4 DEF FoldOf, choice
  <1> QED BY <1>1, <1>5, <1>6 DEF FoldsBy

\* Two functions that are built by the same steps are the same.
Follows(f, X, base, n, next) ==
    f[0] = base /\ \A k \in 1..n : f[k - 1] \in X => f[k] = next[k][f[k - 1]]

LEMMA SameSteps ==
  ASSUME NEW X, NEW base \in X, NEW n \in Nat, NEW next \in [1..n -> [X -> X]],
         NEW f, Follows(f, X, base, n, next), NEW g, Iterates(g, n, X, base, next)
  PROVE  \A k \in 0..n : f[k] = g[k]
  <1> DEFINE T == {k \in Nat : k <= n => f[k] = g[k]}
  <1>1. 0 \in T
    BY DEF Iterates, Follows
  <1>2. ASSUME NEW k \in T PROVE k + 1 \in T
    <2> SUFFICES ASSUME k + 1 <= n PROVE f[k + 1] = g[k + 1]
      OBVIOUS
    <2>1. k \in 0..n /\ k + 1 \in 1..n /\ (k + 1) - 1 = k /\ f[k] = g[k]
      OBVIOUS
    <2>2. g[k] \in X /\ g[k + 1] = next[k + 1][g[k]]
      BY <2>1 DEF Iterates
    <2> QED BY <2>1, <2>2 DEF Follows
  <1>3. T = Nat
    <2> HIDE DEF T
    <2>1. T \subseteq Nat
      BY DEF T
    <2> QED BY <1>1, <1>2, <2>1, AllNat
  <1> QED BY <1>3

\* A fold that goes through the indices one by one ends where they do.
Folding(iter, X, base, n, next) ==
    /\ iter[{}] = base
    /\ \A S \in (SUBSET (1..n)) \ {{}} : iter[S \ {Max(S)}] \in X =>
          iter[S] = next[Max(S)][iter[S \ {Max(S)}]]

LEMMA FoldEnds ==
  ASSUME NEW X, NEW base \in X, NEW n \in Nat, NEW next \in [1..n -> [X -> X]],
         NEW iter, Folding(iter, X, base, n, next), NEW f, Iterates(f, n, X, base, next)
  PROVE  iter[1..n] = f[n]
  <1> DEFINE g == [k \in 0..n |-> iter[1..k]]
  <1>1. g[0] = base
    <2>1. 1..0 = {} /\ 0 \in 0..n
      OBVIOUS
    <2> QED BY <2>1 DEF Folding
  <1>2. ASSUME NEW k \in 1..n, g[k - 1] \in X PROVE g[k] = next[k][g[k - 1]]
    <2>1. k \in Nat \ {0} /\ 1..k \in SUBSET (1..n) /\ k \in 0..n /\ k - 1 \in 0..n
      OBVIOUS
    <2>2. Max(1..k) = k /\ (1..k) \ {k} = 1..(k - 1) /\ 1..k # {}
      BY <2>1, GreatestUpTo
    <2>3. iter[(1..k) \ {Max(1..k)}] \in X
      BY <1>2, <2>1, <2>2
    <2>4. iter[1..k] = next[Max(1..k)][iter[(1..k) \ {Max(1..k)}]]
      BY <2>1, <2>2, <2>3 DEF Folding
    <2> QED BY <2>1, <2>2, <2>4
  <1>3. Follows(g, X, base, n, next)
    <2> HIDE DEF g
    <2> QED BY <1>1, <1>2 DEF Follows
  <1>4. \A k \in 0..n : g[k] = f[k]
    <2> HIDE DEF g
    <2> QED BY <1>3, SameSteps
  <1>5. n \in 0..n
    OBVIOUS
  <1> QED BY <1>4, <1>5

-----------------------------------------------------------------------------
(* Sequences put together, and the bounds of finite sets.                *)

\* What FlattenSeq has put together after each of its sequences.
Joined(seqs, f) ==
    /\ DOMAIN f = 1..Len(seqs) /\ f[1] = seqs[1]
    /\ \A i \in 2..Len(seqs) : f[i] = f[i - 1] \o seqs[i]

LEMMA FlattenRecursion ==
  ASSUME NEW X, NEW seqs \in Seq(Seq(X)), seqs # <<>>
  PROVE  \E f : Joined(seqs, f) /\ FlattenSeq(seqs) = f[Len(seqs)]
  <1> DEFINE n == Len(seqs)
             joining == [i \in 1..n |-> [s \in Seq(X) |-> s \o seqs[i]]]
             body(f) == [i \in 1..n |-> IF i = 1 THEN seqs[i] ELSE f[i - 1] \o seqs[i]]
             flatten == CHOOSE f : f = body(f)
  <1>1. n \in Nat /\ n >= 1 /\ \A i \in 1..n : seqs[i] \in Seq(X)
    OBVIOUS
  <1>2. joining \in [1..n -> [Seq(X) -> Seq(X)]]
    <2> HIDE DEF n
    <2> QED BY <1>1
  <1>3. <<>> \in Seq(X)
    OBVIOUS
  <1>4. \E g : Iterates(g, n, Seq(X), <<>>, joining)
    <2> HIDE DEF n, joining
    <2> QED BY <1>1, <1>2, <1>3, RecursionUpTo
  <1>5. PICK g : Iterates(g, n, Seq(X), <<>>, joining)
    BY <1>4
  <1> DEFINE h == [i \in 1..n |-> g[i]]
  <1>6. g[0] = <<>> /\ \A i \in 1..n : g[i] = g[i - 1] \o seqs[i]
    <2> HIDE DEF n
    <2>1. \A i \in 1..n : i - 1 \in 0..n
      BY <1>1
    <2> QED BY <1>5, <2>1 DEF Iterates
  <1>7. h = body(h)
    <2> HIDE DEF n
    <2>1. ASSUME NEW i \in 1..n PROVE g[i] = IF i = 1 THEN seqs[i] ELSE h[i - 1] \o seqs[i]
      <3>1. CASE i = 1
        <4>1. i - 1 = 0 /\ seqs[i] \in Seq(X)
          BY <1>1, <3>1
        <4>2. g[i] = <<>> \o seqs[i]
          BY <1>6, <4>1
        <4>3. <<>> \o seqs[i] = seqs[i]
          BY <4>1
        <4> QED BY <3>1, <4>2, <4>3
      <3>2. CASE i # 1
        <4>1. i - 1 \in 1..n
          BY <1>1, <3>2
        <4> QED BY <1>6, <3>2, <4>1
      <3> QED BY <3>1, <3>2
    <2> QED BY <2>1
  <1>8. flatten = body(flatten)
    <2> HIDE DEF body
    <2> QED BY <1>7
  <1>9. FlattenSeq(seqs) = flatten[n]
    BY DEF FlattenSeq
  <1>10. Joined(seqs, flatten)
    <2> HIDE DEF flatten, n
    <2>1. DOMAIN flatten = 1..n
      BY <1>8
    <2>2. \A i \in 1..n : flatten[i] = IF i = 1 THEN seqs[i] ELSE flatten[i - 1] \o seqs[i]
      BY <1>8
    <2>3. 1 \in 1..n /\ \A i \in 2..n : i \in 1..n /\ i # 1
      BY <1>1
    <2>4. flatten[1] = seqs[1] /\ \A i \in 2..n : flatten[i] = flatten[i - 1] \o seqs[i]
      BY <2>2, <2>3
    <2> QED BY <2>1, <2>4 DEF Joined, n
  <1> HIDE DEF flatten
  <1> QED BY <1>9, <1>10

LEMMA Behind ==
  ASSUME NEW A, NEW s \in Seq(A), NEW t \in Seq(A)
  PROVE  /\ s \o t \in Seq(A) /\ Len(s \o t) = Len(s) + Len(t) /\ Len(s) \in Nat
         /\ \A j \in 1..Len(t) : (s \o t)[Len(s) + j] = t[j]
  OBVIOUS

LEMMA JoinedSets ==
  ASSUME NEW X, NEW s \in Seq(X), NEW t \in Seq(X)
  PROVE  /\ s \o t \in Seq(X)
         /\ ToSet(s) \subseteq ToSet(s \o t) /\ ToSet(t) \subseteq ToSet(s \o t)
  <1> DEFINE u == s \o t
             n == Len(s)
             m == Len(t)
  <1>1. /\ u \in Seq(X) /\ Len(u) = n + m /\ n \in Nat /\ m \in Nat
        /\ DOMAIN s = 1..n /\ DOMAIN t = 1..m /\ DOMAIN u = 1..Len(u)
    OBVIOUS
  <1>2. \A i \in 1..n : u[i] = s[i]
    OBVIOUS
  <1>3. \A i \in 1..m : u[n + i] = t[i]
    BY Behind
  <1> HIDE DEF u, n, m
  <1>4. \A i \in 1..n : i \in DOMAIN u
    BY <1>1
  <1>5. \A i \in 1..m : n + i \in DOMAIN u
    BY <1>1
  <1> QED BY <1>1, <1>2, <1>3, <1>4, <1>5 DEF ToSet, u

\* A flattened sequence has what each of its sequences has.
LEMMA FlattenHolds ==
  ASSUME NEW X, NEW seqs \in Seq(Seq(X)), seqs # <<>>
  PROVE  /\ FlattenSeq(seqs) \in Seq(X)
         /\ \A i \in 1..Len(seqs) : ToSet(seqs[i]) \subseteq ToSet(FlattenSeq(seqs))
  <1> DEFINE n == Len(seqs)
  <1>1. n \in Nat /\ n >= 1 /\ \A i \in 1..n : seqs[i] \in Seq(X)
    OBVIOUS
  <1>2. PICK f : Joined(seqs, f) /\ FlattenSeq(seqs) = f[n]
    BY FlattenRecursion
  <1>3. f[1] = seqs[1] /\ \A i \in 2..n : f[i] = f[i - 1] \o seqs[i]
    BY <1>2 DEF Joined
  <1> HIDE DEF n
  <1> DEFINE Held(i) == f[i] \in Seq(X) /\ \A j \in 1..i : ToSet(seqs[j]) \subseteq ToSet(f[i])
             T == {k \in Nat : k + 1 <= n => Held(k + 1)}
  <1>4. 0 \in T
    <2>1. 1 \in 1..n /\ \A j \in 1..1 : j = 1
      BY <1>1
    <2>2. Held(0 + 1)
      BY <1>1, <1>3, <2>1
    <2> QED BY <2>2
  <1>5. ASSUME NEW k \in T PROVE k + 1 \in T
    <2> SUFFICES ASSUME (k + 1) + 1 <= n PROVE Held((k + 1) + 1)
      OBVIOUS
    <2>1. k \in Nat /\ k + 1 <= n /\ (k + 1) + 1 \in 2..n /\ ((k + 1) + 1) - 1 = k + 1
          /\ (k + 1) + 1 \in 1..n
      BY <1>1
    <2>2. Held(k + 1)
      BY <2>1
    <2> DEFINE s == f[k + 1]
               t == seqs[(k + 1) + 1]
    <2>3. f[(k + 1) + 1] = s \o t /\ s \in Seq(X) /\ t \in Seq(X)
      BY <1>1, <1>3, <2>1, <2>2
    <2>4. \A j \in 1..(k + 1) : ToSet(seqs[j]) \subseteq ToSet(s)
      BY <2>2
    <2> HIDE DEF s, t
    <2>5. s \o t \in Seq(X) /\ ToSet(s) \subseteq ToSet(s \o t) /\ ToSet(t) \subseteq ToSet(s \o t)
      BY <2>3, JoinedSets
    <2>6. \A j \in 1..((k + 1) + 1) : j \in 1..(k + 1) \/ j = (k + 1) + 1
      BY <2>1
    <2>7. \A j \in 1..((k + 1) + 1) : ToSet(seqs[j]) \subseteq ToSet(s \o t)
      <3> TAKE j \in 1..((k + 1) + 1)
      <3>1. CASE j \in 1..(k + 1)
        BY <2>4, <2>5, <3>1
      <3>2. CASE j = (k + 1) + 1
        BY <2>5, <3>2 DEF t
      <3> QED BY <2>6, <3>1, <3>2
    <2> QED BY <2>3, <2>5, <2>7
  <1>6. T = Nat
    <2>1. T \subseteq Nat
      OBVIOUS
    <2> HIDE DEF T
    <2> QED BY <1>4, <1>5, <2>1, AllNat
  <1>7. Held(n)
    <2>1. n - 1 \in Nat /\ (n - 1) + 1 = n
      BY <1>1
    <2>2. n - 1 \in T
      <3> HIDE DEF T
      <3> QED BY <1>6, <2>1
    <2> HIDE DEF Held
    <2>3. Held((n - 1) + 1)
      BY <2>1, <2>2
    <2> QED BY <2>1, <2>3
  <1> QED BY <1>2, <1>7 DEF n

LEMMA FiniteBounds ==
  ASSUME NEW S \in SUBSET Int, IsFiniteSet(S), S # {}
  PROVE  Min(S) \in Int /\ Max(S) \in Int
  <1> DEFINE Bounded(A) == /\ \E x \in A : \A y \in A : x <= y
                           /\ \E x \in A : \A y \in A : x >= y
             F == {A \in SUBSET S : A # {} => Bounded(A)}
  <1>1. {} \in F
    OBVIOUS
  <1>2. ASSUME NEW A \in (SUBSET S) \ {{}}, \A x \in A : A \ {x} \in F
        PROVE  A \in F
    <2>1. PICK x \in A : TRUE
      OBVIOUS
    <2>2. x \in Int /\ \A y \in A : y \in Int
      OBVIOUS
    <2>3. CASE A \ {x} = {}
      <3>1. \A y \in A : y = x
        BY <2>3
      <3>2. x <= x /\ x >= x
        BY <2>2
      <3>3. Bounded(A)
        BY <3>1, <3>2
      <3> QED BY <3>3
    <2>4. CASE A \ {x} # {}
      <3>1. Bounded(A \ {x})
        BY <1>2, <2>4
      <3>2. PICK l \in A \ {x} : \A y \in A \ {x} : l <= y
        BY <3>1
      <3>3. PICK g \in A \ {x} : \A y \in A \ {x} : g >= y
        BY <3>1
      <3>4. \E z \in A : \A y \in A : z <= y
        <4>1. CASE l <= x
          <5>1. \A y \in A : l <= y
            BY <3>2, <4>1
          <5> QED BY <5>1
        <4>2. CASE ~(l <= x)
          <5>1. \A y \in A : x <= y
            BY <2>2, <3>2, <4>2
          <5> QED BY <5>1
        <4> QED BY <4>1, <4>2
      <3>5. \E z \in A : \A y \in A : z >= y
        <4>1. CASE g >= x
          <5>1. \A y \in A : g >= y
            BY <3>3, <4>1
          <5> QED BY <5>1
        <4>2. CASE ~(g >= x)
          <5>1. \A y \in A : x >= y
            BY <2>2, <3>3, <4>2
          <5> QED BY <5>1
        <4> QED BY <4>1, <4>2
      <3> QED BY <3>4, <3>5
    <2> QED BY <2>3, <2>4
  <1>3. F = SUBSET S
    <2>1. F \in SUBSET (SUBSET S)
      OBVIOUS
    <2> HIDE DEF F
    <2> QED BY <1>1, <1>2, <2>1, AllSubsets
  <1>4. Bounded(S)
    <2>1. S \in F
      <3> HIDE DEF F
      <3> QED BY <1>3
    <2> HIDE DEF Bounded
    <2> QED BY <2>1
  <1>5. Min(S) \in S
    <2>1. Min(S) = CHOOSE x \in S : \A y \in S : x <= y
      BY DEF Min
    <2> QED BY <1>4, <2>1, Zenon
  <1>6. Max(S) \in S
    <2>1. Max(S) = CHOOSE x \in S : \A y \in S : x >= y
      BY DEF Max
    <2> QED BY <1>4, <2>1, Zenon
  <1> QED BY <1>5, <1>6

LEMMA FamilyLength ==
  ASSUME NEW n \in Nat, NEW c, DOMAIN c = 1..n, c = [i \in 1..n |-> c[i]]
  PROVE  Len(c) = n /\ c \in Surjection(1..n, ToSet(c)) /\ IsFiniteSet(ToSet(c))
  <1>1. c \in [1..n -> ToSet(c)] /\ \A t \in ToSet(c) : \E i \in 1..n : c[i] = t
    BY DEF ToSet
  <1>2. c \in Surjection(1..n, ToSet(c))
    BY <1>1 DEF Surjection
  <1>3. IsFiniteSet(1..n)
    BY FS_Interval
  <1>4. IsFiniteSet(ToSet(c))
    BY <1>2, <1>3, FS_Surjection
  <1>5. Len(c) = n
    <2> DEFINE Y == ToSet(c)
    <2>1. c \in [1..n -> Y]
      BY <1>1
    <2> HIDE DEF Y
    <2>2. \A g \in [1..n -> Y] : Len(g) = n
      OBVIOUS
    <2> QED BY <2>1, <2>2
  <1> QED BY <1>2, <1>4, <1>5

-----------------------------------------------------------------------------
(* Ranks: how many there are up to each.                                   *)

Rank(S, key, x) == Cardinality({y \in S : key[y] <= key[x]})

\* A set in which no two have the same key.
Keyed(S, key) == /\ IsFiniteSet(S) /\ key \in [S -> Int]
                 /\ \A x, y \in S : key[x] = key[y] => x = y

LEMMA RankInRange ==
  ASSUME NEW S, NEW key, Keyed(S, key), NEW x \in S
  PROVE  Rank(S, key, x) \in 1..Cardinality(S)
  <1> DEFINE below == {y \in S : key[y] <= key[x]}
  <1>1. below \subseteq S /\ x \in below /\ IsFiniteSet(S)
    BY DEF Keyed
  <1> HIDE DEF below
  <1>2. IsFiniteSet(below) /\ Cardinality(below) <= Cardinality(S)
    BY <1>1, FS_Subset
  <1>3. Cardinality(below) \in Nat /\ Cardinality(S) \in Nat /\ Cardinality(below) # 0
    BY <1>1, <1>2, FS_CardinalityType, FS_EmptySet
  <1>4. Cardinality(below) \in 1..Cardinality(S)
    BY <1>2, <1>3
  <1> QED BY <1>4 DEF Rank, below

LEMMA RankGrows ==
  ASSUME NEW S, NEW key, Keyed(S, key), NEW x \in S, NEW y \in S, key[x] < key[y]
  PROVE  Rank(S, key, x) < Rank(S, key, y)
  <1> DEFINE upto(z) == {v \in S : key[v] <= key[z]}
  <1>1. /\ upto(x) \subseteq upto(y) /\ y \in upto(y) /\ y \notin upto(x)
        /\ IsFiniteSet(S) /\ upto(y) \subseteq S
    BY DEF Keyed
  <1>2. Rank(S, key, x) = Cardinality(upto(x)) /\ Rank(S, key, y) = Cardinality(upto(y))
    BY DEF Rank
  <1> HIDE DEF upto
  <1>3. IsFiniteSet(upto(y)) /\ IsFiniteSet(upto(x))
    BY <1>1, FS_Subset
  <1>4. /\ Cardinality(upto(x)) <= Cardinality(upto(y))
        /\ Cardinality(upto(x)) = Cardinality(upto(y)) => upto(x) = upto(y)
    BY <1>1, <1>3, FS_Subset
  <1>5. Cardinality(upto(x)) \in Nat /\ Cardinality(upto(y)) \in Nat
    BY <1>3, FS_CardinalityType
  <1>6. Cardinality(upto(x)) < Cardinality(upto(y))
    BY <1>1, <1>4, <1>5
  <1> QED BY <1>2, <1>6

\* Every number up to the size is the rank of exactly one.
OneEach(S, key) ==
    /\ \A x, y \in S : Rank(S, key, x) = Rank(S, key, y) => x = y
    /\ \A i \in 1..Cardinality(S) : \E x \in S : Rank(S, key, x) = i

LEMMA RankIsOnto ==
  ASSUME NEW S, NEW key, Keyed(S, key)
  PROVE  OneEach(S, key)
  <1> DEFINE n == Cardinality(S)
             rank == [x \in S |-> Rank(S, key, x)]
  <1>1. n \in Nat
    BY FS_CardinalityType DEF Keyed
  <1>2. ASSUME NEW x \in S, NEW y \in S, Rank(S, key, x) = Rank(S, key, y) PROVE x = y
    <2>1. key[x] \in Int /\ key[y] \in Int /\ (key[x] = key[y] => x = y)
      BY DEF Keyed
    <2>2. Rank(S, key, x) \in 1..n /\ Rank(S, key, y) \in 1..n
      BY RankInRange
    <2>3. ~(key[x] < key[y]) /\ ~(key[y] < key[x])
      BY <1>1, <1>2, <2>2, RankGrows
    <2> QED BY <2>1, <2>3
  <1>3. rank \in [S -> 1..n]
    BY RankInRange
  <1>4. rank \in Injection(S, 1..n)
    BY <1>2, <1>3 DEF Injection, IsInjective
  <1>5. IsFiniteSet(1..n) /\ Cardinality(1..n) = n
    <2>1. IF 1 > n THEN Cardinality(1..n) = 0 ELSE Cardinality(1..n) = n - 1 + 1
      BY <1>1, FS_Interval
    <2> QED BY <1>1, <2>1, FS_Interval
  <1>6. rank \in Surjection(S, 1..n)
    <2> HIDE DEF rank
    <2> QED BY <1>4, <1>5, FS_Injection
  <1>7. \A i \in 1..n : \E x \in S : rank[x] = i
    BY <1>3, <1>6 DEF Surjection
  <1> QED BY <1>2, <1>7 DEF OneEach

\* The same for numbers, which are their own keys.
UpTo(S, k) == Cardinality({j \in S : j <= k})

LEMMA NumbersInOrder ==
  ASSUME NEW n \in Nat, NEW S \in SUBSET (1..n)
  PROVE  /\ IsFiniteSet(S) /\ Cardinality(S) \in Nat
         /\ \A k \in S : UpTo(S, k) \in 1..Cardinality(S)
         /\ \A j, k \in S : j < k => UpTo(S, j) < UpTo(S, k)
         /\ \A i \in 1..Cardinality(S) : \E k \in S : UpTo(S, k) = i
  <1> DEFINE key == [k \in S |-> k]
  <1>1. IsFiniteSet(S) /\ Cardinality(S) \in Nat
    <2>1. IsFiniteSet(1..n)
      BY FS_Interval
    <2> QED BY <2>1, FS_Subset, FS_CardinalityType
  <1>2. Keyed(S, key)
    BY <1>1 DEF Keyed
  <1>3. ASSUME NEW k \in S PROVE UpTo(S, k) = Rank(S, key, k)
    <2>1. {j \in S : j <= k} = {j \in S : key[j] <= key[k]}
      OBVIOUS
    <2> QED BY <2>1 DEF UpTo, Rank
  <1>4. \A k \in S : key[k] = k
    OBVIOUS
  <1> HIDE DEF key
  <1>5. \A k \in S : UpTo(S, k) \in 1..Cardinality(S)
    BY <1>2, <1>3, RankInRange
  <1>6. ASSUME NEW j \in S, NEW k \in S, j < k PROVE UpTo(S, j) < UpTo(S, k)
    <2>1. key[j] < key[k]
      BY <1>4, <1>6
    <2>2. Rank(S, key, j) < Rank(S, key, k)
      BY <1>2, <2>1, RankGrows, Zenon
    <2>3. UpTo(S, j) = Rank(S, key, j) /\ UpTo(S, k) = Rank(S, key, k)
      BY <1>3
    <2> QED BY <2>2, <2>3
  <1>7. \A i \in 1..Cardinality(S) : \E k \in S : UpTo(S, k) = i
    <2>1. OneEach(S, key)
      BY <1>2, RankIsOnto
    <2> QED BY <1>3, <2>1 DEF OneEach
  <1> QED BY <1>1, <1>5, <1>6, <1>7

\* A sequence that holds for each number of a set, in order, its value.
Collects(seq, S, val) ==
    /\ \E Y : seq \in Seq(Y)
    /\ Len(seq) = Cardinality(S)
    /\ \A k \in S : seq[UpTo(S, k)] = val[k]

LEMMA NothingCollected ==
  ASSUME NEW val PROVE Collects(<<>>, {}, val)
  <1>1. <<>> \in Seq({}) /\ Len(<<>>) = 0
    OBVIOUS
  <1>2. Cardinality({}) = 0
    BY FS_EmptySet
  <1> QED BY <1>1, <1>2 DEF Collects

LEMMA OneMoreCollected ==
  ASSUME NEW n \in Nat, NEW S \in SUBSET (1..n), NEW seq, NEW val, Collects(seq, S, val),
         NEW x, NEW more, \A k \in S : more[k] = val[k], more[n + 1] = x
  PROVE  Collects(Append(seq, x), S \cup {n + 1}, more)
  <1> DEFINE T == S \cup {n + 1}
             m == Cardinality(S)
             s == Append(seq, x)
  <1>1. IsFiniteSet(S) /\ m \in Nat /\ n + 1 \notin S
    <2>1. n + 1 \notin 1..n
      OBVIOUS
    <2> QED BY <2>1, NumbersInOrder
  <1>2. IsFiniteSet(T) /\ Cardinality(T) = m + 1
    BY <1>1, FS_AddElement
  <1>3. /\ \E Y : s \in Seq(Y)
        /\ Len(s) = m + 1 /\ s[m + 1] = x /\ \A i \in 1..m : s[i] = seq[i]
    <2>1. PICK Y : seq \in Seq(Y)
      BY DEF Collects
    <2>2. seq \in Seq(Y \cup {x}) /\ Len(seq) = m
      BY <2>1 DEF Collects
    <2> HIDE DEF m
    <2> QED BY <2>2, AppendProperties
  <1>4. ASSUME NEW k \in S PROVE s[UpTo(T, k)] = more[k]
    <2>1. {j \in T : j <= k} = {j \in S : j <= k}
      OBVIOUS
    <2>2. UpTo(T, k) = UpTo(S, k) /\ UpTo(S, k) \in 1..m
      BY <2>1, NumbersInOrder DEF UpTo
    <2>3. seq[UpTo(S, k)] = val[k]
      BY DEF Collects
    <2> HIDE DEF s, m
    <2> QED BY <1>3, <2>2, <2>3
  <1>5. s[UpTo(T, n + 1)] = x
    <2>1. {j \in T : j <= n + 1} = T
      OBVIOUS
    <2> HIDE DEF s, m
    <2> QED BY <1>2, <1>3, <2>1 DEF UpTo
  <1>6. \A k \in T : s[UpTo(T, k)] = more[k]
    BY <1>4, <1>5
  <1> HIDE DEF s, m, T
  <1>7. Collects(s, T, more)
    BY <1>2, <1>3, <1>6 DEF Collects
  <1> QED BY <1>7 DEF s, T

\* Nothing is added.
LEMMA SameCollected ==
  ASSUME NEW S, NEW seq, NEW val, Collects(seq, S, val), NEW more, \A k \in S : more[k] = val[k]
  PROVE  Collects(seq, S, more)
  BY DEF Collects

LEMMA LeastOf ==
  ASSUME NEW S \in (SUBSET Nat) \ {{}}
  PROVE  Min(S) \in S /\ \A y \in S : Min(S) <= y
  <1>1. \E x \in S : \A y \in S : x <= y
    BY LeastNat
  <1>2. Min(S) = CHOOSE x \in S : \A y \in S : x <= y
    BY DEF Min
  <1> QED BY <1>1, <1>2, Zenon

\* Where the sequence holds the values of some of the numbers.
Places(seq, S, W) == {i \in 1..Len(seq) : \E k \in W : i = UpTo(S, k)}

\* The first one in the sequence is the one of the least number.
LEMMA FirstCollected ==
  ASSUME NEW n \in Nat, NEW S \in SUBSET (1..n), NEW seq, NEW val, Collects(seq, S, val),
         NEW W \in SUBSET S
  PROVE  LET I == Places(seq, S, W)
         IN  /\ I = {} <=> W = {}
             /\ I # {} => seq[Min(I)] = val[Min(W)] /\ Min(W) \in W
  <1> DEFINE I == Places(seq, S, W)
  <1>0. I \in SUBSET Nat /\ \A i : i \in I <=> i \in 1..Len(seq) /\ \E k \in W : i = UpTo(S, k)
    <2>1. Len(seq) \in Nat
      BY DEF Collects
    <2> QED BY <2>1 DEF Places
  <1> HIDE DEF I
  <1>1. /\ Len(seq) = Cardinality(S) /\ Cardinality(S) \in Nat
        /\ \A k \in S : UpTo(S, k) \in 1..Len(seq)
        /\ \A j, k \in S : j < k => UpTo(S, j) < UpTo(S, k)
    BY NumbersInOrder DEF Collects
  <1>2. I = {} <=> W = {}
    BY <1>0, <1>1
  <1>3. ASSUME I # {} PROVE seq[Min(I)] = val[Min(W)] /\ Min(W) \in W
    <2>1. W \in SUBSET Nat /\ W # {}
      BY <1>2, <1>3
    <2>2. PICK k \in W : \A j \in W : k <= j
      BY <2>1, LeastNat
    <2>3. Min(W) = k
      <3>1. Min(W) \in W /\ \A j \in W : Min(W) <= j
        BY <2>1, LeastOf
      <3>2. Min(W) \in Nat /\ k \in Nat /\ k <= Min(W) /\ Min(W) <= k
        BY <2>1, <2>2, <3>1
      <3> QED BY <3>2
    <2>4. UpTo(S, k) \in I
      <3>1. k \in S
        OBVIOUS
      <3>2. UpTo(S, k) \in 1..Len(seq)
        BY <1>1, <3>1
      <3> QED BY <1>0, <3>2
    <2>5. \A i \in I : UpTo(S, k) <= i
      <3> TAKE i \in I
      <3>1. PICK j \in W : i = UpTo(S, j)
        BY <1>0
      <3>2. k = j \/ k < j
        BY <2>1, <2>2
      <3>3. k \in S /\ j \in S
        OBVIOUS
      <3>4. UpTo(S, k) \in 1..Len(seq) /\ (k < j => UpTo(S, k) < UpTo(S, j))
        BY <1>1, <3>3
      <3>5. UpTo(S, j) \in 1..Len(seq) /\ Len(seq) \in Nat
        BY <1>1, <3>3
      <3> QED BY <3>1, <3>2, <3>4, <3>5
    <2>6. Min(I) = UpTo(S, k)
      <3>1. Min(I) \in I /\ \A i \in I : Min(I) <= i
        BY <1>0, <1>3, LeastOf
      <3> QED BY <1>0, <2>4, <2>5, <3>1
    <2> QED BY <2>3, <2>6 DEF Collects
  <1> QED BY <1>2, <1>3 DEF I

-----------------------------------------------------------------------------
(* Sequences of sequences.                                                  *)

\* A set that has the empty sequence, and with every sequence the longer
\* ones by an element, has all of them.
LEMMA AllSequences ==
  ASSUME NEW X, NEW S \in SUBSET Seq(X), <<>> \in S,
         \A s \in S : \A x \in X : Append(s, x) \in S
  PROVE  S = Seq(X)
  <1> DEFINE T == {n \in Nat : \A s \in Seq(X) : Len(s) = n => s \in S}
  <1>1. 0 \in T
    <2>1. \A s \in Seq(X) : Len(s) = 0 => s = <<>>
      OBVIOUS
    <2> QED BY <2>1
  <1>2. ASSUME NEW n \in T PROVE n + 1 \in T
    <2> SUFFICES ASSUME NEW s \in Seq(X), Len(s) = n + 1 PROVE s \in S
      OBVIOUS
    <2>1. n \in Nat /\ \A t \in Seq(X) : Len(t) = n => t \in S
      OBVIOUS
    <2>2. s # <<>>
      BY <2>1, EmptySeq
    <2>3. PICK t \in Seq(X), x \in X : s = Append(t, x)
      BY <2>2, SequenceEmptyOrAppend
    <2>4. Len(t) \in Nat /\ Len(s) = Len(t) + 1
      BY <2>3, AppendProperties, LenProperties
    <2> HIDE DEF T
    <2> QED BY <2>1, <2>3, <2>4
  <1>3. T = Nat
    <2>1. T \subseteq Nat
      OBVIOUS
    <2> HIDE DEF T
    <2> QED BY <1>1, <1>2, <2>1, AllNat
  <1>4. ASSUME NEW s \in Seq(X) PROVE s \in S
    <2>1. Len(s) \in T
      <3> HIDE DEF T
      <3> QED BY <1>3
    <2> QED BY <2>1
  <1> QED BY <1>4

\* A family of elements of a set is a sequence of them.
LEMMA FamilyIsSeq ==
  ASSUME NEW n \in Nat, NEW S, NEW f \in [1..n -> S]
  PROVE  f \in Seq(S) /\ Len(f) = n /\ DOMAIN f = 1..n
  OBVIOUS

\* What FlattenSeq makes of no sequence, of one more, and of one.
LEMMA FlattenNothing == FlattenSeq(<<>>) = <<>>
  BY DEF FlattenSeq

LEMMA FlattenAppend ==
  ASSUME NEW X, NEW seqs \in Seq(Seq(X)), NEW s \in Seq(X)
  PROVE  /\ FlattenSeq(Append(seqs, s)) = FlattenSeq(seqs) \o s
         /\ FlattenSeq(seqs) \in Seq(X)
  <1> DEFINE n == Len(seqs)
             more == Append(seqs, s)
  <1>1. /\ n \in Nat /\ more \in Seq(Seq(X)) /\ more # <<>> /\ Len(more) = n + 1
        /\ more[n + 1] = s /\ \A i \in 1..n : more[i] = seqs[i]
    BY AppendProperties, LenProperties
  <1> HIDE DEF more
  <1>2. PICK g : Joined(more, g) /\ FlattenSeq(more) = g[n + 1]
    <2> HIDE DEF n
    <2> QED BY <1>1, FlattenRecursion
  <1>3. g[1] = more[1] /\ \A i \in 2..(n + 1) : g[i] = g[i - 1] \o more[i]
    BY <1>1, <1>2 DEF Joined
  <1>4. CASE seqs = <<>>
    <2>1. n = 0 /\ FlattenSeq(seqs) = <<>>
      BY <1>4, FlattenNothing
    <2>2. FlattenSeq(more) = s
      BY <1>1, <1>2, <1>3, <2>1
    <2>3. <<>> \o s = s /\ <<>> \in Seq(X)
      OBVIOUS
    <2> QED BY <2>1, <2>2, <2>3 DEF more
  <1>5. CASE seqs # <<>>
    <2>1. PICK f : Joined(seqs, f) /\ FlattenSeq(seqs) = f[n]
      BY <1>5, FlattenRecursion
    <2>2. f[1] = seqs[1] /\ \A i \in 2..n : f[i] = f[i - 1] \o seqs[i]
      BY <2>1 DEF Joined
    <2>3. n >= 1
      BY <1>1, <1>5
    <2> DEFINE T == {k \in Nat : k + 1 <= n => g[k + 1] = f[k + 1]}
    <2> HIDE DEF n
    <2>4. 0 \in T
      <3>1. 0 + 1 = 1 /\ 1 \in 1..n
        BY <1>1, <2>3
      <3> QED BY <1>1, <1>3, <2>2, <3>1
    <2>5. ASSUME NEW k \in T PROVE k + 1 \in T
      <3> SUFFICES ASSUME (k + 1) + 1 <= n PROVE g[(k + 1) + 1] = f[(k + 1) + 1]
        OBVIOUS
      <3>1. /\ k \in Nat /\ k + 1 <= n /\ (k + 1) + 1 \in 2..n /\ (k + 1) + 1 \in 1..n
            /\ (k + 1) + 1 \in 2..(n + 1) /\ ((k + 1) + 1) - 1 = k + 1
        BY <1>1
      <3>2. g[k + 1] = f[k + 1]
        BY <3>1
      <3> QED BY <1>1, <1>3, <2>2, <3>1, <3>2
    <2>6. T = Nat
      <3>1. T \subseteq Nat
        OBVIOUS
      <3> HIDE DEF T
      <3> QED BY <2>4, <2>5, <3>1, AllNat
    <2>7. g[n] = f[n]
      <3>1. n - 1 \in T /\ (n - 1) + 1 = n
        <4>1. n - 1 \in Nat /\ (n - 1) + 1 = n
          BY <1>1, <2>3
        <4> HIDE DEF T
        <4> QED BY <2>6, <4>1
      <3> QED BY <3>1
    <2>8. g[n + 1] = g[n] \o s
      <3>1. n + 1 \in 2..(n + 1) /\ (n + 1) - 1 = n
        BY <1>1, <2>3
      <3> QED BY <1>1, <1>3, <3>1
    <2>9. FlattenSeq(seqs) \in Seq(X)
      BY <1>5, FlattenHolds
    <2> QED BY <1>2, <2>1, <2>7, <2>8, <2>9 DEF more
  <1> QED BY <1>4, <1>5

LEMMA FlattenOne ==
  ASSUME NEW X, NEW s \in Seq(X)
  PROVE  FlattenSeq(<<s>>) = s
  <1> DEFINE none == <<>>
  <1>1. <<s>> = Append(none, s) /\ none \in Seq(Seq(X))
    OBVIOUS
  <1>2. FlattenSeq(Append(none, s)) = FlattenSeq(none) \o s
    <2> HIDE DEF none
    <2> QED BY <1>1, FlattenAppend
  <1>3. <<>> \o s = s
    OBVIOUS
  <1> QED BY <1>1, <1>2, <1>3, FlattenNothing

\* What takes sequences that are put together to what it makes of each.
Morphism(h, X, Y) ==
    /\ h \in [Seq(X) -> Seq(Y)] /\ h[<<>>] = <<>>
    /\ \A s, t \in Seq(X) : h[s \o t] = h[s] \o h[t]

\* A function that keeps concatenations keeps what is flattened.
LEMMA FlattenMorphism ==
  ASSUME NEW X, NEW Y, NEW h, Morphism(h, X, Y), NEW seqs \in Seq(Seq(X))
  PROVE  /\ [i \in 1..Len(seqs) |-> h[seqs[i]]] \in Seq(Seq(Y))
         /\ h[FlattenSeq(seqs)] = FlattenSeq([i \in 1..Len(seqs) |-> h[seqs[i]]])
  <1> DEFINE each(ss) == [i \in 1..Len(ss) |-> h[ss[i]]]
             S == {ss \in Seq(Seq(X)) : each(ss) \in Seq(Seq(Y))
                                        /\ h[FlattenSeq(ss)] = FlattenSeq(each(ss))}
  <1>1. <<>> \in S
    <2>1. each(<<>>) = <<>>
      OBVIOUS
    <2>2. <<>> \in Seq(Seq(X)) /\ <<>> \in Seq(Seq(Y))
      OBVIOUS
    <2> HIDE DEF each
    <2> QED BY <2>1, <2>2, FlattenNothing DEF Morphism
  <1>2. ASSUME NEW ss \in S, NEW s \in Seq(X) PROVE Append(ss, s) \in S
    <2>1. ss \in Seq(Seq(X)) /\ each(ss) \in Seq(Seq(Y)) /\ h[FlattenSeq(ss)] = FlattenSeq(each(ss))
      OBVIOUS
    <2>2. h[s] \in Seq(Y)
      BY DEF Morphism
    <2>3. each(Append(ss, s)) = Append(each(ss), h[s])
      <3> DEFINE more == Append(ss, s)
      <3>1. /\ Len(ss) \in Nat /\ Len(more) = Len(ss) + 1 /\ more[Len(ss) + 1] = s
            /\ \A i \in 1..Len(ss) : more[i] = ss[i]
        BY <2>1
      <3> HIDE DEF more
      <3>2. each(more) = [i \in 1..(Len(ss) + 1) |-> IF i = Len(ss) + 1 THEN h[s] ELSE h[ss[i]]]
        <4>1. \A i \in 1..(Len(ss) + 1) : i \in 1..Len(ss) \/ i = Len(ss) + 1
          BY <3>1
        <4> QED BY <3>1, <4>1
      <3>3. Append(each(ss), h[s]) =
               [i \in 1..(Len(ss) + 1) |-> IF i = Len(ss) + 1 THEN h[s] ELSE h[ss[i]]]
        BY <2>1, <2>2, <3>1
      <3> QED BY <3>2, <3>3 DEF more
    <2>4. Append(ss, s) \in Seq(Seq(X)) /\ Append(each(ss), h[s]) \in Seq(Seq(Y))
      <3> HIDE DEF each
      <3> QED BY <2>1, <2>2
    <2> HIDE DEF each
    <2>5. FlattenSeq(Append(ss, s)) = FlattenSeq(ss) \o s /\ FlattenSeq(ss) \in Seq(X)
      BY <2>1, FlattenAppend
    <2>6. FlattenSeq(Append(each(ss), h[s])) = FlattenSeq(each(ss)) \o h[s]
      BY <2>1, <2>2, FlattenAppend
    <2>7. h[FlattenSeq(ss) \o s] = h[FlattenSeq(ss)] \o h[s]
      BY <2>5 DEF Morphism
    <2> QED BY <2>1, <2>3, <2>4, <2>5, <2>6, <2>7
  <1>3. S = Seq(Seq(X))
    <2>1. S \in SUBSET Seq(Seq(X))
      OBVIOUS
    <2> HIDE DEF S
    <2> QED BY <1>1, <1>2, <2>1, AllSequences
  <1>4. seqs \in S
    <2> HIDE DEF S
    <2> QED BY <1>3
  <1> QED BY <1>4

\* Two lists of sequences, put together one after the other.
LEMMA FlattenConcat ==
  ASSUME NEW X, NEW ss \in Seq(Seq(X)), NEW tt \in Seq(Seq(X))
  PROVE  FlattenSeq(ss \o tt) = FlattenSeq(ss) \o FlattenSeq(tt)
  <1> DEFINE S == {uu \in Seq(Seq(X)) : FlattenSeq(ss \o uu) = FlattenSeq(ss) \o FlattenSeq(uu)}
  <1>0. FlattenSeq(ss) \in Seq(X)
    <2>1. <<>> \in Seq(X)
      OBVIOUS
    <2> QED BY <2>1, FlattenAppend
  <1>1. <<>> \in S
    <2>1. ss \o <<>> = ss /\ FlattenSeq(ss) \o <<>> = FlattenSeq(ss)
      BY <1>0, ConcatEmptySeq
    <2>2. <<>> \in Seq(Seq(X))
      BY EmptySeq
    <2> QED BY <2>1, <2>2, FlattenNothing
  <1>2. ASSUME NEW uu \in S, NEW s \in Seq(X) PROVE Append(uu, s) \in S
    <2>1. uu \in Seq(Seq(X)) /\ FlattenSeq(ss \o uu) = FlattenSeq(ss) \o FlattenSeq(uu)
      OBVIOUS
    <2>2. ss \o Append(uu, s) = Append(ss \o uu, s) /\ ss \o uu \in Seq(Seq(X))
          /\ Append(uu, s) \in Seq(Seq(X))
      BY <2>1, SMTT(30)
    <2>3. FlattenSeq(Append(ss \o uu, s)) = FlattenSeq(ss \o uu) \o s
      BY <2>2, FlattenAppend
    <2>4. FlattenSeq(Append(uu, s)) = FlattenSeq(uu) \o s /\ FlattenSeq(uu) \in Seq(X)
      BY <2>1, FlattenAppend
    <2>5. (FlattenSeq(ss) \o FlattenSeq(uu)) \o s = FlattenSeq(ss) \o (FlattenSeq(uu) \o s)
      <3>1. ASSUME NEW a \in Seq(X), NEW b \in Seq(X), NEW c \in Seq(X)
            PROVE  (a \o b) \o c = a \o (b \o c)
        BY ConcatAssociative, SMTT(30)
      <3> QED BY <1>0, <2>4, <3>1, Zenon
    <2>6. FlattenSeq(ss \o Append(uu, s)) = FlattenSeq(ss) \o FlattenSeq(Append(uu, s))
      BY <2>1, <2>2, <2>3, <2>4, <2>5, Zenon
    <2> QED BY <2>2, <2>6
  <1>3. S = Seq(Seq(X))
    <2>1. S \in SUBSET Seq(Seq(X))
      OBVIOUS
    <2> HIDE DEF S
    <2> QED BY <1>1, <1>2, <2>1, AllSequences
  <1>4. tt \in S
    <2> HIDE DEF S
    <2> QED BY <1>3
  <1> QED BY <1>4

\* Whoever has all that is put together has each of the sequences.
LEMMA FlattenWithin ==
  ASSUME NEW X, NEW Y, NEW seqs \in Seq(Seq(X)), FlattenSeq(seqs) \in Seq(Y)
  PROVE  seqs \in Seq(Seq(Y))
  <1>1. CASE seqs = <<>>
    BY <1>1
  <1>2. CASE seqs # <<>>
    <2>1. \A i \in 1..Len(seqs) : ToSet(seqs[i]) \subseteq ToSet(FlattenSeq(seqs))
      BY <1>2, FlattenHolds
    <2> DEFINE all == FlattenSeq(seqs)
    <2>2. ToSet(all) \subseteq Y
      <3>1. all \in Seq(Y)
        OBVIOUS
      <3> HIDE DEF all
      <3>2. DOMAIN all = 1..Len(all) /\ \A i \in 1..Len(all) : all[i] \in Y
        BY <3>1, LenProperties, ElementOfSeq
      <3> QED BY <3>2 DEF ToSet
    <2>3. ASSUME NEW i \in 1..Len(seqs) PROVE seqs[i] \in Seq(Y)
      <3>1. seqs[i] \in Seq(X)
        OBVIOUS
      <3> DEFINE s == seqs[i]
      <3>2. s \in Seq(X) /\ ToSet(s) \subseteq Y
        BY <2>1, <2>2, <3>1
      <3> HIDE DEF s
      <3>3. /\ Len(s) \in Nat /\ DOMAIN s = 1..Len(s) /\ s \in [1..Len(s) -> X]
        BY <3>2, LenProperties
      <3>4. s \in [1..Len(s) -> Y]
        BY <3>2, <3>3 DEF ToSet
      <3>5. s \in Seq(Y)
        BY <3>3, <3>4, FamilyIsSeq
      <3> QED BY <3>5 DEF s
    <2>4. Len(seqs) \in Nat /\ seqs = [i \in 1..Len(seqs) |-> seqs[i]]
      OBVIOUS
    <2> DEFINE Z == Seq(Y)
    <2>5. seqs \in [1..Len(seqs) -> Z]
      BY <2>3, <2>4
    <2> HIDE DEF Z
    <2>6. seqs \in Seq(Z)
      BY <2>4, <2>5, FamilyIsSeq
    <2> QED BY <2>6 DEF Z
  <1> QED BY <1>1, <1>2

\* The elements of two sequences, one after the other, and of a part of one;
\* as relations, which the provers do not take apart.
Joins(both, a, b)     == both = a \o b
IsPart(part, s, m, n) == part = SubSeq(s, m, n)

Within(s, m, n, X) == \A i \in m..n : s[i] \in X

Concatenated(both, a, b, l, n) ==
    /\ Len(both) = l + n
    /\ \A i \in 1..(l + n) : both[i] = IF i <= l THEN a[i] ELSE b[i - l]

Excerpt(part, s, m, n) ==
    /\ Len(part) = IF m <= n THEN n - m + 1 ELSE 0
    /\ \A i \in 1..(n - m + 1) : part[i] = s[m + i - 1]

LEMMA ConcatIndexed ==
  ASSUME NEW X, NEW a \in Seq(X), NEW b \in Seq(X), NEW both, Joins(both, a, b)
  PROVE  both \in Seq(X) /\ Concatenated(both, a, b, Len(a), Len(b))
  BY ConcatProperties DEF Joins, Concatenated

LEMMA PartIndexed ==
  ASSUME NEW X, NEW s, NEW m \in Int, NEW n \in Int, Within(s, m, n, X),
         NEW part, IsPart(part, s, m, n)
  PROVE  part \in Seq(X) /\ Excerpt(part, s, m, n)
  BY SubSeqProperties DEF IsPart, Within, Excerpt

-----------------------------------------------------------------------------
(* Lists, whatever is in them.                                              *)

IsList(s) == Len(s) \in Nat /\ s = [i \in 1..Len(s) |-> s[i]]

\* A list is a sequence of its elements, and a sequence is a list.
LEMMA ListIsSeq ==
  ASSUME NEW s, IsList(s)
  PROVE  /\ s \in Seq(ToSet(s)) /\ DOMAIN s = 1..Len(s)
         /\ \A i \in 1..Len(s) : s[i] \in ToSet(s)
         /\ ToSet(s) = {s[i] : i \in 1..Len(s)}
  <1> DEFINE n == Len(s)
             X == ToSet(s)
  <1>1. n \in Nat /\ s = [i \in 1..n |-> s[i]]
    BY DEF IsList
  <1>2. DOMAIN s = 1..n
    BY <1>1
  <1>3. X = {s[i] : i \in 1..n}
    BY <1>2 DEF ToSet
  <1>4. \A i \in 1..n : s[i] \in X
    BY <1>3
  <1> HIDE DEF X, n
  <1>5. s \in [1..n -> X]
    BY <1>1, <1>4
  <1>6. s \in Seq(X)
    BY <1>1, <1>5, FamilyIsSeq
  <1> QED BY <1>2, <1>3, <1>4, <1>6 DEF X, n

LEMMA SeqIsList ==
  ASSUME NEW X, NEW s \in Seq(X)
  PROVE  IsList(s)
  BY LenProperties DEF IsList

\* Families, single elements, two lists one after the other, and one more element.
LEMMA FamilyIsList ==
  ASSUME NEW n \in Nat, NEW f, f = [i \in 1..n |-> f[i]]
  PROVE  IsList(f) /\ Len(f) = n
  <1> DEFINE X == {f[i] : i \in 1..n}
  <1>1. \A i \in 1..n : f[i] \in X
    OBVIOUS
  <1> HIDE DEF X
  <1>2. f \in [1..n -> X]
    BY <1>1
  <1>3. f \in Seq(X) /\ Len(f) = n
    BY <1>2, FamilyIsSeq
  <1> QED BY <1>3, SeqIsList

LEMMA OneIsList ==
  ASSUME NEW x
  PROVE  IsList(<<x>>) /\ Len(<<x>>) = 1 /\ <<x>>[1] = x
  <1>1. <<x>> \in Seq({x}) /\ Len(<<x>>) = 1 /\ <<x>>[1] = x
    OBVIOUS
  <1> QED BY <1>1, SeqIsList

LEMMA ListConcat ==
  ASSUME NEW s, IsList(s), NEW t, IsList(t)
  PROVE  /\ IsList(s \o t) /\ Len(s \o t) = Len(s) + Len(t)
         /\ \A i \in 1..Len(s) : i \in 1..Len(s \o t) /\ (s \o t)[i] = s[i]
         /\ \A j \in 1..Len(t) : Len(s) + j \in 1..Len(s \o t) /\ (s \o t)[Len(s) + j] = t[j]
         /\ \A i \in 1..Len(s \o t) : \/ i \in 1..Len(s)
                                      \/ \E j \in 1..Len(t) : i = Len(s) + j
  <1> DEFINE X == ToSet(s) \cup ToSet(t)
             l == Len(s)
             n == Len(t)
             both == s \o t
  <1>1. s \in Seq(X) /\ t \in Seq(X)
    <2>1. s \in Seq(ToSet(s)) /\ t \in Seq(ToSet(t))
      BY ListIsSeq
    <2>2. s \in Seq(X)
      BY <2>1, SeqMonotonic
    <2>3. t \in Seq(X)
      BY <2>1, SeqMonotonic
    <2> QED BY <2>2, <2>3
  <1> HIDE DEF X
  <1>2. /\ both \in Seq(X) /\ Len(both) = l + n
        /\ \A i \in 1..(l + n) : both[i] = IF i <= l THEN s[i] ELSE t[i - l]
    BY <1>1, ConcatProperties
  <1>3. l \in Nat /\ n \in Nat
    BY DEF IsList
  <1> HIDE DEF l, n, both
  <1>4. \A i \in 1..l : i \in 1..(l + n) /\ i <= l
    BY <1>3
  <1>5. \A j \in 1..n : l + j \in 1..(l + n) /\ ~(l + j <= l) /\ (l + j) - l = j
    BY <1>3
  <1>6. \A i \in 1..(l + n) : i \in 1..l \/ (i - l \in 1..n /\ i = l + (i - l))
    BY <1>3
  <1>7. IsList(both)
    BY <1>2, SeqIsList
  <1> QED BY <1>2, <1>4, <1>5, <1>6, <1>7 DEF l, n, both

LEMMA ListAppend ==
  ASSUME NEW s, IsList(s), NEW x
  PROVE  /\ Append(s, x) = s \o <<x>>
         /\ IsList(Append(s, x)) /\ Len(Append(s, x)) = Len(s) + 1
         /\ \A i \in 1..Len(s) : Append(s, x)[i] = s[i]
         /\ Append(s, x)[Len(s) + 1] = x
  <1> DEFINE X == ToSet(s) \cup {x}
             more == Append(s, x)
  <1>1. s \in Seq(X) /\ x \in X
    <2>1. s \in Seq(ToSet(s))
      BY ListIsSeq
    <2> QED BY <2>1, SeqMonotonic
  <1> HIDE DEF X
  <1>2. /\ more \in Seq(X) /\ Len(more) = Len(s) + 1 /\ more = s \o <<x>>
        /\ \A i \in 1..Len(s) : more[i] = s[i]
        /\ more[Len(s) + 1] = x
    BY <1>1, AppendProperties, AppendIsConcat
  <1> HIDE DEF more
  <1> QED BY <1>2, SeqIsList DEF more
=============================================================================
