---------------------------- MODULE ListTheorems ----------------------------
(***************************************************************************)
(* Induction over the natural numbers for sets, and what it gives: for a   *)
(* walk along next pointers, the function that says which node is reached  *)
(* after k steps exists, and on a list it visits the nodes of the list;    *)
(* and the sums of the community modules over a finite set are sums.  Then *)
(* what is in a list that gets longer or shorter by one.                   *)
(***************************************************************************)
EXTENDS TLAPS, FiniteSetTheorems, FunctionTheorems, SequenceTheorems, Functions

(* A set with 0 in it that is closed under successor holds every natural     *)
(* number: otherwise k |-> k + 1 would map its finite part below the number  *)
(* that is missing into a smaller set.                                       *)
LEMMA SetInduction ==
  ASSUME NEW T, 0 \in T, \A n \in Nat : n \in T => n + 1 \in T, NEW m \in Nat
  PROVE  m \in T
<1>1. SUFFICES ASSUME m \notin T PROVE FALSE
  OBVIOUS
<1> DEFINE S == {n \in 0 .. m : n \in T}
<1> DEFINE f == [n \in S |-> n + 1]
<1>2. IsFiniteSet(S) /\ Cardinality(S) \in Nat
  <2>1. IsFiniteSet(0 .. m)
    BY FS_Interval
  <2> QED
    BY <2>1, FS_Subset, FS_CardinalityType
<1>3. IsFiniteSet(S \ {0}) /\ Cardinality(S \ {0}) = Cardinality(S) - 1
  <2>1. 0 \in S
    OBVIOUS
  <2> HIDE DEF S
  <2> QED
    BY <1>2, <2>1, FS_RemoveElement
<1>4. f \in Injection(S, S \ {0})
  <2>1. \A n \in S : n + 1 \in S \ {0}
    <3> TAKE n \in S
    <3>1. n # m /\ n \in 0 .. m /\ n + 1 \in T
      BY <1>1
    <3> QED
      BY <3>1
  <2>2. \A n, k \in S : f[n] = f[k] => n = k
    OBVIOUS
  <2> QED
    BY <2>1, <2>2 DEF Injection, IsInjective
<1> HIDE DEF S, f
<1>5. Cardinality(S) <= Cardinality(S \ {0})
  BY <1>3, <1>4, FS_Injection
<1> QED
  BY <1>2, <1>3, <1>5

(* A set of numbers that has a bound has a greatest member.                  *)
LEMMA Greatest ==
  ASSUME NEW n \in Nat, NEW T, T \subseteq 1 .. n, T # {}
  PROVE  \E m \in T : \A k \in T : k <= m
<1>1. SUFFICES ASSUME \A m \in T : \E k \in T : ~(k <= m) PROVE FALSE
  OBVIOUS
<1> DEFINE U == {j \in Nat : \E k \in T : j <= k}
<1>2. 0 \in U
  <2>1. PICK k \in T : k \in 1 .. n
    OBVIOUS
  <2> QED
    BY <2>1
<1>3. ASSUME NEW j \in Nat, j \in U PROVE j + 1 \in U
  <2>1. PICK k \in T : j <= k
    BY <1>3
  <2>2. PICK l \in T : ~(l <= k)
    BY <1>1
  <2>3. k \in 1 .. n /\ l \in 1 .. n
    OBVIOUS
  <2> QED
    BY <2>1, <2>2, <2>3
<1>4. n + 1 \notin U
  OBVIOUS
<1> HIDE DEF U
<1> QED
  BY <1>2, <1>3, <1>4, SetInduction

(* A function can be iterated.                                               *)
IteratedTo(n, g, S, start, step) ==
  /\ g \in [0 .. n -> S]
  /\ g[0] = start
  /\ \A k \in 0 .. n - 1 : g[k + 1] = step[g[k]]

(* Two iterations agree as far as both go.                                   *)
LEMMA IterationUnique ==
  ASSUME NEW S, NEW start \in S, NEW step \in [S -> S],
         NEW n \in Nat, NEW m \in Nat, NEW g, NEW h,
         IteratedTo(n, g, S, start, step), IteratedTo(m, h, S, start, step),
         NEW j \in Nat, j <= n, j <= m
  PROVE  g[j] = h[j]
<1> DEFINE T == {k \in Nat : k <= n /\ k <= m => g[k] = h[k]}
<1>1. 0 \in T
  BY DEF IteratedTo
<1>2. ASSUME NEW k \in Nat, k \in T PROVE k + 1 \in T
  <2>1. SUFFICES ASSUME k + 1 <= n, k + 1 <= m PROVE g[k + 1] = h[k + 1]
    OBVIOUS
  <2>2. k \in 0 .. n - 1 /\ k \in 0 .. m - 1 /\ g[k] = h[k]
    BY <1>2, <2>1
  <2> QED
    BY <2>2 DEF IteratedTo
<1> HIDE DEF T
<1>3. j \in T
  BY <1>1, <1>2, SetInduction
<1> QED
  BY <1>3 DEF T

Iterates(f, S, start, step) ==
  f \in [Nat -> S] /\ f[0] = start /\ \A k \in Nat : f[k + 1] = step[f[k]]

(* The steps of an iteration make up one function on the natural numbers.    *)
LEMMA IterationExists ==
  ASSUME NEW S, NEW start \in S, NEW step \in [S -> S]
  PROVE  \E f : Iterates(f, S, start, step)
<1> DEFINE T == {n \in Nat : \E g : IteratedTo(n, g, S, start, step)}
<1>1. 0 \in T
  <2> DEFINE g == [k \in 0 .. 0 |-> start]
  <2>1. IteratedTo(0, g, S, start, step)
    BY DEF IteratedTo
  <2> QED
    BY <2>1
<1>2. ASSUME NEW n \in Nat, n \in T PROVE n + 1 \in T
  <2>1. PICK g : IteratedTo(n, g, S, start, step)
    BY <1>2
  <2> DEFINE h == [k \in 0 .. n + 1 |-> IF k = n + 1 THEN step[g[n]] ELSE g[k]]
  <2>2. g \in [0 .. n -> S] /\ g[0] = start /\ g[n] \in S
        /\ \A k \in 0 .. n - 1 : g[k + 1] = step[g[k]]
    BY <2>1 DEF IteratedTo
  <2>3. h \in [0 .. n + 1 -> S]
    BY <2>2
  <2>4. h[0] = start
    BY <2>2
  <2>5. ASSUME NEW k \in 0 .. n PROVE h[k + 1] = step[h[k]]
    BY <2>2
  <2> HIDE DEF h
  <2>6. IteratedTo(n + 1, h, S, start, step)
    BY <2>3, <2>4, <2>5 DEF IteratedTo
  <2> QED
    BY <2>6
<1>3. ASSUME NEW n \in Nat PROVE \E g : IteratedTo(n, g, S, start, step)
  <2> HIDE DEF T
  <2>1. n \in T
    BY <1>1, <1>2, SetInduction
  <2> QED
    BY <2>1 DEF T
<1> DEFINE G(n) == CHOOSE g : IteratedTo(n, g, S, start, step)
<1> DEFINE f == [n \in Nat |-> G(n)[n]]
<1>4. \A n \in Nat : IteratedTo(n, G(n), S, start, step)
  BY <1>3
<1> HIDE DEF G
<1>5. f \in [Nat -> S]
  BY <1>4 DEF IteratedTo
<1>6. f[0] = start
  BY <1>4 DEF IteratedTo
<1>7. ASSUME NEW k \in Nat PROVE f[k + 1] = step[f[k]]
  <2>1. G(k + 1)[k + 1] = step[G(k + 1)[k]]
    BY <1>4 DEF IteratedTo
  <2>2. G(k + 1)[k] = G(k)[k]
    BY <1>4, IterationUnique
  <2> QED
    BY <2>1, <2>2
<1> HIDE DEF f
<1> QED
  BY <1>5, <1>6, <1>7 DEF Iterates

(* The recursive definition that follows link from start until nil ...       *)
IsWalk(a, nil, start, link) ==
  a = [k \in Nat |-> IF k = 0 THEN start ELSE IF a[k - 1] = nil THEN nil ELSE link[a[k - 1]]]

Follows(walk, nil, start, link) ==
  /\ walk[0] = start
  /\ \A k \in Nat : walk[k + 1] = IF walk[k] = nil THEN nil ELSE link[walk[k]]

(* ... defines a function that does so.                                      *)
LEMMA WalkDefined ==
  ASSUME NEW N, NEW nil, NEW start \in N \cup {nil}, NEW link, NEW walk,
         \A n \in N : link[n] \in N \cup {nil},
         walk = CHOOSE a : IsWalk(a, nil, start, link)
  PROVE  Follows(walk, nil, start, link)
<1> DEFINE S == N \cup {nil}
<1> DEFINE step == [n \in S |-> IF n = nil THEN nil ELSE link[n]]
<1>1. step \in [S -> S]
  OBVIOUS
<1>2. PICK f : Iterates(f, S, start, step)
  <2>1. start \in S
    OBVIOUS
  <2> HIDE DEF step, S
  <2> QED
    BY <1>1, <2>1, IterationExists
<1>0. f \in [Nat -> S] /\ f[0] = start /\ \A k \in Nat : f[k + 1] = step[f[k]]
  BY <1>2 DEF Iterates
<1>3. IsWalk(f, nil, start, link)
  <2> DEFINE h == [k \in Nat |->
               IF k = 0 THEN start ELSE IF f[k - 1] = nil THEN nil ELSE link[f[k - 1]]]
  <2>1. ASSUME NEW k \in Nat PROVE f[k] = h[k]
    <3>1. CASE k = 0
      BY <1>0, <3>1
    <3>2. CASE k # 0
      <4>1. k - 1 \in Nat /\ (k - 1) + 1 = k
        BY <3>2
      <4>2. f[k] = step[f[k - 1]] /\ f[k - 1] \in S
        BY <1>0, <4>1
      <4> QED
        BY <3>2, <4>2
    <3> QED
      BY <3>1, <3>2
  <2>2. h = [k \in Nat |-> h[k]] /\ f = [k \in Nat |-> f[k]]
    BY <1>0
  <2> QED
    BY <2>1, <2>2 DEF IsWalk
<1>4. IsWalk(walk, nil, start, link)
  BY <1>3
<1>5. \A k \in Nat : walk[k] =
        IF k = 0 THEN start ELSE IF walk[k - 1] = nil THEN nil ELSE link[walk[k - 1]]
  <2> DEFINE E(k) ==
        IF k = 0 THEN start ELSE IF walk[k - 1] = nil THEN nil ELSE link[walk[k - 1]]
  <2>1. walk = [k \in Nat |-> E(k)]
    BY <1>4 DEF IsWalk
  <2> HIDE DEF E
  <2>2. \A k \in Nat : walk[k] = E(k)
    BY <2>1
  <2> QED
    BY <2>2 DEF E
<1>6. ASSUME NEW k \in Nat
      PROVE  walk[k + 1] = IF walk[k] = nil THEN nil ELSE link[walk[k]]
  <2>1. k + 1 \in Nat /\ k + 1 # 0 /\ (k + 1) - 1 = k
    OBVIOUS
  <2> QED
    BY <1>5, <2>1
<1>7. walk[0] = start
  BY <1>5
<1> QED
  BY <1>6, <1>7 DEF Follows

(* s is the list that starts at start: no node twice, and nil after the last. *)
IsList(s, size, N, nil, start, link) ==
  /\ size \in Nat
  /\ s \in [1 .. size -> N]
  /\ \A j, k \in 1 .. size : s[j] = s[k] => j = k
  /\ start = IF size = 0 THEN nil ELSE s[1]
  /\ \A k \in 1 .. size : link[s[k]] = IF k = size THEN nil ELSE s[k + 1]

(* On a list the walk visits its nodes, one after the other, and then stays  *)
(* at nil.                                                                   *)
LEMMA WalkVisitsList ==
  ASSUME NEW N, NEW nil, nil \notin N, NEW start, NEW link, NEW walk,
         NEW size, NEW s, IsList(s, size, N, nil, start, link),
         Follows(walk, nil, start, link),
         NEW j \in Nat
  PROVE  walk[j] = IF j < size THEN s[j + 1] ELSE nil
<1> DEFINE T == {k \in Nat : walk[k] = IF k < size THEN s[k + 1] ELSE nil}
<1>0. size \in Nat
  BY DEF IsList, Follows
<1>1. 0 \in T
  BY <1>0 DEF IsList, Follows
<1>2. ASSUME NEW k \in Nat, k \in T PROVE k + 1 \in T
  <2>1. CASE k < size
    <3>1. k + 1 \in 1 .. size /\ walk[k] = s[k + 1] /\ s[k + 1] \in N
      BY <1>0, <1>2, <2>1 DEF IsList, Follows
    <3>2. walk[k + 1] = link[s[k + 1]]
      BY <3>1 DEF Follows
    <3>3. link[s[k + 1]] = IF k + 1 = size THEN nil ELSE s[(k + 1) + 1]
      BY <3>1 DEF IsList, Follows
    <3> QED
      BY <1>0, <3>1, <3>2, <3>3
  <2>2. CASE ~(k < size)
    BY <1>0, <1>2, <2>2 DEF Follows
  <2> QED
    BY <2>1, <2>2
<1> HIDE DEF T
<1>3. j \in T
  BY <1>1, <1>2, SetInduction
<1> QED
  BY <1>3 DEF T
-----------------------------------------------------------------------------
(* Which element of a set a fold takes first *)
Pick(s) == CHOOSE x \in s : TRUE

(* The recursive definition behind a sum of f over subsets of S.             *)
IsSum(g, f, S) ==
  g = [s \in SUBSET S |-> IF s = {} THEN 0 ELSE f[Pick(s)] + g[s \ {Pick(s)}]]

(* The sum of the community modules is what that definition defines.         *)
LEMMA SumIs ==
  ASSUME NEW f, NEW S
  PROVE  SumFunctionOnSet(f, S) = (CHOOSE g : IsSum(g, f, S))[S]
BY DEF SumFunctionOnSet, FoldFunctionOnSet, MapThenFoldSet, IsSum, Pick

(* A set without the element that Pick picks is smaller by one.              *)
LEMMA Smaller ==
  ASSUME NEW S, IsFiniteSet(S), NEW s \in SUBSET S, NEW x \in s
  PROVE  /\ s \ {x} \in SUBSET S
         /\ Cardinality(s) \in Nat \ {0} /\ Cardinality(s \ {x}) = Cardinality(s) - 1
<1>1. IsFiniteSet(s) /\ Cardinality(s) \in Nat /\ Cardinality(s \ {x}) \in Nat
  <2>1. IsFiniteSet(s) /\ IsFiniteSet(s \ {x})
    BY FS_Subset
  <2> QED
    BY <2>1, FS_CardinalityType
<1>2. Cardinality(s \ {x}) = Cardinality(s) - 1
  BY <1>1, FS_RemoveElement
<1> QED
  BY <1>1, <1>2

(* One is picked of a set that has any.                                      *)
LEMMA Picked ==
  ASSUME NEW s, s # {}
  PROVE  Pick(s) \in s
BY DEF Pick

(* There is a function that satisfies the definition: it is built up by the  *)
(* size of the subsets.                                                      *)
LEMMA SumExists ==
  ASSUME NEW f, NEW S, IsFiniteSet(S)
  PROVE  \E g : IsSum(g, f, S)
<1> DEFINE Body(g, s) == IF s = {} THEN 0 ELSE f[Pick(s)] + g[s \ {Pick(s)}]
<1> DEFINE UpTo(n, g) == /\ g = [s \in SUBSET S |-> g[s]]
                         /\ \A s \in SUBSET S : Cardinality(s) <= n => g[s] = Body(g, s)
<1> DEFINE T == {n \in Nat : \E g : UpTo(n, g)}
<1>1. 0 \in T
  <2> DEFINE g == [s \in SUBSET S |-> 0]
  <2>1. ASSUME NEW s \in SUBSET S, Cardinality(s) <= 0 PROVE g[s] = Body(g, s)
    <3>1. s = {}
      BY <2>1, FS_Subset, FS_CardinalityType, FS_EmptySet
    <3> QED
      BY <3>1
  <2>2. UpTo(0, g)
    BY <2>1
  <2> QED
    BY <2>2
<1>2. ASSUME NEW n \in Nat, n \in T PROVE n + 1 \in T
  <2>1. PICK g : UpTo(n, g)
    BY <1>2
  <2> DEFINE h == [s \in SUBSET S |-> IF Cardinality(s) <= n THEN g[s] ELSE Body(g, s)]
  <2>2. ASSUME NEW s \in SUBSET S, Cardinality(s) <= n + 1 PROVE h[s] = Body(h, s)
    <3>1. CASE s = {}
      <4>1. Cardinality(s) = 0
        BY <3>1, FS_EmptySet
      <4> QED
        BY <2>1, <3>1, <4>1
    <3>2. CASE s # {}
      <4>1. /\ s \ {Pick(s)} \in SUBSET S /\ Cardinality(s) \in Nat
            /\ Cardinality(s \ {Pick(s)}) = Cardinality(s) - 1
        BY <3>2, Picked, Smaller
      <4>2. h[s \ {Pick(s)}] = g[s \ {Pick(s)}]
        BY <4>1, <2>2
      <4>3. h[s] = Body(g, s)
        BY <2>1
      <4> QED
        BY <3>2, <4>2, <4>3
    <3> QED
      BY <3>1, <3>2
  <2>3. UpTo(n + 1, h)
    BY <2>2
  <2> HIDE DEF h, UpTo
  <2> QED
    BY <2>3
<1> HIDE DEF T
<1>3. Cardinality(S) \in T
  BY <1>1, <1>2, FS_CardinalityType, SetInduction
<1>4. PICK g : UpTo(Cardinality(S), g)
  BY <1>3 DEF T
<1>5. ASSUME NEW s \in SUBSET S PROVE g[s] = Body(g, s)
  <2>1. Cardinality(s) <= Cardinality(S)
    BY FS_Subset
  <2> QED
    BY <1>4, <2>1
<1>6. g = [s \in SUBSET S |-> Body(g, s)]
  <2>1. g = [s \in SUBSET S |-> g[s]]
    BY <1>4
  <2> HIDE DEF Body
  <2> QED
    BY <1>5, <2>1
<1> QED
  BY <1>6 DEF IsSum

(* It is the only one, as far as two of them can be compared.                *)
LEMMA SumUnique ==
  ASSUME NEW f, NEW S, IsFiniteSet(S), NEW R, IsFiniteSet(R), NEW g, NEW h,
         IsSum(g, f, S), IsSum(h, f, R), NEW s \in SUBSET (S \cap R)
  PROVE  g[s] = h[s]
<1> DEFINE T == {n \in Nat : \A u \in SUBSET (S \cap R) : Cardinality(u) = n => g[u] = h[u]}
<1>0. IsFiniteSet(S \cap R) /\ IsFiniteSet(s)
  BY FS_Subset
<1>1. 0 \in T
  <2>1. ASSUME NEW u \in SUBSET (S \cap R), Cardinality(u) = 0 PROVE g[u] = h[u]
    <3>1. u = {}
      BY <1>0, <2>1, Picked, Smaller
    <3> QED
      BY <3>1 DEF IsSum
  <2> QED
    BY <2>1
<1>2. ASSUME NEW n \in Nat, n \in T PROVE n + 1 \in T
  <2>1. ASSUME NEW u \in SUBSET (S \cap R), Cardinality(u) = n + 1 PROVE g[u] = h[u]
    <3>1. u # {}
      BY <2>1, FS_EmptySet
    <3>2. /\ u \ {Pick(u)} \in SUBSET (S \cap R)
          /\ Cardinality(u \ {Pick(u)}) = n
      BY <1>0, <2>1, <3>1, Picked, Smaller
    <3>3. g[u \ {Pick(u)}] = h[u \ {Pick(u)}]
      BY <1>2, <3>2
    <3>4. g[u] = f[Pick(u)] + g[u \ {Pick(u)}] /\ h[u] = f[Pick(u)] + h[u \ {Pick(u)}]
      BY <3>1 DEF IsSum
    <3> QED
      BY <3>3, <3>4
  <2> QED
    BY <2>1
<1> HIDE DEF T
<1>3. Cardinality(s) \in T
  BY <1>0, <1>1, <1>2, FS_CardinalityType, SetInduction
<1> QED
  BY <1>3 DEF T

(* So any of them gives the sums over all the subsets.                       *)
LEMMA SumAt ==
  ASSUME NEW f, NEW S, IsFiniteSet(S), NEW g, IsSum(g, f, S), NEW R \in SUBSET S
  PROVE  SumFunctionOnSet(f, R) = g[R]
<1>1. IsFiniteSet(R)
  BY FS_Subset
<1>2. PICK h : h = CHOOSE k : IsSum(k, f, R)
  OBVIOUS
<1>3. IsSum(h, f, R)
  BY <1>1, <1>2, SumExists
<1>4. SumFunctionOnSet(f, R) = h[R]
  BY <1>2, SumIs
<1>5. g[R] = h[R]
  <2>1. R \in SUBSET (S \cap R)
    OBVIOUS
  <2> QED
    BY <1>1, <1>3, <2>1, SumUnique
<1> QED
  BY <1>4, <1>5

(* The empty sum; and a sum taken apart at the element that is picked.       *)
LEMMA SumUnfolds ==
  ASSUME NEW f, NEW S, IsFiniteSet(S)
  PROVE  SumFunctionOnSet(f, S) =
           IF S = {} THEN 0 ELSE f[Pick(S)] + SumFunctionOnSet(f, S \ {Pick(S)})
<1>1. PICK g : IsSum(g, f, S)
  BY SumExists
<1>2. g[S] = IF S = {} THEN 0 ELSE f[Pick(S)] + g[S \ {Pick(S)}]
  BY <1>1 DEF IsSum
<1>3. /\ SumFunctionOnSet(f, S) = g[S]
      /\ SumFunctionOnSet(f, S \ {Pick(S)}) = g[S \ {Pick(S)}]
  BY <1>1, SumAt
<1> QED
  BY <1>2, <1>3

(* A sum of integers or of natural numbers is one.                           *)
LEMMA SumType ==
  ASSUME NEW D \in {Nat, Int}, NEW S, IsFiniteSet(S), NEW f, \A x \in S : f[x] \in D
  PROVE  SumFunctionOnSet(f, S) \in D
<1> DEFINE Sum(s) == SumFunctionOnSet(f, s)
<1> DEFINE T == {n \in Nat : \A s \in SUBSET S : Cardinality(s) = n => Sum(s) \in D}
<1>0. \A s \in SUBSET S : IsFiniteSet(s)
  BY FS_Subset
<1>1. 0 \in T
  <2>1. ASSUME NEW s \in SUBSET S, Cardinality(s) = 0 PROVE Sum(s) \in D
    <3>1. s = {}
      BY <2>1, Picked, Smaller
    <3>2. Sum(s) = 0
      BY <3>1, <1>0, SumUnfolds
    <3> QED
      BY <3>2
  <2> QED
    BY <2>1
<1>2. ASSUME NEW n \in Nat, n \in T PROVE n + 1 \in T
  <2>1. ASSUME NEW s \in SUBSET S, Cardinality(s) = n + 1 PROVE Sum(s) \in D
    <3>1. s # {}
      BY <2>1, FS_EmptySet
    <3> DEFINE p == Pick(s)
    <3>2. p \in s
      BY <3>1, Picked
    <3>3. Sum(s) = f[p] + Sum(s \ {p})
      BY <1>0, <3>1, SumUnfolds
    <3> HIDE DEF p
    <3>4. s \ {p} \in SUBSET S /\ Cardinality(s \ {p}) = n
      BY <2>1, <3>2, Smaller
    <3>5. Sum(s \ {p}) \in D /\ f[p] \in D
      BY <1>2, <3>2, <3>4
    <3> HIDE DEF Sum
    <3> QED
      BY <3>3, <3>5
  <2> QED
    BY <2>1
<1> HIDE DEF T
<1>3. Cardinality(S) \in T
  BY <1>1, <1>2, FS_CardinalityType, SetInduction
<1> QED
  BY <1>3 DEF T

(* Sums of integers: any element can be taken out first.                     *)
LEMMA SumRemoves ==
  ASSUME NEW S, IsFiniteSet(S), NEW f, \A x \in S : f[x] \in Int
  PROVE  \A x \in S : SumFunctionOnSet(f, S) = f[x] + SumFunctionOnSet(f, S \ {x})
<1> DEFINE Sum(s) == SumFunctionOnSet(f, s)
<1> DEFINE Good(s) == \A x \in s : Sum(s) = f[x] + Sum(s \ {x})
<1> DEFINE T == {n \in Nat : \A s \in SUBSET S : Cardinality(s) = n => Good(s)}
<1>0. \A s \in SUBSET S : IsFiniteSet(s)
  BY FS_Subset
<1>1. 0 \in T
  <2>1. ASSUME NEW s \in SUBSET S, Cardinality(s) = 0 PROVE Good(s)
    <3>1. s = {}
      BY <2>1, Picked, Smaller
    <3> QED
      BY <3>1
  <2> QED
    BY <2>1
<1>2. ASSUME NEW n \in Nat, n \in T PROVE n + 1 \in T
  <2>1. ASSUME NEW s \in SUBSET S, Cardinality(s) = n + 1 PROVE Good(s)
    <3>1. s # {}
      BY <2>1, FS_EmptySet
    <3> DEFINE p == Pick(s)
    <3>2. p \in s
      BY <3>1, Picked
    <3>3. Sum(s) = f[p] + Sum(s \ {p})
      BY <1>0, <3>1, SumUnfolds
    <3> HIDE DEF p
    <3>4. s \ {p} \in SUBSET S /\ Cardinality(s \ {p}) = n
      BY <2>1, <3>2, Smaller
    <3>5. Good(s \ {p})
      BY <1>2, <3>4
    <3>6. ASSUME NEW x \in s PROVE Sum(s) = f[x] + Sum(s \ {x})
      <4>1. CASE x = p
        BY <3>3, <4>1
      <4>2. CASE x # p
        <5>1. s \ {x} \in SUBSET S /\ Cardinality(s \ {x}) = n
          BY <2>1, Smaller
        <5>2. Good(s \ {x})
          BY <1>2, <5>1
        <5>3. x \in s \ {p} /\ p \in s \ {x} /\ (s \ {p}) \ {x} = (s \ {x}) \ {p}
          BY <3>2, <4>2
        <5>4. f[x] \in Int /\ f[p] \in Int
          BY <3>2
        <5> DEFINE r == (s \ {p}) \ {x}
        <5>5. Sum(s \ {p}) = f[x] + Sum(r) /\ Sum(s \ {x}) = f[p] + Sum(r)
          <6> HIDE DEF Sum
          <6> QED
            BY <3>5, <5>2, <5>3
        <5>6. Sum(r) \in Int
          BY <1>0, SumType
        <5> HIDE DEF Sum, r
        <5> QED
          BY <3>3, <5>4, <5>5, <5>6
      <4> QED
        BY <4>1, <4>2
    <3> QED
      BY <3>6
  <2> QED
    BY <2>1
<1> HIDE DEF T
<1>3. Cardinality(S) \in T
  BY <1>1, <1>2, FS_CardinalityType, SetInduction
<1> QED
  BY <1>3 DEF T

(* A term of a sum of natural numbers is no more than the sum.               *)
LEMMA SumMember ==
  ASSUME NEW S, IsFiniteSet(S), NEW f, \A x \in S : f[x] \in Nat, NEW x \in S
  PROVE  f[x] <= SumFunctionOnSet(f, S)
<1>1. IsFiniteSet(S \ {x}) /\ \A y \in S \ {x} : f[y] \in Nat
  BY FS_Subset
<1>2. SumFunctionOnSet(f, S \ {x}) \in Nat
  BY <1>1, SumType
<1>3. SumFunctionOnSet(f, S) = f[x] + SumFunctionOnSet(f, S \ {x})
  BY SumRemoves
<1> QED
  BY <1>2, <1>3

(* A sum depends on the terms in it.                                         *)
LEMMA SumAgrees ==
  ASSUME NEW S, NEW f, NEW h, \A x \in S : f[x] = h[x]
  PROVE  SumFunctionOnSet(f, S) = SumFunctionOnSet(h, S)
<1>1. ASSUME NEW g
      PROVE  [s \in SUBSET S |-> IF s = {} THEN 0 ELSE f[Pick(s)] + g[s \ {Pick(s)}]]
             = [s \in SUBSET S |-> IF s = {} THEN 0 ELSE h[Pick(s)] + g[s \ {Pick(s)}]]
  BY Picked
<1>2. \A g : IsSum(g, f, S) <=> IsSum(g, h, S)
  BY <1>1 DEF IsSum
<1>3. (CHOOSE g : IsSum(g, f, S)) = (CHOOSE g : IsSum(g, h, S))
  BY <1>2
<1> QED
  BY <1>3, SumIs

(* One term of a sum changes.                                                *)
LEMMA SumChanged ==
  ASSUME NEW S, IsFiniteSet(S), NEW f, NEW h, NEW x \in S,
         \A y \in S : f[y] \in Int /\ h[y] \in Int,
         \A y \in S \ {x} : f[y] = h[y]
  PROVE  SumFunctionOnSet(h, S) = (SumFunctionOnSet(f, S) - f[x]) + h[x]
<1>1. IsFiniteSet(S \ {x}) /\ \A y \in S \ {x} : f[y] \in Int
  BY FS_Subset
<1>2. SumFunctionOnSet(f, S \ {x}) \in Int
  BY <1>1, SumType
<1>3. SumFunctionOnSet(f, S \ {x}) = SumFunctionOnSet(h, S \ {x})
  BY SumAgrees
<1>4. /\ SumFunctionOnSet(f, S) = f[x] + SumFunctionOnSet(f, S \ {x})
      /\ SumFunctionOnSet(h, S) = h[x] + SumFunctionOnSet(h, S \ {x})
  BY SumRemoves
<1> QED
  BY <1>2, <1>3, <1>4

(* One term is added.                                                        *)
LEMMA SumAdded ==
  ASSUME NEW S, IsFiniteSet(S), NEW f, NEW x, x \notin S, \A y \in S \cup {x} : f[y] \in Int
  PROVE  SumFunctionOnSet(f, S \cup {x}) = f[x] + SumFunctionOnSet(f, S)
<1>1. IsFiniteSet(S \cup {x}) /\ (S \cup {x}) \ {x} = S
  BY FS_AddElement
<1>2. x \in S \cup {x}
  OBVIOUS
<1> QED
  BY <1>1, <1>2, SumRemoves
-----------------------------------------------------------------------------
(* No element is in the list twice. *)
Distinct(s) == \A i, j \in 1 .. Len(s) : s[i] = s[j] => i = j

(* The list without its k-th element *)
Without(s, k) == SubSeq(s, 1, k - 1) \o SubSeq(s, k + 1, Len(s))

(* What is in the list without its k-th element                              *)
LEMMA Shortened ==
  ASSUME NEW S, NEW s \in Seq(S), NEW k \in 1 .. Len(s),
         Distinct(s),
         NEW t, t = Without(s, k)
  PROVE  /\ t \in Seq(S)
         /\ Distinct(t)
         /\ Range(t) = Range(s) \ {s[k]}
<1>0. /\ \A r \in Seq(S) : DOMAIN r = 1 .. Len(r) /\ Len(r) \in Nat
      /\ k \in Nat /\ 1 <= k /\ k <= Len(s) /\ Len(s) \in Nat
  OBVIOUS
<1>1. /\ t \in Seq(S) /\ Len(t) = Len(s) - 1
      /\ \A i \in 1 .. Len(t) : t[i] = IF i < k THEN s[i] ELSE s[i + 1]
  <2> DEFINE a == SubSeq(s, 1, k - 1)
             b == SubSeq(s, k + 1, Len(s))
  <2>1. a \in Seq(S) /\ Len(a) = k - 1 /\ \A i \in 1 .. Len(a) : a[i] = s[i]
    OBVIOUS
  <2>2. b \in Seq(S) /\ Len(b) = Len(s) - k /\ \A i \in 1 .. Len(b) : b[i] = s[i + k]
    OBVIOUS
  <2>3. t = a \o b
    BY DEF Without
  <2> HIDE DEF a, b
  <2>4. /\ t \in Seq(S) /\ Len(t) = Len(a) + Len(b)
        /\ \A i \in 1 .. Len(a) + Len(b) : t[i] = IF i <= Len(a) THEN a[i] ELSE b[i - Len(a)]
    <3>1. /\ a \o b \in Seq(S) /\ Len(a \o b) = Len(a) + Len(b)
          /\ \A i \in 1 .. Len(a) + Len(b) :
               (a \o b)[i] = IF i <= Len(a) THEN a[i] ELSE b[i - Len(a)]
      <4>1. a \in Seq(S) /\ b \in Seq(S)
        BY <2>1, <2>2
      <4> QED
        BY <4>1, ConcatProperties
    <3> QED
      BY <2>3, <3>1, Zenon
  <2>5. Len(t) = Len(s) - 1
    BY <1>0, <2>1, <2>2, <2>4
  <2>6. ASSUME NEW i \in 1 .. Len(t) PROVE t[i] = IF i < k THEN s[i] ELSE s[i + 1]
    <3>0. i \in Nat /\ i \in 1 .. Len(a) + Len(b)
      BY <2>4, <2>5, <1>0
    <3>1. CASE i < k
      BY <1>0, <2>1, <2>4, <3>0, <3>1
    <3>2. CASE ~(i < k)
      <4>1. i - (k - 1) \in 1 .. Len(b) /\ (i - (k - 1)) + k = i + 1
        BY <1>0, <2>1, <2>2, <3>0, <3>2
      <4>2. t[i] = b[i - (k - 1)]
        BY <1>0, <2>1, <2>4, <3>0, <3>2
      <4> QED
        BY <2>2, <3>2, <4>1, <4>2
    <3> QED
      BY <3>1, <3>2
  <2> QED
    BY <2>4, <2>5, <2>6
<1>2. ASSUME NEW i \in 1 .. Len(t), NEW j \in 1 .. Len(t), t[i] = t[j] PROVE i = j
  <2>1. \A l \in 1 .. Len(t) :
          /\ l \in Nat /\ l \in 1 .. Len(s) /\ l + 1 \in 1 .. Len(s)
          /\ t[l] = IF l < k THEN s[l] ELSE s[l + 1]
    BY <1>0, <1>1
  <2>3. (IF i < k THEN i ELSE i + 1) = (IF j < k THEN j ELSE j + 1)
    BY <1>0, <1>2, <2>1 DEF Distinct
  <2> QED
    BY <2>1, <2>3
<1>3. ASSUME NEW x \in Range(t) PROVE x \in Range(s) \ {s[k]}
  <2>1. PICK i \in 1 .. Len(t) : x = t[i]
    BY <1>0, <1>1, <1>3 DEF Range
  <2>2. PICK j \in 1 .. Len(s) : x = s[j] /\ j # k
    <3>1. CASE i < k
      BY <1>1, <2>1, <3>1
    <3>2. CASE ~(i < k)
      <4>1. i + 1 \in 1 .. Len(s) /\ t[i] = s[i + 1] /\ i + 1 # k
        BY <1>0, <1>1, <3>2
      <4> QED
        BY <2>1, <4>1
    <3> QED
      BY <3>1, <3>2
  <2>3. s[j] # s[k]
    BY <1>0, <2>2 DEF Distinct
  <2> QED
    <3>1. DOMAIN s = 1 .. Len(s) /\ x # s[k]
      BY <1>0, <2>2, <2>3
    <3> QED
      BY <2>2, <3>1 DEF Range
<1>4. ASSUME NEW x \in Range(s), x # s[k] PROVE x \in Range(t)
  <2>1. PICK j \in 1 .. Len(s) : x = s[j] /\ j # k
    BY <1>0, <1>4 DEF Range
  <2>2. PICK i \in 1 .. Len(t) : x = t[i]
    <3>1. CASE j < k
      <4>1. j \in 1 .. Len(t) /\ t[j] = s[j]
        BY <1>0, <1>1, <3>1
      <4> QED
        BY <2>1, <4>1
    <3>2. CASE ~(j < k)
      <4>1. j - 1 \in 1 .. Len(t) /\ ~(j - 1 < k) /\ (j - 1) + 1 = j
        BY <1>0, <1>1, <2>1, <3>2
      <4> QED
        BY <1>0, <1>1, <2>1, <4>1
    <3> QED
      BY <3>1, <3>2
  <2> QED
    BY <1>0, <1>1, <2>2 DEF Range
<1> QED
  BY <1>1, <1>2, <1>3, <1>4 DEF Distinct

(* The list with one more element in front *)
Pushed(x, s) == <<x>> \o s

(* The elements of such a list *)
LEMMA Prefixed ==
  ASSUME NEW S, NEW s \in Seq(S), NEW x \in S, x \notin Range(s),
         Distinct(s),
         NEW t, t = Pushed(x, s)
  PROVE  /\ t \in Seq(S)
         /\ Distinct(t)
         /\ Range(t) = Range(s) \cup {x}
<1>0. \A r \in Seq(S) : DOMAIN r = 1 .. Len(r)
  OBVIOUS
<1>1. /\ t \in Seq(S) /\ Len(t) = Len(s) + 1
      /\ \A i \in 1 .. Len(t) : t[i] = IF i = 1 THEN x ELSE s[i - 1]
  BY DEF Pushed
<1>2. \A i \in 1 .. Len(s) : s[i] \in Range(s)
  BY DEF Range
<1>3. ASSUME NEW i \in 1 .. Len(t), NEW j \in 1 .. Len(t), t[i] = t[j] PROVE i = j
  <2>1. \A k \in 1 .. Len(t) : k # 1 => k - 1 \in 1 .. Len(s) /\ t[k] = s[k - 1] /\ t[k] # x
    BY <1>1, <1>2
  <2>2. \A k, l \in 1 .. Len(s) : s[k] = s[l] => k = l
    BY DEF Distinct
  <2>3. t[1] = x /\ i \in Nat /\ j \in Nat
    BY <1>1
  <2>4. CASE i = 1
    BY <1>3, <2>1, <2>3, <2>4
  <2>5. CASE j = 1
    BY <1>3, <2>1, <2>3, <2>5
  <2>6. CASE i # 1 /\ j # 1
    <3>1. i - 1 = j - 1
      BY <1>3, <2>1, <2>2, <2>6
    <3> QED
      BY <2>3, <3>1
  <2> QED
    BY <2>4, <2>5, <2>6
<1>4. ASSUME NEW y \in Range(t) PROVE y \in Range(s) \cup {x}
  <2>1. PICK i \in 1 .. Len(t) : y = t[i]
    BY <1>0, <1>1, <1>4 DEF Range
  <2> QED
    BY <1>1, <1>2, <2>1
<1>5. ASSUME NEW y \in Range(s) \cup {x} PROVE y \in Range(t)
  <2>1. CASE y = x
    <3>1. 1 \in 1 .. Len(t) /\ t[1] = x
      BY <1>1
    <3> QED
      BY <1>0, <1>1, <2>1, <3>1 DEF Range
  <2>2. CASE y \in Range(s)
    <3>1. PICK i \in 1 .. Len(s) : y = s[i]
      BY <2>2 DEF Range
    <3>2. i + 1 \in 1 .. Len(t) /\ t[i + 1] = y
      BY <1>1, <3>1
    <3> QED
      BY <1>0, <1>1, <3>2 DEF Range
  <2> QED
    BY <1>5, <2>1, <2>2
<1> QED
  BY <1>1, <1>3, <1>4, <1>5 DEF Distinct
=============================================================================
