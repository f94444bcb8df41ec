------------------------------ MODULE SumProofs ------------------------------
(***************************************************************************)
(* Sums over finite sets, as SumFunctionOnSet of the community modules     *)
(* folds them: what an element more adds, and that only the values at the  *)
(* elements count.  The fold chooses its elements one by one, so that the  *)
(* order does not matter has to be proved.                                 *)
(***************************************************************************)
EXTENDS Integers, Functions, FiniteSetTheorems, TLAPS

-----------------------------------------------------------------------------
(* Induction, with a set in the place of the predicate.                    *)

\* G holds a part of S as soon as it holds the smaller parts of that part.
Grows(S, G) ==
  \A X \in SUBSET S : (\A Y \in SUBSET X : Y # X => Y \in G) => X \in G

Covers(G, S) == \A X \in SUBSET S : X \in G

\* Whatever holds of a set as soon as it holds of every smaller one holds of all.
LEMMA SetsBySmaller ==
  ASSUME NEW S, NEW G, IsFiniteSet(S), Grows(S, G) PROVE Covers(G, S)
<1> DEFINE R == StrictSubsetOrdering(S)
           T == (SUBSET S) \ G
<1>1. IsWellFoundedOn(R, SUBSET S)
  BY FS_StrictSubsetOrderingWellFounded, FS_FiniteSubsetsOfFinite
<1>2. SUFFICES ASSUME T # {} PROVE FALSE
  BY DEF Covers
<1>3. PICK X \in T : \A Y \in T : <<Y, X>> \notin R
  <2>1. T \subseteq SUBSET S
    OBVIOUS
  <2> HIDE DEF T, R
  <2> QED BY <1>1, <1>2, <2>1, WFMin
<1>4. \A Y \in SUBSET X : Y # X => Y \in G
  BY <1>3 DEF StrictSubsetOrdering
<1> QED BY <1>3, <1>4 DEF Grows

\* The intervals of 0 .. N that G may miss nothing at the end of.
EndingIn(N, G) == {X \in SUBSET (0 .. N) : \A n \in 0 .. N : X = 0 .. n => n \in G}

LEMMA Stepwise ==
  ASSUME NEW N \in Nat, NEW G, 0 \in G, \A n \in 0 .. N - 1 : n \in G => n + 1 \in G,
         NEW X \in SUBSET (0 .. N),
         \A Y \in SUBSET X : Y # X => Y \in EndingIn(N, G)
  PROVE  X \in EndingIn(N, G)
<1> SUFFICES ASSUME NEW n \in 0 .. N, X = 0 .. n PROVE n \in G
  BY DEF EndingIn
<1>1. CASE n = 0
  BY <1>1
<1>2. CASE n # 0
  <2>1. n - 1 \in 0 .. N - 1 /\ n - 1 \in 0 .. N /\ (n - 1) + 1 = n
    BY <1>2
  <2>2. 0 .. n - 1 \in SUBSET X /\ 0 .. n - 1 # X
    BY <1>2
  <2>3. n - 1 \in G
    BY <2>1, <2>2 DEF EndingIn
  <2> QED BY <2>1, <2>3
<1> QED BY <1>1, <1>2

LEMMA NumbersByOne ==
  ASSUME NEW N \in Nat, NEW G, 0 \in G, \A n \in 0 .. N - 1 : n \in G => n + 1 \in G
  PROVE  0 .. N \subseteq G
<1>1. Grows(0 .. N, EndingIn(N, G))
  BY Stepwise DEF Grows
<1>2. IsFiniteSet(0 .. N)
  BY FS_Interval
<1>3. Covers(EndingIn(N, G), 0 .. N)
  BY <1>1, <1>2, SetsBySmaller, Zenon
<1> SUFFICES ASSUME NEW k \in 0 .. N PROVE k \in G
  OBVIOUS
<1>4. 0 .. k \in SUBSET (0 .. N)
  OBVIOUS
<1> QED BY <1>3, <1>4 DEF EndingIn, Covers

-----------------------------------------------------------------------------
Next1(s) == CHOOSE x \in s : TRUE

\* What the fold of f makes of the sum of g over s.
FoldStep(g, f, s) == IF s = {} THEN 0 ELSE g[Next1(s)] + f[s \ {Next1(s)}]

LEMMA Unfolded ==
  ASSUME NEW g, NEW S
  PROVE  SumFunctionOnSet(g, S) =
           (CHOOSE f : f = [s \in SUBSET S |-> FoldStep(g, f, s)])[S]
  BY DEF SumFunctionOnSet, FoldFunctionOnSet, MapThenFoldSet, FoldStep, Next1

LEMMA Next1In == ASSUME NEW s, s # {} PROVE Next1(s) \in s
  BY DEF Next1

LEMMA Parts ==
  ASSUME NEW S, IsFiniteSet(S), NEW s \in SUBSET S
  PROVE  /\ IsFiniteSet(s) /\ Cardinality(s) \in 0 .. Cardinality(S)
         /\ s # {} => /\ Cardinality(s) > 0
                      /\ Cardinality(s \ {Next1(s)}) = Cardinality(s) - 1
<1>1. IsFiniteSet(s) /\ Cardinality(s) <= Cardinality(S)
  BY FS_Subset
<1>2. Cardinality(s) \in Nat /\ Cardinality(S) \in Nat
  BY <1>1, FS_CardinalityType
<1>3. s # {} => Cardinality(s) # 0
  BY <1>1, FS_EmptySet
<1>4. s # {} => Cardinality(s \ {Next1(s)}) = Cardinality(s) - 1
  BY <1>1, FS_RemoveElement, Next1In
<1> QED BY <1>1, <1>2, <1>3, <1>4

IsSum(g, S, f) == /\ f \in [SUBSET S -> Int]
                  /\ \A s \in SUBSET S : f[s] = FoldStep(g, f, s)

SolvedTo(g, S, f, n) ==
  \A s \in SUBSET S : Cardinality(s) <= n => f[s] = FoldStep(g, f, s)

\* The equation has a solution on the sets of up to n elements, for every n.
LEMMA Solvable ==
  ASSUME NEW D, NEW g \in [D -> Int], NEW S \in SUBSET D, IsFiniteSet(S)
  PROVE  \E f : IsSum(g, S, f)
<1> PICK N : N = Cardinality(S)
  OBVIOUS
<1>1. N \in Nat
  BY FS_CardinalityType
<1> DEFINE G == {n \in 0 .. N : \E f \in [SUBSET S -> Int] : SolvedTo(g, S, f, n)}
<1>3. 0 \in G
  <2> PICK f : f = [s \in SUBSET S |-> 0]
    OBVIOUS
  <2>1. f \in [SUBSET S -> Int]
    OBVIOUS
  <2>2. ASSUME NEW s \in SUBSET S, Cardinality(s) <= 0
        PROVE  f[s] = FoldStep(g, f, s)
    <3>1. s = {}
      <4>1. /\ Cardinality(s) \in 0 .. Cardinality(S)
            /\ s # {} => Cardinality(s) > 0
        BY Parts
      <4> QED BY <2>2, <4>1
    <3>2. FoldStep(g, f, s) = 0
      BY <3>1, Zenon DEF FoldStep
    <3> QED BY <3>2
  <2>3. SolvedTo(g, S, f, 0)
    BY <2>2 DEF SolvedTo
  <2> QED BY <1>1, <2>1, <2>3
<1>4. ASSUME NEW n \in 0 .. N - 1, n \in G PROVE n + 1 \in G
  <2> PICK f \in [SUBSET S -> Int] : SolvedTo(g, S, f, n)
    BY <1>4
  <2> PICK h : h = [s \in SUBSET S |-> IF Cardinality(s) <= n THEN f[s]
                                       ELSE FoldStep(g, f, s)]
    OBVIOUS
  <2>1. ASSUME NEW s \in SUBSET S PROVE FoldStep(g, f, s) \in Int
    <3>1. CASE s = {}
      BY <3>1 DEF FoldStep
    <3>2. CASE s # {}
      <4>1. Next1(s) \in s /\ s \ {Next1(s)} \in SUBSET S
        BY <3>2, Next1In
      <4>2. g[Next1(s)] \in Int /\ f[s \ {Next1(s)}] \in Int
        BY <4>1
      <4>3. FoldStep(g, f, s) = g[Next1(s)] + f[s \ {Next1(s)}]
        BY <3>2, Zenon DEF FoldStep
      <4> QED BY <4>2, <4>3
    <3> QED BY <3>1, <3>2
  <2>2. h \in [SUBSET S -> Int]
    BY <2>1
  <2>3. ASSUME NEW s \in SUBSET S, Cardinality(s) <= n + 1
        PROVE  h[s] = FoldStep(g, h, s)
    <3>1. h[s] = FoldStep(g, f, s)
      BY DEF SolvedTo
    <3>2. CASE s = {}
      BY <3>1, <3>2 DEF FoldStep
    <3>3. CASE s # {}
      <4>1. /\ Cardinality(s) \in 0 .. Cardinality(S) /\ Cardinality(S) \in Nat
            /\ Cardinality(s \ {Next1(s)}) = Cardinality(s) - 1
        BY <3>3, Parts, FS_CardinalityType
      <4>2. Cardinality(s \ {Next1(s)}) <= n
        BY <2>3, <4>1
      <4>3. h[s \ {Next1(s)}] = f[s \ {Next1(s)}]
        BY <4>2
      <4> QED BY <3>1, <3>3, <4>3 DEF FoldStep
    <3> QED BY <3>2, <3>3
  <2>4. SolvedTo(g, S, h, n + 1)
    BY <2>3 DEF SolvedTo
  <2>5. n + 1 \in 0 .. N
    BY <1>1
  <2> QED BY <2>2, <2>4, <2>5
<1>5. N \in G
  <2> PICK H : H = G
    OBVIOUS
  <2>1. 0 .. N \subseteq H
    <3>1. 0 \in H /\ \A n \in 0 .. N - 1 : n \in H => n + 1 \in H
      BY <1>3, <1>4
    <3> HIDE DEF G
    <3> QED BY <3>1, <1>1, NumbersByOne
  <2>2. N \in 0 .. N
    BY <1>1
  <2>3. N \in H
    BY <2>1, <2>2, Zenon
  <2> HIDE DEF G
  <2> QED BY <2>3
<1> PICK f \in [SUBSET S -> Int] : SolvedTo(g, S, f, N)
  BY <1>5
<1>6. ASSUME NEW s \in SUBSET S PROVE f[s] = FoldStep(g, f, s)
  <2>1. Cardinality(s) \in 0 .. N
    BY Parts
  <2> QED BY <1>1, <2>1 DEF SolvedTo
<1> QED BY <1>6 DEF IsSum

\* So the sum is what the equation says of it, on every part of a finite set.
LEMMA SumEquation ==
  ASSUME NEW D, NEW g \in [D -> Int], NEW S \in SUBSET D, IsFiniteSet(S)
  PROVE  \E f : IsSum(g, S, f) /\ SumFunctionOnSet(g, S) = f[S]
<1>0. PICK f0 : IsSum(g, S, f0)
  BY Solvable, Zenon
<1> DEFINE Eq(f) == f = [s \in SUBSET S |-> FoldStep(g, f, s)]
           iter == CHOOSE f : Eq(f)
<1>1. SumFunctionOnSet(g, S) = iter[S]
  BY Unfolded
<1>2. \E f : Eq(f)
  <2>1. Eq(f0)
    BY <1>0 DEF IsSum
  <2> QED BY <2>1
<1>3. Eq(iter)
  <2> HIDE DEF Eq
  <2> QED BY <1>2
<1> PICK f : f = iter
  OBVIOUS
<1>4. \A s \in SUBSET S : f[s] = FoldStep(g, f, s)
  BY <1>3
<1>5. f = [s \in SUBSET S |-> f[s]]
  BY <1>3
<1>6. \A s \in SUBSET S : f[s] \in Int
  <2> DEFINE G == {s \in SUBSET S : f[s] \in Int}
  <2>1. Grows(S, G)
    <3> SUFFICES ASSUME NEW X \in SUBSET S, \A Y \in SUBSET X : Y # X => Y \in G
                 PROVE  f[X] \in Int
      BY DEF Grows
    <3>1. CASE X = {}
      <4>1. f[X] = FoldStep(g, f, X)
        BY <1>4
      <4>2. FoldStep(g, f, X) = 0
        BY <3>1, Zenon DEF FoldStep
      <4> QED BY <4>1, <4>2
    <3>2. CASE X # {}
      <4>1. Next1(X) \in X
        BY <3>2, Next1In
      <4>2. f[X \ {Next1(X)}] \in Int
        BY <4>1
      <4>3. g[Next1(X)] \in Int
        BY <4>1
      <4>4. f[X] = FoldStep(g, f, X)
        BY <1>4
      <4>5. FoldStep(g, f, X) = g[Next1(X)] + f[X \ {Next1(X)}]
        BY <3>2, Zenon DEF FoldStep
      <4> QED BY <4>2, <4>3, <4>4, <4>5
    <3> QED BY <3>1, <3>2
  <2> HIDE DEF G
  <2>2. Covers(G, S)
    BY <2>1, SetsBySmaller, Zenon
  <2> QED BY <2>2 DEF G, Covers
<1>7. f \in [SUBSET S -> Int]
  BY <1>5, <1>6
<1> QED BY <1>1, <1>4, <1>7 DEF IsSum

-----------------------------------------------------------------------------
(* What the other proofs use.                                              *)

\* Equal values give equal sums, whatever set the sum is a part of.
LEMMA SumsAgree ==
  ASSUME NEW S, NEW T, S \subseteq T, IsFiniteSet(S), NEW g, NEW h,
         \A x \in S : g[x] = h[x],
         NEW f, NEW k, IsSum(g, S, f), IsSum(h, T, k)
  PROVE  f[S] = k[S]
<1> PICK G : G = {s \in SUBSET S : f[s] = k[s]}
  OBVIOUS
<1>1. Grows(S, G)
  <2> SUFFICES ASSUME NEW X \in SUBSET S, \A Y \in SUBSET X : Y # X => Y \in G
               PROVE  f[X] = k[X]
    BY DEF Grows
  <2>1. f[X] = FoldStep(g, f, X) /\ k[X] = FoldStep(h, k, X)
    BY DEF IsSum
  <2>2. CASE X = {}
    BY <2>1, <2>2, Zenon DEF FoldStep
  <2>3. CASE X # {}
    <3>1. Next1(X) \in X
      BY <2>3, Next1In
    <3>2. g[Next1(X)] = h[Next1(X)] /\ f[X \ {Next1(X)}] = k[X \ {Next1(X)}]
      BY <3>1
    <3> QED BY <2>1, <2>3, <3>2, Zenon DEF FoldStep
  <2> QED BY <2>2, <2>3
<1>2. Covers(G, S)
  BY <1>1, SetsBySmaller, Zenon
<1> QED BY <1>2 DEF Covers

LEMMA SumType ==
  ASSUME NEW D, NEW g \in [D -> Int], NEW S \in SUBSET D, IsFiniteSet(S)
  PROVE  SumFunctionOnSet(g, S) \in Int
<1> PICK f : IsSum(g, S, f) /\ SumFunctionOnSet(g, S) = f[S]
  BY SumEquation, Zenon
<1> QED BY DEF IsSum

LEMMA SumEmpty ==
  ASSUME NEW D, NEW g \in [D -> Int]
  PROVE  SumFunctionOnSet(g, {}) = 0
<1>1. IsFiniteSet({}) /\ {} \in SUBSET D
  BY FS_EmptySet
<1> PICK f : IsSum(g, {}, f) /\ SumFunctionOnSet(g, {}) = f[{}]
  BY <1>1, SumEquation, Zenon
<1>2. f[{}] = FoldStep(g, f, {})
  BY DEF IsSum
<1>3. FoldStep(g, f, {}) = 0
  BY Zenon DEF FoldStep
<1> QED BY <1>2, <1>3

LEMMA SumSame ==
  ASSUME NEW D, NEW E, NEW g \in [D -> Int], NEW h \in [E -> Int],
         NEW S \in SUBSET D, S \in SUBSET E, IsFiniteSet(S), \A x \in S : g[x] = h[x]
  PROVE  SumFunctionOnSet(g, S) = SumFunctionOnSet(h, S)
<1>1. PICK f : IsSum(g, S, f) /\ SumFunctionOnSet(g, S) = f[S]
  BY SumEquation, Zenon
<1>2. PICK k : IsSum(h, S, k) /\ SumFunctionOnSet(h, S) = k[S]
  BY SumEquation, Zenon
<1>3. f[S] = k[S]
  BY <1>1, <1>2, SumsAgree
<1> QED BY <1>1, <1>2, <1>3

\* Whichever element is taken out, the sum is the same.
LEMMA TakeAny ==
  ASSUME NEW D, NEW g \in [D -> Int], NEW S \in SUBSET D, IsFiniteSet(S),
         NEW f, IsSum(g, S, f), NEW x \in S
  PROVE  f[S] = f[S \ {x}] + g[x]
<1> PICK G : G = {s \in SUBSET S : \A y \in s : f[s] = f[s \ {y}] + g[y]}
  OBVIOUS
<1>1. Grows(S, G)
  <2> SUFFICES ASSUME NEW X \in SUBSET S, \A Y \in SUBSET X : Y # X => Y \in G,
                      NEW z \in X
               PROVE  f[X] = f[X \ {z}] + g[z]
    BY DEF Grows
  <2> PICK y : y = Next1(X)
    OBVIOUS
  <2>1. y \in X
    BY Next1In
  <2>2. f[X] = FoldStep(g, f, X) /\ f \in [SUBSET S -> Int]
    BY DEF IsSum
  <2>3. f[X] = g[y] + f[X \ {y}]
    BY <2>1, <2>2, Zenon DEF FoldStep
  <2>4. g[y] \in Int /\ g[z] \in Int
    BY <2>1
  <2>5. f[X \ {y}] \in Int /\ f[X \ {z}] \in Int
    BY <2>2
  <2>6. CASE z = y
    BY <2>3, <2>4, <2>5, <2>6
  <2>7. CASE z # y
    <3> PICK A : A = X \ {y}
      OBVIOUS
    <3> PICK B : B = X \ {z}
      OBVIOUS
    <3>1. A \in G /\ B \in G /\ z \in A /\ y \in B
      BY <2>1, <2>7
    <3>2. f[A] = f[A \ {z}] + g[z] /\ f[B] = f[B \ {y}] + g[y]
      BY <3>1
    <3>3. A \ {z} = B \ {y}
      OBVIOUS
    <3>4. f[A \ {z}] \in Int
      BY <2>2
    <3>5. f[X] = g[y] + f[A] /\ f[A] = f[A \ {z}] + g[z] /\ f[B] = f[A \ {z}] + g[y]
      BY <2>3, <3>2, <3>3, Zenon
    <3>6. f[X] = f[B] + g[z]
      <4> PICK p : p = f[A \ {z}]
        OBVIOUS
      <4>1. p \in Int /\ g[y] \in Int /\ g[z] \in Int
        BY <2>4, <3>4, Zenon
      <4>2. f[X] = g[y] + (p + g[z]) /\ f[B] = p + g[y]
        BY <3>5, Zenon
      <4>3. g[y] + (p + g[z]) = (p + g[y]) + g[z]
        BY <4>1
      <4> QED BY <4>2, <4>3, Zenon
    <3> QED BY <3>6, Zenon
  <2> QED BY <2>6, <2>7
<1>2. Covers(G, S)
  BY <1>1, SetsBySmaller, Zenon
<1> QED BY <1>2 DEF Covers

\* An element more adds its value.
LEMMA SumAdd ==
  ASSUME NEW D, NEW g \in [D -> Int], NEW S \in SUBSET D, IsFiniteSet(S),
         NEW x \in D, x \notin S
  PROVE  SumFunctionOnSet(g, S \cup {x}) = SumFunctionOnSet(g, S) + g[x]
<1> PICK T : T = S \cup {x}
  OBVIOUS
<1>1. T \in SUBSET D /\ IsFiniteSet(T) /\ x \in T /\ T \ {x} = S /\ S \subseteq T
  BY FS_AddElement
<1>2. PICK f : IsSum(g, T, f) /\ SumFunctionOnSet(g, T) = f[T]
  BY <1>1, SumEquation, Zenon
<1>3. PICK k : IsSum(g, S, k) /\ SumFunctionOnSet(g, S) = k[S]
  BY SumEquation, Zenon
<1>4. f[T] = f[S] + g[x]
  BY <1>1, <1>2, TakeAny
<1>5. k[S] = f[S]
  BY <1>1, <1>2, <1>3, SumsAgree
<1> QED BY <1>2, <1>3, <1>4, <1>5

\* A value that changes at one element changes the sum by the difference.
LEMMA SumChange ==
  ASSUME NEW D, NEW g \in [D -> Int], NEW h \in [D -> Int], NEW S \in SUBSET D,
         IsFiniteSet(S), NEW x \in S, \A y \in S \ {x} : g[y] = h[y]
  PROVE  SumFunctionOnSet(h, S) = SumFunctionOnSet(g, S) + (h[x] - g[x])
<1> PICK R : R = S \ {x}
  OBVIOUS
<1>1. R \in SUBSET D /\ IsFiniteSet(R) /\ x \in D /\ x \notin R /\ R \cup {x} = S
  BY FS_RemoveElement
<1>2. SumFunctionOnSet(g, S) = SumFunctionOnSet(g, R) + g[x]
  BY <1>1, SumAdd
<1>3. SumFunctionOnSet(h, S) = SumFunctionOnSet(h, R) + h[x]
  BY <1>1, SumAdd
<1>4. SumFunctionOnSet(g, R) = SumFunctionOnSet(h, R)
  BY <1>1, SumSame
<1>5. SumFunctionOnSet(g, R) \in Int /\ g[x] \in Int /\ h[x] \in Int
  BY <1>1, SumType
<1> QED BY <1>2, <1>3, <1>4, <1>5
=============================================================================
