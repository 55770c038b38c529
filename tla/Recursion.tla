----------------------------- MODULE Recursion -----------------------------
(***************************************************************************)
(* Facts about numbers, recursive functions and folds that the proofs of   *)
(* the loops rest on: induction over numbers as a fact about sets, when a  *)
(* recursive definition defines a function, and the rounds of a fold over  *)
(* a sequence.  Operators are given as functions, G and g below.           *)
(***************************************************************************)
EXTENDS Integers, Sequences, SequencesExt, FiniteSetsExt, SequenceTheorems, WellFoundedInduction, TLAPS

\* A set of numbers that is not empty has a smallest one.
LEMMA MinIn ==
    ASSUME NEW S, S \subseteq Nat, S # {}
    PROVE  Min(S) \in S /\ \A x \in S : Min(S) <= x
<1> DEFINE R == OpToRel(<, Nat)
<1>1. IsWellFoundedOn(R, Nat)
    BY NatLessThanWellFounded
<1>2. \A x, y \in Nat : ~(<<y, x>> \in R) => x <= y
    BY DEF OpToRel
<1> HIDE DEF R
<1>3. \E x \in S : \A y \in S : ~(<<y, x>> \in R)
    BY <1>1, WFMin
<1>4. \E x \in S : \A y \in S : x <= y
    BY <1>2, <1>3
<1> QED BY <1>4 DEF Min

\* Min and Max of a set of numbers are the elements they should be.
LEMMA MinIs ==
    ASSUME NEW S, S \subseteq Int, NEW m \in S, \A x \in S : m <= x
    PROVE  Min(S) = m
<1>1. \A x \in S : (\A y \in S : x <= y) => x = m
    OBVIOUS
<1> QED BY <1>1 DEF Min

LEMMA MaxIs ==
    ASSUME NEW S, S \subseteq Int, NEW m \in S, \A x \in S : x <= m
    PROVE  Max(S) = m
<1>1. \A x \in S : (\A y \in S : x >= y) => x = m
    OBVIOUS
<1>2. \A y \in S : m >= y
    OBVIOUS
<1> QED BY <1>1, <1>2 DEF Max

\* Induction over the numbers: a set with 0 and, with n, n + 1 has them all.
LEMMA Induction ==
    ASSUME NEW S, S \subseteq Nat, 0 \in S, \A n \in S : n + 1 \in S
    PROVE  S = Nat
<1> SUFFICES ASSUME S # Nat PROVE FALSE
    OBVIOUS
<1>1. PICK x \in Nat \ S : \A y \in Nat \ S : x <= y
    BY MinIn, Nat \ S # {}
<1>2. x - 1 \in S
    BY <1>1
<1> QED BY <1>1, <1>2

\* The same up to N.
LEMMA BoundedInduction ==
    ASSUME NEW N \in Nat, NEW S, 0 \in S, \A n \in 0 .. N - 1 : n \in S => n + 1 \in S
    PROVE  0 .. N \subseteq S
<1> DEFINE T == {n \in Nat : n <= N => n \in S}
<1>1. T \subseteq Nat /\ 0 \in T /\ \A n \in T : n + 1 \in T
    OBVIOUS
<1>2. T = Nat
    BY <1>1, Induction
<1> QED BY <1>2

\* The same from N down.
LEMMA DownwardInduction ==
    ASSUME NEW N \in Nat, NEW S, N \in S, \A n \in 0 .. N - 1 :
               (\A m \in n + 1 .. N : m \in S) => n \in S
    PROVE  0 .. N \subseteq S
<1> DEFINE T == {n \in 0 .. N : \A m \in N - n .. N : m \in S}
<1>1. 0 \in T
    OBVIOUS
<1>2. ASSUME NEW n \in 0 .. N - 1, n \in T PROVE n + 1 \in T
    <2>1. N - (n + 1) \in 0 .. N - 1
        OBVIOUS
    <2>2. \A m \in (N - (n + 1)) + 1 .. N : m \in S
        BY <1>2
    <2>3. N - (n + 1) \in S
        BY <2>1, <2>2
    <2> QED BY <2>2, <2>3
<1>3. 0 .. N \subseteq T
    BY <1>1, <1>2, BoundedInduction
<1>4. N \in T
    BY <1>3
<1> QED BY <1>4

\* A recursive definition f[x] == G[f][x] in which the value at x depends
\* only on values of smaller rank has a solution.
IsRecursion(G, D, V, rank, N) ==
    /\ rank \in [D -> 0 .. N]
    /\ G \in [[D -> V] -> [D -> V]]
    /\ \A x \in D : \A h1, h2 \in [D -> V] :
          (\A y \in D : rank[y] < rank[x] => h1[y] = h2[y]) => G[h1][x] = G[h2][x]

LEMMA RecursiveFunction ==
    ASSUME NEW D, NEW V, V # {}, NEW N \in Nat, NEW rank, NEW G,
           IsRecursion(G, D, V, rank, N)
    PROVE  \E f \in [D -> V] : f = G[f]
<1> USE DEF IsRecursion
<1> PICK v \in V : TRUE
    OBVIOUS
<1> DEFINE P(r, f) == \A x \in D : rank[x] < r => f[x] = G[f][x]
           S == {r \in Nat : \E f \in [D -> V] : P(r, f)}
<1>1. 0 \in S
  <2>1. [x \in D |-> v] \in [D -> V] /\ P(0, [x \in D |-> v])
      OBVIOUS
  <2> HIDE DEF P
  <2> QED BY <2>1
<1>2. ASSUME NEW r \in S PROVE r + 1 \in S
  <2>1. PICK f \in [D -> V] : P(r, f)
      BY <1>2
  <2>2. G[f] \in [D -> V]
      OBVIOUS
  <2>3. ASSUME NEW x \in D, rank[x] < r + 1 PROVE G[f][x] = G[G[f]][x]
    <3>1. r \in Nat /\ rank[x] \in Nat /\ \A y \in D : rank[y] \in Nat
        OBVIOUS
    <3>2. \A y \in D : rank[y] < rank[x] => f[y] = G[f][y]
        BY <2>1, <2>3, <3>1
    <3> QED BY <2>2, <3>2
  <2>4. P(r + 1, G[f])
      BY <2>3
  <2> HIDE DEF P
  <2> QED BY <2>2, <2>4
<1>3. S = Nat
  <2>1. S \subseteq Nat
      OBVIOUS
  <2> HIDE DEF S
  <2> QED BY <1>1, <1>2, <2>1, Induction
<1> HIDE DEF P
<1>4. PICK f \in [D -> V] : P(N + 1, f)
  <2>1. N + 1 \in S
    <3> HIDE DEF S
    <3> QED BY <1>3
  <2> QED BY <2>1
<1>5. \A x \in D : f[x] = G[f][x]
  <2>1. \A x \in D : rank[x] < N + 1
      OBVIOUS
  <2> QED BY <1>4, <2>1 DEF P
<1>6. G[f] \in [D -> V]
    OBVIOUS
<1> QED BY <1>5, <1>6

\* A loop with a counter: the value after i rounds depends on the one after
\* i - 1.
IsLoop(f, base, g, N) ==
    f = [i \in 0 .. N |-> IF i = 0 THEN base ELSE g[<<i, f[i - 1]>>]]

LEMMA LoopSolution ==
    ASSUME NEW V, NEW base \in V, NEW N \in Nat, NEW g \in [(1 .. N) \X V -> V]
    PROVE  \E f \in [0 .. N -> V] : IsLoop(f, base, g, N)
<1> DEFINE D == 0 .. N
           rank == [i \in D |-> i]
           Body(h) == [i \in D |-> IF i = 0 THEN base ELSE g[<<i, h[i - 1]>>]]
           G == [h \in [D -> V] |-> Body(h)]
<1>1. \A i \in D : i # 0 => i \in 1 .. N /\ i - 1 \in D
    OBVIOUS
<1>2. rank \in [D -> 0 .. N]
    OBVIOUS
<1>3. ASSUME NEW h \in [D -> V] PROVE Body(h) \in [D -> V]
  <2> SUFFICES ASSUME NEW i \in D, i # 0 PROVE g[<<i, h[i - 1]>>] \in V
      OBVIOUS
  <2>1. i \in 1 .. N /\ h[i - 1] \in V
      BY <1>1
  <2> QED BY <2>1
<1>4. ASSUME NEW i \in D, NEW h1 \in [D -> V], NEW h2 \in [D -> V],
             \A m \in D : rank[m] < rank[i] => h1[m] = h2[m]
      PROVE  G[h1][i] = G[h2][i]
  <2>1. i # 0 => h1[i - 1] = h2[i - 1]
      BY <1>1, <1>4
  <2> QED BY <2>1
<1>5. \E f \in [D -> V] : f = G[f]
  <2>1. G \in [[D -> V] -> [D -> V]]
    <3> HIDE DEF Body
    <3> QED BY <1>3
  <2>2. IsRecursion(G, D, V, rank, N)
    <3> HIDE DEF G, D, rank
    <3> QED BY <1>2, <1>4, <2>1 DEF IsRecursion
  <2> HIDE DEF G, D, rank
  <2> QED BY <2>2, RecursiveFunction
<1> QED BY <1>5 DEF IsLoop

-----------------------------------------------------------------------------
(* FoldLeft goes over the sets of positions from the greatest one down.    *)

LEMMA Positions ==
    ASSUME NEW n \in Nat \ {0}
    PROVE  /\ Max(1 .. n) = n /\ 1 .. n # {}
           /\ (1 .. n) \ {n} = 1 .. n - 1
<1>1. 1 .. n \subseteq Int /\ n \in 1 .. n /\ \A x \in 1 .. n : x <= n
    OBVIOUS
<1>2. Max(1 .. n) = n
    BY <1>1, MaxIs
<1> QED BY <1>2

LEMMA MaxIn ==
    ASSUME NEW N \in Nat, NEW S \in SUBSET (1 .. N), S # {}
    PROVE  Max(S) \in S /\ \A x \in S : x <= Max(S)
<1> DEFINE T == {N - x : x \in S}
<1>1. T \subseteq Nat /\ T # {}
  <2>1. PICK x \in S : TRUE
      OBVIOUS
  <2>2. N - x \in T
      OBVIOUS
  <2>3. \A y \in S : N - y \in Nat
      OBVIOUS
  <2> QED BY <2>2, <2>3
<1>2. PICK t \in T : \A u \in T : t <= u
    BY <1>1, MinIn
<1>3. PICK m \in S : t = N - m
    OBVIOUS
<1>4. \A x \in S : x <= m
    BY <1>2, <1>3
<1>5. S \subseteq Int
    OBVIOUS
<1>6. Max(S) = m
  <2> HIDE DEF T
  <2> QED BY <1>4, <1>5, MaxIs
<1> QED BY <1>4, <1>6

\* The recursive function in the definition of a fold exists.
IsFold(it, base, g, N) ==
    it = [s \in SUBSET (1 .. N) |-> IF s = {} THEN base ELSE g[<<Max(s), it[s \ {Max(s)}]>>]]

LEMMA FoldSolution ==
    ASSUME NEW V, NEW base \in V, NEW N \in Nat, NEW g \in [(1 .. N) \X V -> V]
    PROVE  \E it \in [SUBSET (1 .. N) -> V] : IsFold(it, base, g, N)
<1> DEFINE D == SUBSET (1 .. N)
           rank == [s \in D |-> IF s = {} THEN 0 ELSE Max(s)]
           Body(h) == [s \in D |-> IF s = {} THEN base ELSE g[<<Max(s), h[s \ {Max(s)}]>>]]
           G == [h \in [D -> V] |-> Body(h)]
<1>1. \A s \in D : s # {} => /\ Max(s) \in 1 .. N /\ Max(s) \in s
                             /\ s \ {Max(s)} \in D
                             /\ \A x \in s : x <= Max(s)
    BY MaxIn
<1>2. rank \in [D -> 0 .. N]
    BY <1>1
<1>3. G \in [[D -> V] -> [D -> V]]
  <2> SUFFICES ASSUME NEW h \in [D -> V] PROVE Body(h) \in [D -> V]
      OBVIOUS
  <2> SUFFICES ASSUME NEW s \in D, s # {} PROVE g[<<Max(s), h[s \ {Max(s)}]>>] \in V
      OBVIOUS
  <2> QED BY <1>1
<1>4. ASSUME NEW s \in D, NEW h1 \in [D -> V], NEW h2 \in [D -> V],
             \A t \in D : rank[t] < rank[s] => h1[t] = h2[t]
      PROVE  G[h1][s] = G[h2][s]
  <2>1. CASE s = {}
      BY <2>1
  <2>2. CASE s # {}
    <3>1. s \ {Max(s)} \in D /\ rank[s] = Max(s) /\ Max(s) \in 1 .. N
        BY <1>1, <2>2
    <3>2. rank[s \ {Max(s)}] < rank[s]
      <4>1. CASE s \ {Max(s)} = {}
          BY <4>1, <3>1
      <4>2. CASE s \ {Max(s)} # {}
        <5>1. Max(s \ {Max(s)}) \in s /\ Max(s \ {Max(s)}) # Max(s)
            BY <1>1, <3>1, <4>2
        <5>2. Max(s \ {Max(s)}) <= Max(s) /\ Max(s \ {Max(s)}) \in 1 .. N
            BY <1>1, <2>2, <3>1, <4>2, <5>1
        <5>3. Max(s \ {Max(s)}) < Max(s)
            BY <5>1, <5>2, <3>1
        <5> QED BY <3>1, <4>2, <5>3
      <4> QED BY <4>1, <4>2
    <3>3. h1[s \ {Max(s)}] = h2[s \ {Max(s)}]
        BY <1>4, <3>1, <3>2
    <3> QED BY <3>3
  <2> QED BY <2>1, <2>2
<1>5. \E f \in [D -> V] : f = G[f]
  <2>1. \A x \in D : \A h1, h2 \in [D -> V] :
            (\A y \in D : rank[y] < rank[x] => h1[y] = h2[y]) => G[h1][x] = G[h2][x]
      BY <1>4
  <2> HIDE DEF D, rank, G
  <2>2. IsRecursion(G, D, V, rank, N)
      BY <1>2, <1>3, <2>1 DEF IsRecursion
  <2> QED BY <2>2, RecursiveFunction
<1>6. PICK f \in [D -> V] : f = G[f]
    BY <1>5
<1>7. G[f] = Body(f)
    OBVIOUS
<1>8. f = Body(f)
    BY <1>6, <1>7
<1> HIDE DEF Body
<1>9. \E it \in [D -> V] : it = Body(it)
    BY <1>8
<1> QED BY <1>9 DEF Body, IsFold

-----------------------------------------------------------------------------
(* Folds over sequences: FoldLeft(op, base, s), where op is the function g *)
(* on the values V and the elements A.                                     *)

Foldable(V, A, base, g, s) == base \in V /\ g \in [V \X A -> V] /\ s \in Seq(A)

\* v is the value after the last of the rounds over s.
Folded(v, V, base, g, s) ==
    \E f \in [0 .. Len(s) -> V] :
        /\ f[0] = base
        /\ \A n \in 1 .. Len(s) : f[n] = g[<<f[n - 1], s[n]>>]
        /\ v = f[Len(s)]

\* The equation of the recursive function it in the definition of a fold.
FoldsOver(it, base, g, s) ==
    \A d \in SUBSET (1 .. Len(s)) :
        it[d] = IF d = {} THEN base ELSE g[<<it[d \ {Max(d)}], s[Max(d)]>>]

\* A solution, and that g is only applied to values and elements.
HasFold(V, A, base, g, s) ==
    \E it \in [SUBSET (1 .. Len(s)) -> V] :
        /\ FoldsOver(it, base, g, s)
        /\ \A d \in SUBSET (1 .. Len(s)) :
              d # {} => it[d \ {Max(d)}] \in V /\ s[Max(d)] \in A

\* What a solution that may have other values says of V.
Unrolls(it, V, base, g, s) ==
    /\ it[{}] = base
    /\ \A d \in SUBSET (1 .. Len(s)) : d # {} /\ it[d \ {Max(d)}] \in V =>
           it[d] = g[<<it[d \ {Max(d)}], s[Max(d)]>>]

LEMMA FoldExists ==
    ASSUME NEW V, NEW A, NEW base, NEW g, NEW s, Foldable(V, A, base, g, s)
    PROVE  HasFold(V, A, base, g, s)
<1> USE DEF Foldable
<1> DEFINE N == Len(s)
           h == [x \in (1 .. N) \X V |-> g[<<x[2], s[x[1]]>>]]
<1>1. N \in Nat /\ \A n \in 1 .. N : s[n] \in A
    BY ElementOfSeq
<1>2. h \in [(1 .. N) \X V -> V]
    BY <1>1
<1>3. PICK it \in [SUBSET (1 .. N) -> V] : IsFold(it, base, h, N)
  <2> HIDE DEF h, N
  <2> QED BY <1>1, <1>2, FoldSolution
<1>4. \A d \in SUBSET (1 .. N) :
          d # {} => Max(d) \in 1 .. N /\ it[d \ {Max(d)}] \in V /\ s[Max(d)] \in A
  <2> SUFFICES ASSUME NEW d \in SUBSET (1 .. N), d # {}
               PROVE  Max(d) \in 1 .. N /\ it[d \ {Max(d)}] \in V /\ s[Max(d)] \in A
      OBVIOUS
  <2>1. Max(d) \in 1 .. N
    <3> HIDE DEF N
    <3> QED BY <1>1, MaxIn
  <2>2. d \ {Max(d)} \in SUBSET (1 .. N)
      OBVIOUS
  <2> QED BY <1>1, <2>1, <2>2
<1>5. \A d \in SUBSET (1 .. N) :
          it[d] = IF d = {} THEN base ELSE h[<<Max(d), it[d \ {Max(d)}]>>]
  <2> HIDE DEF h, N
  <2> QED BY <1>3 DEF IsFold
<1>6. \A d \in SUBSET (1 .. N) :
          d # {} => h[<<Max(d), it[d \ {Max(d)}]>>] = g[<<it[d \ {Max(d)}], s[Max(d)]>>]
    BY <1>4
<1>7. FoldsOver(it, base, g, s)
  <2> HIDE DEF h
  <2> QED BY <1>5, <1>6 DEF FoldsOver
<1> QED BY <1>4, <1>7 DEF HasFold

LEMMA FoldUnroll ==
    ASSUME NEW V, NEW A, NEW base, NEW g, NEW s, Foldable(V, A, base, g, s),
           NEW it, Unrolls(it, V, base, g, s)
    PROVE  Folded(it[1 .. Len(s)], V, base, g, s)
<1> USE DEF Foldable, Unrolls
<1> DEFINE N == Len(s)
           f == [n \in 0 .. N |-> it[1 .. n]]
<1>1. N \in Nat /\ \A n \in 1 .. N : s[n] \in A
    BY ElementOfSeq
<1>2. f[0] = base
  <2>1. 1 .. 0 = {} /\ 0 \in 0 .. N
      BY <1>1
  <2> QED BY <2>1
<1>3. ASSUME NEW n \in 1 .. N, f[n - 1] \in V PROVE f[n] = g[<<f[n - 1], s[n]>>]
  <2>1. n \in Nat \ {0} /\ 1 .. n \in SUBSET (1 .. N) /\ n \in 0 .. N /\ n - 1 \in 0 .. N
      BY <1>1
  <2>2. Max(1 .. n) = n /\ 1 .. n # {} /\ (1 .. n) \ {n} = 1 .. n - 1
      BY <2>1, Positions
  <2>3. f[n] = it[1 .. n] /\ f[n - 1] = it[1 .. n - 1]
      BY <2>1
  <2> HIDE DEF f
  <2>4. it[(1 .. n) \ {Max(1 .. n)}] \in V
      BY <1>3, <2>2, <2>3
  <2>5. it[1 .. n] = g[<<it[(1 .. n) \ {Max(1 .. n)}], s[Max(1 .. n)]>>]
      BY <2>1, <2>2, <2>4
  <2> QED BY <2>2, <2>3, <2>5
<1>4. N \in 0 .. N /\ f[N] = it[1 .. N]
    BY <1>1
<1>5. DOMAIN f = 0 .. N /\ f = [n \in 0 .. N |-> f[n]]
    OBVIOUS
<1> HIDE DEF f
<1>6. \A n \in 0 .. N : f[n] \in V
  <2> DEFINE T == {n \in 0 .. N : f[n] \in V}
  <2>1. 0 \in T
      BY <1>1, <1>2
  <2>2. ASSUME NEW n \in 0 .. N - 1, n \in T PROVE n + 1 \in T
    <3>1. n + 1 \in 1 .. N /\ n + 1 \in 0 .. N /\ (n + 1) - 1 = n
        BY <1>1
    <3>2. f[n + 1] = g[<<f[n], s[n + 1]>>]
        BY <1>3, <2>2, <3>1
    <3> QED BY <1>1, <2>2, <3>1, <3>2
  <2>3. 0 .. N \subseteq T
    <3> HIDE DEF T, N
    <3> QED BY <1>1, <2>1, <2>2, BoundedInduction
  <2> QED BY <2>3
<1>7. f \in [0 .. N -> V]
    BY <1>5, <1>6
<1>8. \A n \in 1 .. N : f[n] = g[<<f[n - 1], s[n]>>]
  <2>1. \A n \in 1 .. N : n - 1 \in 0 .. N
      BY <1>1
  <2> QED BY <1>3, <1>6, <2>1
<1> QED BY <1>2, <1>4, <1>7, <1>8 DEF Folded

\* A fold over no elements, and over one more.
LEMMA FoldedEmpty ==
    ASSUME NEW V, NEW base, NEW g, NEW s, s = <<>>, NEW v, Folded(v, V, base, g, s)
    PROVE  v = base
<1>1. Len(s) = 0
    OBVIOUS
<1> QED BY <1>1 DEF Folded

LEMMA FoldedIn ==
    ASSUME NEW V, NEW A, NEW base, NEW g, NEW s, Foldable(V, A, base, g, s),
           NEW v, Folded(v, V, base, g, s)
    PROVE  v \in V
<1>1. Len(s) \in 0 .. Len(s)
    BY DEF Foldable
<1> QED BY <1>1 DEF Folded

LEMMA FoldedAppend ==
    ASSUME NEW V, NEW A, NEW base, NEW g, NEW s, Foldable(V, A, base, g, s), NEW x \in A,
           NEW v, Folded(v, V, base, g, s),
           NEW w, Folded(w, V, base, g, Append(s, x))
    PROVE  w = g[<<v, x>>] /\ v \in V
<1> USE DEF Foldable
<1> DEFINE N == Len(s)
           t == Append(s, x)
<1>1. N \in Nat /\ Len(t) = N + 1 /\ t[N + 1] = x /\ \A n \in 1 .. N : t[n] = s[n]
    OBVIOUS
<1> HIDE DEF t
<1>2. PICK f \in [0 .. N -> V] :
          f[0] = base /\ (\A n \in 1 .. N : f[n] = g[<<f[n - 1], s[n]>>]) /\ v = f[N]
    BY DEF Folded
<1>3. PICK h \in [0 .. N + 1 -> V] :
          h[0] = base /\ (\A n \in 1 .. N + 1 : h[n] = g[<<h[n - 1], t[n]>>]) /\ w = h[N + 1]
    BY <1>1 DEF Folded, t
<1> HIDE DEF N
<1> DEFINE T == {n \in 0 .. N : h[n] = f[n]}
<1>4. 0 \in T
    BY <1>1, <1>2, <1>3
<1>5. ASSUME NEW n \in 0 .. N - 1, n \in T PROVE n + 1 \in T
  <2>1. n + 1 \in 1 .. N /\ n + 1 \in 1 .. N + 1 /\ n + 1 \in 0 .. N /\ (n + 1) - 1 = n
      BY <1>1
  <2>2. h[n + 1] = g[<<h[n], t[n + 1]>>] /\ f[n + 1] = g[<<f[n], s[n + 1]>>]
      BY <1>2, <1>3, <2>1
  <2> QED BY <1>1, <1>5, <2>1, <2>2
<1>6. 0 .. N \subseteq T
  <2> HIDE DEF T
  <2> QED BY <1>1, <1>4, <1>5, BoundedInduction
<1>7. h[N] = f[N]
    BY <1>1, <1>6
<1>8. N + 1 \in 1 .. N + 1 /\ (N + 1) - 1 = N
    BY <1>1
<1> QED BY <1>1, <1>2, <1>3, <1>7, <1>8

-----------------------------------------------------------------------------
(* Sequences.                                                              *)

\* A set of sequences that has <<>> and, with e, all Append(e, x).
LEMMA SeqInduction ==
    ASSUME NEW A, NEW S, <<>> \in S,
           \A e \in Seq(A) : e \in S => \A x \in A : Append(e, x) \in S
    PROVE  Seq(A) \subseteq S
<1> DEFINE T == {n \in Nat : \A e \in Seq(A) : Len(e) = n => e \in S}
<1>1. 0 \in T
  <2>1. \A e \in Seq(A) : Len(e) = 0 => e = <<>>
      BY EmptySeq
  <2> QED BY <2>1
<1>2. ASSUME NEW n \in T PROVE n + 1 \in T
  <2> SUFFICES ASSUME NEW e \in Seq(A), Len(e) = n + 1 PROVE e \in S
      OBVIOUS
  <2>1. n \in Nat /\ e # <<>>
      OBVIOUS
  <2>2. PICK d \in Seq(A), x \in A : e = Append(d, x)
      BY <2>1, SequenceEmptyOrAppend
  <2>3. Len(d) \in Nat /\ Len(d) + 1 = n + 1
      BY <2>2, AppendProperties
  <2> QED BY <2>1, <2>2, <2>3
<1>3. T = Nat
  <2>1. T \subseteq Nat
      OBVIOUS
  <2> HIDE DEF T
  <2> QED BY <1>1, <1>2, <2>1, Induction
<1> QED BY <1>3

\* The first n elements of a sequence.
LEMMA FirstPart ==
    ASSUME NEW A, NEW e \in Seq(A), NEW n \in 0 .. Len(e)
    PROVE  /\ SubSeq(e, 1, n) \in Seq(A) /\ Len(SubSeq(e, 1, n)) = n
           /\ \A k \in 1 .. n : SubSeq(e, 1, n)[k] = e[k]
<1> DEFINE d == SubSeq(e, 1, n)
<1>1. n \in Nat /\ n \in Int /\ 1 \in Int /\ \A k \in 1 .. n : e[k] \in A
    BY ElementOfSeq
<1>2. /\ d \in Seq(A)
      /\ Len(d) = IF 1 <= n THEN n - 1 + 1 ELSE 0
      /\ \A k \in 1 .. n - 1 + 1 : d[k] = e[1 + k - 1]
    BY <1>1, SubSeqProperties
<1> HIDE DEF d
<1>3. Len(d) = n /\ \A k \in 1 .. n : d[k] = e[k]
    BY <1>1, <1>2
<1> QED BY <1>2, <1>3 DEF d

\* The first n elements and one more.
LEMMA FirstPartNext ==
    ASSUME NEW A, NEW e \in Seq(A), NEW n \in 0 .. Len(e) - 1
    PROVE  /\ e[n + 1] \in A
           /\ SubSeq(e, 1, n + 1) = Append(SubSeq(e, 1, n), e[n + 1])
<1> DEFINE d == SubSeq(e, 1, n)
           c == SubSeq(e, 1, n + 1)
<1>1. n \in 0 .. Len(e) /\ n + 1 \in 0 .. Len(e) /\ n + 1 \in 1 .. Len(e)
      /\ (\A k \in 1 .. n + 1 : k = n + 1 \/ k \in 1 .. n)
    OBVIOUS
<1>2. d \in Seq(A) /\ Len(d) = n /\ \A k \in 1 .. n : d[k] = e[k]
    BY <1>1, FirstPart
<1>3. c \in Seq(A) /\ Len(c) = n + 1 /\ \A k \in 1 .. n + 1 : c[k] = e[k]
    BY <1>1, FirstPart
<1>4. e[n + 1] \in A
    BY <1>1, ElementOfSeq
<1> HIDE DEF c, d
<1>5. /\ Append(d, e[n + 1]) \in Seq(A) /\ Len(Append(d, e[n + 1])) = n + 1
      /\ \A k \in 1 .. n : Append(d, e[n + 1])[k] = e[k]
      /\ Append(d, e[n + 1])[n + 1] = e[n + 1]
    BY <1>2, <1>4, AppendProperties
<1>6. \A k \in 1 .. n + 1 : c[k] = Append(d, e[n + 1])[k]
    BY <1>1, <1>3, <1>5
<1> QED BY <1>3, <1>4, <1>5, <1>6, SeqEqual DEF c, d

\* The length of the first n elements, and all of them.
LEMMA FirstPartEnds ==
    ASSUME NEW A, NEW e \in Seq(A)
    PROVE  SubSeq(e, 1, 0) = <<>> /\ SubSeq(e, 1, Len(e)) = e
    BY SubSeqEmpty, SubSeqFull

\* A sequence that is not empty is one that is a shorter by one, and its last.
LEMMA FrontLast ==
    ASSUME NEW A, NEW e \in Seq(A), e # <<>>
    PROVE  /\ Front(e) \in Seq(A) /\ Last(e) \in A /\ e = Append(Front(e), Last(e))
           /\ Len(Front(e)) = Len(e) - 1 /\ Len(e) >= 1
<1> DEFINE m == Len(e) - 1
<1>1. Len(e) \in Nat \ {0}
    BY EmptySeq
<1>2. m \in 0 .. Len(e) - 1 /\ m \in 0 .. Len(e) /\ m + 1 = Len(e)
    BY <1>1
<1> HIDE DEF m
<1>3. SubSeq(e, 1, m + 1) = Append(SubSeq(e, 1, m), e[m + 1]) /\ e[m + 1] \in A
    BY <1>2, FirstPartNext
<1>4. SubSeq(e, 1, m) \in Seq(A) /\ Len(SubSeq(e, 1, m)) = m
    BY <1>2, FirstPart
<1>5. SubSeq(e, 1, m + 1) = e
    BY <1>2, FirstPartEnds
<1>6. Front(e) = SubSeq(e, 1, m) /\ Last(e) = e[m + 1]
    BY <1>2 DEF Front, Last, m
<1> QED BY <1>1, <1>2, <1>3, <1>4, <1>5, <1>6 DEF m

LEMMA AppendIs ==
    ASSUME NEW A, NEW d \in Seq(A), NEW x \in A
    PROVE  /\ Append(d, x) \in Seq(A) /\ Append(d, x) # <<>> /\ Append(d, x) # d
           /\ Len(Append(d, x)) = Len(d) + 1
           /\ Front(Append(d, x)) = d /\ Last(Append(d, x)) = x
           /\ \A e \in Seq(A), y \in A : Append(d, x) = Append(e, y) <=> d = e /\ x = y
<1>1. /\ Append(d, x) \in Seq(A) /\ Append(d, x) # <<>>
      /\ Len(Append(d, x)) = Len(d) + 1
    BY AppendProperties
<1>2. \A e \in Seq(A), y \in A : Append(d, x) = Append(e, y) <=> d = e /\ x = y
    BY AppendInjective
<1>3. /\ Front(Append(d, x)) \in Seq(A) /\ Last(Append(d, x)) \in A
      /\ Append(d, x) = Append(Front(Append(d, x)), Last(Append(d, x)))
    BY <1>1, FrontLast
<1>4. Len(d) \in Nat
    OBVIOUS
<1> QED BY <1>1, <1>2, <1>3, <1>4

\* A fold has one value.
LEMMA FoldedValue ==
    ASSUME NEW V, NEW A, NEW base, NEW g, NEW s, Foldable(V, A, base, g, s)
    PROVE  \E v \in V : Folded(v, V, base, g, s)
<1>1. PICK it : Unrolls(it, V, base, g, s)
  <2>1. PICK it \in [SUBSET (1 .. Len(s)) -> V] :
            /\ FoldsOver(it, base, g, s)
            /\ \A d \in SUBSET (1 .. Len(s)) :
                  d # {} => it[d \ {Max(d)}] \in V /\ s[Max(d)] \in A
    <3>1. HasFold(V, A, base, g, s)
        BY FoldExists
    <3> QED BY <3>1 DEF HasFold
  <2>2. {} \in SUBSET (1 .. Len(s))
      OBVIOUS
  <2> QED BY <2>1, <2>2 DEF FoldsOver, Unrolls
<1>2. Folded(it[1 .. Len(s)], V, base, g, s)
    BY <1>1, FoldUnroll
<1> QED BY <1>2, FoldedIn

LEMMA FoldedUnique ==
    ASSUME NEW V, NEW A, NEW base, NEW g, NEW s, Foldable(V, A, base, g, s),
           NEW v, Folded(v, V, base, g, s), NEW w, Folded(w, V, base, g, s)
    PROVE  v = w
<1> DEFINE N == Len(s)
<1>1. N \in Nat
    BY DEF Foldable
<1>2. PICK f \in [0 .. N -> V] :
          f[0] = base /\ (\A n \in 1 .. N : f[n] = g[<<f[n - 1], s[n]>>]) /\ v = f[N]
    BY DEF Folded
<1>3. PICK h \in [0 .. N -> V] :
          h[0] = base /\ (\A n \in 1 .. N : h[n] = g[<<h[n - 1], s[n]>>]) /\ w = h[N]
    BY DEF Folded
<1> HIDE DEF N
<1> DEFINE T == {n \in 0 .. N : h[n] = f[n]}
<1>4. 0 \in T
    BY <1>1, <1>2, <1>3
<1>5. ASSUME NEW n \in 0 .. N - 1, n \in T PROVE n + 1 \in T
  <2>1. n + 1 \in 1 .. N /\ n + 1 \in 0 .. N /\ (n + 1) - 1 = n
      BY <1>1
  <2>2. h[n + 1] = g[<<h[n], s[n + 1]>>] /\ f[n + 1] = g[<<f[n], s[n + 1]>>]
      BY <1>2, <1>3, <2>1
  <2> QED BY <1>5, <2>1, <2>2
<1>6. 0 .. N \subseteq T
  <2> HIDE DEF T
  <2> QED BY <1>1, <1>4, <1>5, BoundedInduction
<1> QED BY <1>1, <1>2, <1>3, <1>6
=============================================================================
