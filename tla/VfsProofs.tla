----------------------------- MODULE VfsProofs -----------------------------
(***************************************************************************)
(* The tree of files, for tables of any capacity, any archives and pipes,  *)
(* and any calls after boot.  path.cpp splits a path at its separators;    *)
(* the inode table is a map, whatever collides or is deleted and even when *)
(* it is full; the tables have their types; the command fs prints the tree *)
(* that paths lead through; and paths lead to what the archive of the last *)
(* ram disk lists, and to the pipes.                                       *)
(***************************************************************************)
EXTENDS Vfs, PathScan, Recursion, FiniteSetTheorems, SequenceTheorems, TLAPS

-----------------------------------------------------------------------------
(***************************************************************************)
(* The scans over a path.                                                  *)
(***************************************************************************)

Counts == [count : Nat, separator : BOOLEAN]

\* The rounds of a scan over p.
IsScanned(f, p) ==
    /\ f \in [0 .. Len(p) -> Counts]
    /\ f[0] = ScanStart
    /\ \A n \in 1 .. Len(p) : f[n] = Scan(f[n - 1], p[n])
    /\ FoldLeft(Scan, ScanStart, p) = f[Len(p)]

LEMMA ScanIs ==
    ASSUME NEW s \in Counts, NEW c
    PROVE  /\ Scan(s, c) \in Counts
           /\ Scan(s, c).separator = (c = Separator)
           /\ Scan(s, c).count = IF c # Separator /\ s.separator THEN s.count + 1 ELSE s.count
<1>1. s.count \in Nat /\ s.separator \in BOOLEAN
    BY DEF Counts
<1>2. CASE c = Separator
  <2>1. Scan(s, c) = [s EXCEPT !.separator = TRUE]
      BY <1>2 DEF Scan
  <2> DEFINE t == Scan(s, c)
  <2> HIDE DEF t
  <2>2. t \in Counts /\ t.separator = TRUE /\ t.count = s.count
      BY <2>1 DEF Counts, t
  <2> QED BY <1>2, <2>2 DEF t
<1>3. CASE c # Separator
  <2> DEFINE k == IF s.separator THEN s.count + 1 ELSE s.count
  <2>1. Scan(s, c) = [count |-> k, separator |-> FALSE]
      BY <1>3 DEF Scan
  <2>2. k \in Nat
      BY <1>1
  <2> HIDE DEF k
  <2>3. Scan(s, c) \in Counts /\ Scan(s, c).separator = FALSE /\ Scan(s, c).count = k
      BY <2>1, <2>2 DEF Counts
  <2> QED BY <1>3, <2>3 DEF k
<1> QED BY <1>2, <1>3

LEMMA ScanRounds ==
    ASSUME NEW S, NEW p \in Seq(S)
    PROVE  \E f : IsScanned(f, p)
<1> DEFINE N == Len(p)
           D == SUBSET (1 .. N)
           g == [x \in (1 .. N) \X Counts |-> Scan(x[2], p[x[1]])]
           Eq(it) == it = [d \in D |-> IF d = {} THEN ScanStart ELSE Scan(it[d \ {Max(d)}], p[Max(d)])]
           it0 == CHOOSE it : Eq(it)
<1>1. N \in Nat /\ DOMAIN p = 1 .. N /\ ScanStart \in Counts
    BY DEF ScanStart, Counts
<1>2. FoldLeft(Scan, ScanStart, p) = it0[1 .. N]
    BY <1>1, Zenon DEF FoldLeft, MapThenFoldSet
<1>3. g \in [(1 .. N) \X Counts -> Counts]
    BY <1>1, ScanIs
<1>4. PICK it \in [D -> Counts] : IsFold(it, ScanStart, g, N)
  <2> HIDE DEF g, N
  <2> QED BY <1>1, <1>3, FoldSolution
<1>5. Eq(it)
  <2>1. \A d \in D : d # {} => Max(d) \in 1 .. N /\ it[d \ {Max(d)}] \in Counts
      BY <1>1, MaxIn
  <2>2. \A d \in D : d # {} => g[<<Max(d), it[d \ {Max(d)}]>>] = Scan(it[d \ {Max(d)}], p[Max(d)])
      BY <2>1
  <2> DEFINE R(d) == IF d = {} THEN ScanStart ELSE Scan(it[d \ {Max(d)}], p[Max(d)])
  <2>3. \A d \in D : it[d] = R(d)
    <3> HIDE DEF g
    <3> QED BY <1>4, <2>2 DEF IsFold
  <2> HIDE DEF g, D, R
  <2>4. it = [d \in D |-> R(d)]
      BY <2>3
  <2> QED BY <2>4 DEF R
<1>6. Eq(it0)
  <2> HIDE DEF Eq
  <2> QED BY <1>5
<1> HIDE DEF it0, g
<1> DEFINE f == [n \in 0 .. N |-> it0[1 .. n]]
<1>7. f[0] = ScanStart
  <2>1. 1 .. 0 = {} /\ 1 .. 0 \in D /\ 0 \in 0 .. N
      BY <1>1
  <2> QED BY <1>6, <2>1
<1>8. \A n \in 1 .. N : f[n] = Scan(f[n - 1], p[n])
  <2> SUFFICES ASSUME NEW n \in 1 .. N PROVE f[n] = Scan(f[n - 1], p[n])
      OBVIOUS
  <2>1. n \in Nat \ {0} /\ 1 .. n \in D /\ n \in 0 .. N /\ n - 1 \in 0 .. N
      BY <1>1
  <2>2. Max(1 .. n) = n /\ 1 .. n # {} /\ (1 .. n) \ {n} = 1 .. n - 1
      BY <2>1, Positions
  <2>3. it0[1 .. n] = Scan(it0[1 .. n - 1], p[n])
    <3>1. it0[1 .. n] = Scan(it0[(1 .. n) \ {Max(1 .. n)}], p[Max(1 .. n)])
        BY <1>6, <2>1, <2>2
    <3> QED BY <2>2, <3>1
  <2> QED BY <2>1, <2>3
<1>9. \A n \in 0 .. N : f[n] \in Counts
  <2> DEFINE T == {n \in 0 .. N : f[n] \in Counts}
  <2> HIDE DEF f
  <2>1. 0 \in T
      BY <1>1, <1>7
  <2>2. ASSUME NEW n \in 0 .. N - 1, n \in T PROVE n + 1 \in T
    <3>1. n + 1 \in 1 .. N /\ n + 1 \in 0 .. N /\ (n + 1) - 1 = n
        BY <1>1
    <3>2. f[n + 1] = Scan(f[n], p[n + 1])
        BY <1>8, <3>1
    <3> QED BY <2>2, <3>1, <3>2, ScanIs
  <2>3. 0 .. N \subseteq T
    <3> HIDE DEF T, N
    <3> QED BY <1>1, <2>1, <2>2, BoundedInduction
  <2> QED BY <2>3
<1>10. f \in [0 .. N -> Counts] /\ f[N] = it0[1 .. N]
    BY <1>1, <1>9
<1> HIDE DEF f
<1> QED BY <1>2, <1>7, <1>8, <1>10 DEF IsScanned

\* The positions at which an element begins.
Starts(p) == {i \in 1 .. Len(p) : p[i] # Separator /\ (i = 1 \/ p[i - 1] = Separator)}
UpTo(p, n) == {i \in Starts(p) : i <= n}

LEMMA StartsFinite ==
    ASSUME NEW S, NEW p \in Seq(S), NEW T \in SUBSET Starts(p)
    PROVE  IsFiniteSet(T) /\ Cardinality(T) \in Nat
<1>1. 1 \in Int /\ Len(p) \in Int
    OBVIOUS
<1>2. IsFiniteSet(1 .. Len(p)) /\ T \in SUBSET (1 .. Len(p))
    BY <1>1, FS_Interval DEF Starts
<1> QED BY <1>2, FS_Subset, FS_CardinalityType

\* What a scan knows: whether an element may begin, and how many have begun.
LEMMA ScanCounts ==
    ASSUME NEW S, NEW p \in Seq(S), NEW f, IsScanned(f, p), NEW n \in 0 .. Len(p)
    PROVE  /\ f[n].separator = (n = 0 \/ p[n] = Separator)
           /\ f[n].count = Cardinality(UpTo(p, n))
<1> DEFINE N == Len(p)
           Right(i) == /\ f[i].separator = (i = 0 \/ p[i] = Separator)
                       /\ f[i].count = Cardinality(UpTo(p, i))
           T == {i \in 0 .. N : Right(i)}
<1>1. N \in Nat /\ f \in [0 .. N -> Counts] /\ f[0] = ScanStart
      /\ \A i \in 1 .. N : f[i] = Scan(f[i - 1], p[i])
    BY DEF IsScanned
<1>2. 0 \in T
  <2>1. UpTo(p, 0) = {}
      BY <1>1 DEF UpTo, Starts
  <2>2. Cardinality(UpTo(p, 0)) = 0
      BY <2>1, FS_EmptySet
  <2> QED BY <1>1, <2>2 DEF ScanStart
<1>3. ASSUME NEW i \in 0 .. N - 1, i \in T PROVE i + 1 \in T
  <2> HIDE DEF N
  <2>1. i + 1 \in 1 .. N /\ i + 1 \in 0 .. N /\ (i + 1) - 1 = i /\ i \in 0 .. N /\ i \in Nat /\ i + 1 # 0
        /\ i + 1 \in 1 .. Len(p)
      BY <1>1 DEF N
  <2>2. f[i + 1] = Scan(f[i], p[i + 1]) /\ f[i] \in Counts
      BY <1>1, <2>1
  <2>3. Right(i)
      BY <1>3
  <2>4. f[i + 1].separator = (p[i + 1] = Separator)
      BY <2>2, ScanIs
  <2>5. f[i + 1].count = IF p[i + 1] # Separator /\ f[i].separator THEN f[i].count + 1 ELSE f[i].count
      BY <2>2, ScanIs
  <2>6. i + 1 \in Starts(p) <=> p[i + 1] # Separator /\ f[i].separator
    <3>1. i + 1 = 1 <=> i = 0
        BY <2>1
    <3> QED BY <2>1, <2>3, <3>1 DEF Starts
  <2>7. \A k \in Starts(p) : k <= i + 1 <=> k <= i \/ k = i + 1
      BY <2>1 DEF Starts
  <2>8. IsFiniteSet(UpTo(p, i)) /\ i + 1 \notin UpTo(p, i)
      BY <2>1, StartsFinite DEF UpTo
  <2>9. CASE i + 1 \in Starts(p)
    <3>1. UpTo(p, i + 1) = UpTo(p, i) \cup {i + 1}
        BY <2>7, <2>9 DEF UpTo
    <3>2. Cardinality(UpTo(p, i + 1)) = Cardinality(UpTo(p, i)) + 1
        BY <2>8, <3>1, FS_AddElement
    <3>3. Right(i + 1)
        BY <2>1, <2>3, <2>4, <2>5, <2>6, <2>9, <3>2
    <3> QED BY <2>1, <3>3
  <2>10. CASE i + 1 \notin Starts(p)
    <3>1. UpTo(p, i + 1) = UpTo(p, i)
        BY <2>7, <2>10 DEF UpTo
    <3>2. Right(i + 1)
        BY <2>1, <2>3, <2>4, <2>5, <2>6, <2>10, <3>1
    <3> QED BY <2>1, <3>2
  <2> QED BY <2>9, <2>10
<1>4. 0 .. N \subseteq T
  <2> HIDE DEF T, N
  <2> QED BY <1>1, <1>2, <1>3, BoundedInduction
<1> QED BY <1>4

\* The scan up to position i, as path_element_get makes it.
LEMMA PrefixScan ==
    ASSUME NEW S, NEW p \in Seq(S), NEW i \in 1 .. Len(p)
    PROVE  LET s == FoldLeft(Scan, ScanStart, SubSeq(p, 1, i - 1))
           IN  /\ s.separator = (i = 1 \/ p[i - 1] = Separator)
               /\ s.count = Cardinality(UpTo(p, i - 1))
<1> DEFINE q == SubSeq(p, 1, i - 1)
<1>1. Len(p) \in Nat /\ i \in Nat /\ i - 1 \in 0 .. Len(p) /\ \A k \in 1 .. i - 1 : k \in 1 .. Len(p)
    OBVIOUS
<1>2. q \in Seq(S) /\ Len(q) = i - 1 /\ \A k \in 1 .. i - 1 : q[k] = p[k]
  <2>1. \A k \in 1 .. i - 1 : p[k] \in S
      BY <1>1, ElementOfSeq
  <2> DEFINE m == i - 1
  <2>2. m \in Int /\ 1 \in Int /\ \A k \in 1 .. m : p[k] \in S
      BY <1>1, <2>1
  <2> HIDE DEF m
  <2>3. /\ SubSeq(p, 1, m) \in Seq(S)
        /\ Len(SubSeq(p, 1, m)) = IF 1 <= m THEN m - 1 + 1 ELSE 0
        /\ \A k \in 1 .. m - 1 + 1 : SubSeq(p, 1, m)[k] = p[1 + k - 1]
      BY <2>2, SubSeqProperties
  <2> DEFINE z == SubSeq(p, 1, m)
  <2> HIDE DEF z
  <2>4. m \in Nat
      BY <1>1 DEF m
  <2>5. Len(z) = m /\ \A k \in 1 .. m : z[k] = p[k]
      BY <2>3, <2>4 DEF z
  <2> QED BY <2>3, <2>5 DEF m, z
<1> HIDE DEF q
<1>3. PICK f : IsScanned(f, q)
    BY <1>2, ScanRounds
<1>4. FoldLeft(Scan, ScanStart, q) = f[i - 1]
    BY <1>2, <1>3 DEF IsScanned
<1>5. i - 1 \in 0 .. Len(q)
    BY <1>1, <1>2
<1>6. /\ f[i - 1].separator = (i - 1 = 0 \/ q[i - 1] = Separator)
      /\ f[i - 1].count = Cardinality(UpTo(q, i - 1))
    BY <1>2, <1>3, <1>5, ScanCounts
<1>7. UpTo(q, i - 1) = UpTo(p, i - 1)
  <2>1. \A k \in 1 .. Len(p) : k <= i - 1 <=> k \in 1 .. i - 1
      BY <1>1
  <2>2. \A k \in 1 .. i - 1 : k # 1 => k - 1 \in 1 .. i - 1
      BY <1>1
  <2>3. \A k \in 1 .. i - 1 : k \in Starts(q) <=> k \in Starts(p)
      BY <1>1, <1>2, <2>2 DEF Starts
  <2> QED BY <1>1, <1>2, <2>1, <2>3 DEF UpTo, Starts
<1>8. (i - 1 = 0 <=> i = 1) /\ (i # 1 => q[i - 1] = p[i - 1])
    BY <1>1, <1>2
<1>9. f[i - 1].separator = (i = 1 \/ p[i - 1] = Separator)
    BY <1>6, <1>8
<1> QED BY <1>4, <1>6, <1>7, <1>9 DEF q

\* A run begins at a start, and each start begins one run.
LEMMA RunStarts ==
    ASSUME NEW S, NEW p \in Seq(S)
    PROVE  /\ \A r \in Runs(p) : /\ r = <<r[1], r[2]>> /\ r[1] \in Starts(p) /\ r[2] \in 1 .. Len(p)
                                 /\ r[1] <= r[2]
                                 /\ \A k \in r[1] .. r[2] : p[k] # Separator
                                 /\ r[2] = Len(p) \/ p[r[2] + 1] = Separator
           /\ \A q, r \in Runs(p) : q[1] = r[1] => q = r
           /\ \A i \in Starts(p) : \E r \in Runs(p) : r[1] = i
<1> DEFINE N == Len(p)
<1>1. N \in Nat /\ DOMAIN p = 1 .. N
    OBVIOUS
<1>2. Runs(p) = {r \in (1 .. N) \X (1 .. N) :
                    /\ r[1] <= r[2]
                    /\ r[1] - 1 \notin 1 .. N \/ p[r[1] - 1] = Separator
                    /\ r[2] + 1 \notin 1 .. N \/ p[r[2] + 1] = Separator
                    /\ \A i \in r[1] .. r[2] : p[i] # Separator}
    BY <1>1 DEF Runs
<1> HIDE DEF N
<1>3. ASSUME NEW r \in Runs(p)
      PROVE  /\ r = <<r[1], r[2]>> /\ r[1] \in Starts(p) /\ r[2] \in 1 .. N
             /\ r[1] <= r[2]
             /\ \A k \in r[1] .. r[2] : p[k] # Separator
             /\ r[2] = N \/ p[r[2] + 1] = Separator
  <2>1. /\ r = <<r[1], r[2]>> /\ r[1] \in 1 .. N /\ r[2] \in 1 .. N /\ r[1] <= r[2]
        /\ r[1] - 1 \notin 1 .. N \/ p[r[1] - 1] = Separator
        /\ r[2] + 1 \notin 1 .. N \/ p[r[2] + 1] = Separator
        /\ \A i \in r[1] .. r[2] : p[i] # Separator
      BY <1>2
  <2> DEFINE a == r[1]
             b == r[2]
  <2> HIDE DEF a, b
  <2>2. a \in a .. b /\ (a - 1 \notin 1 .. N => a = 1) /\ (b + 1 \notin 1 .. N => b = N)
      BY <1>1, <2>1 DEF a, b
  <2>3. a \in Starts(p)
      BY <2>1, <2>2 DEF Starts, N, a, b
  <2> QED BY <2>1, <2>2, <2>3 DEF a, b
<1>4. ASSUME NEW q \in Runs(p), NEW r \in Runs(p), q[1] = r[1] PROVE q = r
  <2> DEFINE a == r[1]
             b == q[2]
             c == r[2]
  <2>1. /\ q = <<a, b>> /\ r = <<a, c>> /\ a \in 1 .. N /\ b \in 1 .. N /\ c \in 1 .. N /\ a <= b /\ a <= c
        /\ (\A k \in a .. b : p[k] # Separator) /\ (\A k \in a .. c : p[k] # Separator)
        /\ (b = N \/ p[b + 1] = Separator) /\ (c = N \/ p[c + 1] = Separator)
      BY <1>3, <1>4 DEF Starts, N
  <2> HIDE DEF a, b, c
  <2>2. ~(b < c)
    <3> SUFFICES ASSUME b < c PROVE FALSE
        OBVIOUS
    <3>1. b + 1 \in a .. c /\ b # N
        BY <1>1, <2>1
    <3> QED BY <2>1, <3>1
  <2>3. ~(c < b)
    <3> SUFFICES ASSUME c < b PROVE FALSE
        OBVIOUS
    <3>1. c + 1 \in a .. b /\ c # N
        BY <1>1, <2>1
    <3> QED BY <2>1, <3>1
  <2>4. b = c
      BY <1>1, <2>1, <2>2, <2>3
  <2> QED BY <2>1, <2>4
<1>5. ASSUME NEW i \in Starts(p) PROVE \E r \in Runs(p) : r[1] = i
  <2> DEFINE stops == {j \in i .. N : p[j] = Separator} \cup {N + 1}
             m == Min(stops)
  <2>1. i \in 1 .. N /\ p[i] # Separator /\ (i = 1 \/ p[i - 1] = Separator)
      BY DEF Starts, N
  <2>2. stops \subseteq Nat /\ stops # {}
      BY <1>1, <2>1
  <2>3. m \in stops /\ \A j \in stops : m <= j
      BY <2>2, MinIn
  <2>4. m \in i .. N + 1 /\ m # i /\ (m = N + 1 \/ p[m] = Separator)
      BY <1>1, <2>1, <2>3
  <2>5. \A j \in i .. m - 1 : p[j] # Separator
    <3> SUFFICES ASSUME NEW j \in i .. m - 1, p[j] = Separator PROVE FALSE
        OBVIOUS
    <3> HIDE DEF m
    <3>1. j \in i .. N /\ j < m
        BY <1>1, <2>1, <2>4
    <3>2. j \in stops
        BY <3>1
    <3> HIDE DEF stops
    <3> QED BY <1>1, <2>1, <2>3, <2>4, <3>1, <3>2
  <2> HIDE DEF m, stops
  <2>6. /\ m - 1 \in 1 .. N /\ i <= m - 1 /\ (m - 1) + 1 = m /\ (m = N + 1 => m \notin 1 .. N)
        /\ (i = 1 => i - 1 \notin 1 .. N)
      BY <1>1, <2>1, <2>4
  <2> DEFINE b == m - 1
  <2>7. b \in 1 .. N /\ i <= b /\ (b + 1 \notin 1 .. N \/ p[b + 1] = Separator)
        /\ (i - 1 \notin 1 .. N \/ p[i - 1] = Separator) /\ \A j \in i .. b : p[j] # Separator
      BY <2>1, <2>4, <2>5, <2>6
  <2> HIDE DEF b
  <2>8. <<i, b>> \in Runs(p)
      BY <1>2, <2>1, <2>7
  <2>9. <<i, b>>[1] = i
      OBVIOUS
  <2> QED BY <2>8, <2>9
<1> QED BY <1>3, <1>4, <1>5 DEF N

\* There are as many runs as starts, also before a position.
LEMMA RunCards ==
    ASSUME NEW S, NEW p \in Seq(S), NEW n \in Nat
    PROVE  /\ Cardinality({q \in Runs(p) : q[1] <= n}) = Cardinality(UpTo(p, n))
           /\ Cardinality(Runs(p)) = Cardinality(Starts(p))
<1>1. ASSUME NEW A \in SUBSET Starts(p)
      PROVE  Cardinality({q \in Runs(p) : q[1] \in A}) = Cardinality(A)
  <2> DEFINE Q == {q \in Runs(p) : q[1] \in A}
             h == [i \in A |-> CHOOSE r \in Runs(p) : r[1] = i]
  <2>1. \A i \in A : h[i] \in Runs(p) /\ h[i][1] = i
      BY RunStarts
  <2>2. h \in [A -> Q]
      BY <2>1
  <2>3. \A i, j \in A : h[i] = h[j] => i = j
      BY <2>1
  <2>4. \A q \in Q : \E i \in A : h[i] = q
    <3> SUFFICES ASSUME NEW q \in Q PROVE h[q[1]] = q /\ q[1] \in A
        OBVIOUS
    <3>1. q \in Runs(p) /\ q[1] \in A
        OBVIOUS
    <3>2. h[q[1]] \in Runs(p) /\ h[q[1]][1] = q[1]
        BY <2>1, <3>1
    <3> HIDE DEF h
    <3> QED BY <3>1, <3>2, RunStarts
  <2> HIDE DEF h, Q
  <2>5. h \in Bijection(A, Q)
      BY <2>2, <2>3, <2>4 DEF Bijection, Injection, Surjection, IsInjective
  <2>6. IsFiniteSet(A)
      BY StartsFinite
  <2>7. Cardinality(Q) = Cardinality(A)
      BY <2>5, <2>6, FS_Bijection DEF ExistsBijection
  <2> QED BY <2>7 DEF Q
<1>2. \A q \in Runs(p) : q[1] \in Starts(p)
    BY RunStarts
<1>3. {q \in Runs(p) : q[1] <= n} = {q \in Runs(p) : q[1] \in UpTo(p, n)}
    BY <1>2 DEF UpTo
<1>4. {q \in Runs(p) : q[1] \in Starts(p)} = Runs(p)
    BY <1>2
<1>5. UpTo(p, n) \in SUBSET Starts(p)
    BY DEF UpTo
<1>6. Cardinality({q \in Runs(p) : q[1] \in UpTo(p, n)}) = Cardinality(UpTo(p, n))
    BY <1>1, <1>5
<1>7. Cardinality({q \in Runs(p) : q[1] \in Starts(p)}) = Cardinality(Starts(p))
    BY <1>1
<1> QED BY <1>3, <1>4, <1>6, <1>7

\* The copy of an element that begins where a run begins is the run, or as
\* much of it as a name may have.
LEMMA CopyIsRun ==
    ASSUME NEW S, NEW p \in Seq(S), NEW r \in Runs(p)
    PROVE  CopyElement(p, r[1]) =
              SubSeq(p, r[1], IF r[2] - r[1] < FILENAME_MAX - 1 THEN r[2] ELSE r[1] + FILENAME_MAX - 2)
<1> DEFINE a == r[1]
           b == r[2]
           N == Len(p)
           stops == {j \in a .. N : p[j] = Separator} \cup {N + 1, a + FILENAME_MAX - 1}
           m == IF b - a < FILENAME_MAX - 1 THEN b + 1 ELSE a + FILENAME_MAX - 1
<1>1. /\ a \in 1 .. N /\ b \in 1 .. N /\ a <= b /\ N \in Nat
      /\ (\A k \in a .. b : p[k] # Separator) /\ (b = N \/ p[b + 1] = Separator)
    BY RunStarts DEF Starts
<1>2. FILENAME_MAX \in Nat \ {0}
    BY FilenameAssumption
<1>3. CopyElement(p, a) = SubSeq(p, a, (CHOOSE j \in stops : \A k \in stops : j <= k) - 1)
    BY DEF CopyElement
<1> HIDE DEF a, b, N
<1>4. m \in stops /\ stops \subseteq Int
  <2>1. b + 1 \in stops
    <3>1. CASE b = N
        BY <3>1
    <3>2. CASE b # N
      <4>1. b + 1 \in a .. N /\ p[b + 1] = Separator
          BY <1>1, <3>2
      <4> QED BY <4>1
    <3> QED BY <3>1, <3>2
  <2>2. stops \subseteq Int
      BY <1>1, <1>2
  <2>3. a + FILENAME_MAX - 1 \in stops
      OBVIOUS
  <2> HIDE DEF stops
  <2> QED BY <2>1, <2>2, <2>3
<1>5. \A k \in stops : m <= k
  <2> SUFFICES ASSUME NEW k \in stops PROVE m <= k
      OBVIOUS
  <2>1. m <= b + 1 /\ m <= a + FILENAME_MAX - 1
      BY <1>1, <1>2
  <2>2. CASE k \in a .. N /\ p[k] = Separator
    <3>1. ~(k <= b)
        BY <1>1, <2>2
    <3> HIDE DEF m
    <3> QED BY <1>1, <1>4, <2>1, <2>2, <3>1
  <2>3. CASE k = N + 1
    <3>1. m \in Int
        BY <1>1, <1>2
    <3> HIDE DEF m
    <3> QED BY <1>1, <2>1, <2>3, <3>1
  <2>4. CASE k = a + FILENAME_MAX - 1
      BY <2>1, <2>4
  <2> QED BY <2>2, <2>3, <2>4
<1> HIDE DEF stops
<1>6. (CHOOSE j \in stops : \A k \in stops : j <= k) = m
  <2>1. \A j \in stops : (\A k \in stops : j <= k) => j = m
    <3> HIDE DEF m
    <3> QED BY <1>4, <1>5
  <2> HIDE DEF m
  <2> QED BY <1>4, <1>5, <2>1
<1>7. m - 1 = IF b - a < FILENAME_MAX - 1 THEN b ELSE a + FILENAME_MAX - 2
    BY <1>1, <1>2
<1> HIDE DEF m
<1>8. CopyElement(p, a) = SubSeq(p, a, IF b - a < FILENAME_MAX - 1 THEN b ELSE a + FILENAME_MAX - 2)
    BY <1>3, <1>6, <1>7
<1> QED BY <1>8 DEF a, b

\* The element that path_element_get finds begins where the run begins that
\* has as many runs before it.
LEMMA GetFindsRun ==
    ASSUME NEW S, NEW p \in Seq(S), NEW r \in Runs(p)
    PROVE  path_element_get(p, Cardinality({q \in Runs(p) : q[1] < r[1]})) = CopyElement(p, r[1])
<1> DEFINE a == r[1]
           N == Len(p)
           index == Cardinality({q \in Runs(p) : q[1] < a})
           before(i) == FoldLeft(Scan, ScanStart, SubSeq(p, 1, i - 1))
           Fits(j) == p[j] # Separator /\ before(j).separator /\ before(j).count = index
<1>1. a \in Starts(p) /\ a \in 1 .. N /\ N \in Nat
    BY RunStarts DEF Starts
<1>2. path_element_get(p, index) = CopyElement(p, CHOOSE j \in 1 .. N : Fits(j))
    BY DEF path_element_get
<1>3. index = Cardinality(UpTo(p, a - 1))
  <2>1. \A q \in Runs(p) : q[1] \in Int
      BY RunStarts DEF Starts
  <2>2. {q \in Runs(p) : q[1] < a} = {q \in Runs(p) : q[1] <= a - 1}
      BY <1>1, <2>1
  <2>3. a - 1 \in Nat
      BY <1>1
  <2>4. Cardinality({q \in Runs(p) : q[1] <= a - 1}) = Cardinality(UpTo(p, a - 1))
    <3> DEFINE k == a - 1
    <3> HIDE DEF k
    <3>1. Cardinality({q \in Runs(p) : q[1] <= k}) = Cardinality(UpTo(p, k))
        BY <2>3, RunCards DEF k
    <3> QED BY <3>1 DEF k
  <2> QED BY <2>2, <2>4
<1>4. \A j \in 1 .. N : /\ before(j).separator = (j = 1 \/ p[j - 1] = Separator)
                        /\ before(j).count = Cardinality(UpTo(p, j - 1))
    BY PrefixScan
<1> HIDE DEF before, index, a, N
<1>5. Fits(a)
    BY <1>1, <1>3, <1>4 DEF Starts
<1>6. ASSUME NEW j \in 1 .. N, Fits(j) PROVE j = a
  <2>1. j \in Starts(p) /\ Cardinality(UpTo(p, j - 1)) = Cardinality(UpTo(p, a - 1))
      BY <1>3, <1>4, <1>6 DEF Starts, N
  <2>2. ASSUME NEW x \in Starts(p), NEW y \in Starts(p), x < y
        PROVE  Cardinality(UpTo(p, x - 1)) # Cardinality(UpTo(p, y - 1))
    <3>1. x \in Nat /\ y \in Nat
        BY DEF Starts
    <3>2. UpTo(p, x - 1) \in SUBSET UpTo(p, y - 1)
        BY <2>2, <3>1 DEF UpTo, Starts
    <3>3. x \in UpTo(p, y - 1) /\ x \notin UpTo(p, x - 1)
        BY <2>2, <3>1 DEF UpTo
    <3>4. IsFiniteSet(UpTo(p, y - 1))
        BY StartsFinite DEF UpTo
    <3>5. UpTo(p, x - 1) # UpTo(p, y - 1)
        BY <3>3
    <3> QED BY <3>2, <3>4, <3>5, FS_Subset
  <2>3. j \in Nat /\ a \in Nat
      BY <1>1 DEF N
  <2> QED BY <1>1, <2>1, <2>2, <2>3
<1>7. (CHOOSE j \in 1 .. N : Fits(j)) = a
  <2> HIDE DEF Fits
  <2> QED BY <1>1, <1>5, <1>6
<1> QED BY <1>2, <1>7 DEF a, index

\* For a path of any length over any characters, and names of any length:
\* path_element_count and path_element_get split it into its runs.
LEMMA SplitPath ==
    ASSUME NEW S, NEW p \in Seq(S)
    PROVE  /\ path_element_count(p) = Cardinality(Runs(p))
           /\ \A r \in Runs(p) :
                 path_element_get(p, Cardinality({q \in Runs(p) : q[1] < r[1]})) =
                     SubSeq(p, r[1], IF r[2] - r[1] < FILENAME_MAX - 1 THEN r[2]
                                     ELSE r[1] + FILENAME_MAX - 2)
<1>1. PICK f : IsScanned(f, p)
    BY ScanRounds
<1>2. Len(p) \in Nat /\ Len(p) \in 0 .. Len(p)
    OBVIOUS
<1>3. f[Len(p)].count = Cardinality(UpTo(p, Len(p)))
    BY <1>1, <1>2, ScanCounts
<1>4. UpTo(p, Len(p)) = Starts(p)
    BY <1>2 DEF UpTo, Starts
<1>5. path_element_count(p) = Cardinality(Starts(p))
    BY <1>1, <1>3, <1>4 DEF path_element_count, IsScanned
<1>6. Cardinality(Runs(p)) = Cardinality(Starts(p))
    BY <1>2, RunCards
<1> QED BY <1>5, <1>6, GetFindsRun, CopyIsRun

\* path.cpp splits every path into its elements.
THEOREM PathsAreSplit == path_spec => []PathIsSplit
<1> DEFINE Inv == path \in Seq(PathChars)
<1>1. path_init => Inv
    BY DEF path_init
<1>2. Inv /\ [path_next]_path => Inv'
  <2> SUFFICES ASSUME Inv, [path_next]_path PROVE Inv'
      OBVIOUS
  <2>1. CASE path_next
    <3>1. PICK n \in 0 .. MaxPath : path' \in [1 .. n -> PathChars]
        BY <2>1 DEF path_next
    <3>2. n \in Nat
        BY PathAssumption
    <3> QED BY <3>1, <3>2
  <2>2. CASE UNCHANGED path
      BY <2>2
  <2> QED BY <2>1, <2>2
<1>3. Inv => PathIsSplit
  <2> SUFFICES ASSUME Inv PROVE PathIsSplit
      OBVIOUS
  <2> QED BY SplitPath DEF PathIsSplit
<1> QED BY <1>1, <1>2, <1>3, PTL DEF path_spec

-----------------------------------------------------------------------------
\* The probe sequence of a key stays in the table and comes to every slot.
LEMMA ProbeOnto ==
    ASSUME NEW key \in Nat
    PROVE  /\ \A i \in Slots : Probe(key, i) \in Slots
           /\ \A s \in Slots : \E i \in Slots : Probe(key, i) = s
<1> DEFINE h == key % HASHTABLE_CAPACITY
<1>1. h \in Slots
    BY CapacityAssumption DEF Slots
<1>2. \A i \in Slots : Probe(key, i) = (h + i) % HASHTABLE_CAPACITY
    BY DEF Probe, hash
<1> HIDE DEF h
<1>3. \A i \in Slots : (h + i) % HASHTABLE_CAPACITY =
          IF h + i < HASHTABLE_CAPACITY THEN h + i ELSE h + i - HASHTABLE_CAPACITY
    BY <1>1, CapacityAssumption DEF Slots
<1>4. ASSUME NEW s \in Slots PROVE \E i \in Slots : Probe(key, i) = s
  <2> DEFINE i == IF s >= h THEN s - h ELSE s - h + HASHTABLE_CAPACITY
  <2>1. i \in Slots
    BY <1>1, CapacityAssumption DEF Slots
  <2>2. (h + i) % HASHTABLE_CAPACITY = s
    BY <1>1, <1>3, <2>1, CapacityAssumption DEF Slots
  <2> QED BY <1>2, <2>1, <2>2
<1> QED BY <1>1, <1>2, <1>3, <1>4, CapacityAssumption DEF Slots

\* The first slot in S of a probe sequence is found if S is not empty.
LEMMA FirstSlotIn ==
    ASSUME NEW key \in Nat, NEW S, S \subseteq Slots
    PROVE  /\ S = {} => FirstSlot(key, S) = NoSlot
           /\ S # {} => FirstSlot(key, S) \in S
<1> DEFINE hits == {i \in Slots : Probe(key, i) \in S}
<1>1. hits \subseteq Nat
    BY CapacityAssumption DEF Slots
<1>2. S # {} => hits # {}
    BY ProbeOnto
<1>3. hits # {} => Min(hits) \in hits
    BY <1>1, MinIn
<1>4. FirstSlot(key, S) = IF hits = {} THEN NoSlot ELSE Probe(key, Min(hits))
    BY DEF FirstSlot
<1>5. S = {} => hits = {}
    OBVIOUS
<1>6. Min(hits) \in hits => Probe(key, Min(hits)) \in S
    OBVIOUS
<1> QED BY <1>2, <1>3, <1>4, <1>5, <1>6

-----------------------------------------------------------------------------
\* A table that holds entries of D under keys below n, one entry per key.
Record(t, D) == t \in [used : [Slots -> BOOLEAN], keys : [Slots -> Nat], data : [Slots -> D],
                       item_count : Int]
UniqueKeys(t) == \A r, s \in Slots : t.used[r] /\ t.used[s] /\ t.keys[r] = t.keys[s] => r = s
KeysBelow(t, n) == \A s \in Slots : t.used[s] => t.keys[s] < n
Table(t, n) == (\E D : Record(t, D)) /\ UniqueKeys(t) /\ KeysBelow(t, n)

\* The inductive invariant.
IInv == inode_counter \in 0 .. MaxInodes /\ Table(inode_table, inode_counter)

\* get() finds an entry exactly if there is one.
LEMMA FindEntry ==
    ASSUME NEW t, NEW n, Table(t, n), NEW key \in Nat
    PROVE  /\ has(t, key) <=> \E s \in Slots : t.used[s] /\ t.keys[s] = key
           /\ \A s \in Slots : t.used[s] /\ t.keys[s] = key =>
                  Find(t, key) = s /\ get(t, key) = t.data[s]
<1>1. Holding(t, key) \subseteq Slots
    BY DEF Holding
<1>2. /\ Holding(t, key) = {} => Find(t, key) = NoSlot
      /\ Holding(t, key) # {} => Find(t, key) \in Holding(t, key)
    BY <1>1, FirstSlotIn DEF Find
<1>3. NoSlot \notin Slots
    BY CapacityAssumption DEF NoSlot, Slots
<1>4. has(t, key) <=> Holding(t, key) # {}
    BY <1>1, <1>2, <1>3 DEF has
<1>5. Holding(t, key) # {} <=> \E s \in Slots : t.used[s] /\ t.keys[s] = key
    BY DEF Holding
<1>6. ASSUME NEW s \in Slots, t.used[s], t.keys[s] = key
      PROVE  Find(t, key) = s /\ get(t, key) = t.data[s]
  <2>1. Find(t, key) \in Slots /\ t.used[Find(t, key)] /\ t.keys[Find(t, key)] = key
    BY <1>2, <1>6 DEF Holding
  <2>2. Find(t, key) = s
    BY <1>6, <2>1 DEF Table, UniqueKeys
  <2> QED BY <2>2 DEF get
<1> QED BY <1>4, <1>5, <1>6

\* A key that is not a number is not found: its slots are not looked at.
LEMMA FindNothing ==
    ASSUME NEW t, NEW n, Table(t, n), NEW key, key \notin Nat
    PROVE  ~has(t, key)
<1>1. Holding(t, key) = {}
    BY DEF Holding, Table, Record
<1>2. Find(t, key) = NoSlot
    BY <1>1 DEF Find, FirstSlot
<1> QED BY <1>2 DEF has

-----------------------------------------------------------------------------
\* What each function of the table does to the map it stands for.
Same(t, u, S) == \A k \in S : /\ has(u, k) <=> has(t, k)
                              /\ has(t, k) => get(u, k) = get(t, k)

\* add() of a key that is not in the table.
LEMMA AddEntry ==
    ASSUME NEW t, NEW n \in Nat, Table(t, n), NEW m \in Nat, n <= m, NEW item
    PROVE  LET u == add(t, m, item) IN
           /\ Table(u, m + 1)
           /\ ~has(t, m)
           /\ Same(t, u, Nat \ {m})
           /\ u = t \/ (has(u, m) /\ Unused(t) # {})
           /\ u = t <=> Unused(t) = {}
           /\ Unused(t) # {} => has(u, m) /\ get(u, m) = item
<1> DEFINE u == add(t, m, item)
           s == FirstSlot(m, Unused(t))
<1>0. PICK D : Record(t, D)
    BY DEF Table
<1>1. Unused(t) \subseteq Slots /\ NoSlot \notin Slots
    BY CapacityAssumption DEF Unused, NoSlot, Slots
<1>2. (s = NoSlot /\ Unused(t) = {}) \/ (s \in Unused(t) /\ s # NoSlot)
    BY <1>1, FirstSlotIn
<1>3. u = IF s = NoSlot THEN t ELSE [t EXCEPT !.used[s] = TRUE, !.keys[s] = m,
                                              !.data[s] = item, !.item_count = @ + 1]
    BY DEF add
<1>4. ~has(t, m)
    BY FindEntry DEF Table, KeysBelow, Record
<1> HIDE DEF u, s
<1>5. CASE s = NoSlot
  <2>1. u = t
    BY <1>3, <1>5
  <2>2. Table(t, m + 1)
    BY DEF Table, KeysBelow, Record
  <2> QED BY <1>2, <1>4, <1>5, <1>1, <2>1, <2>2 DEF Same, u
<1>6. CASE s # NoSlot
  <2>1. s \in Slots /\ ~t.used[s]
    BY <1>2, <1>6 DEF Unused
  <2> DEFINE used == [t.used EXCEPT ![s] = TRUE]
             keys == [t.keys EXCEPT ![s] = m]
             data == [t.data EXCEPT ![s] = item]
             E == D \cup {item}
  <2>2. used \in [Slots -> BOOLEAN] /\ keys \in [Slots -> Nat] /\ data \in [Slots -> E]
        /\ t.item_count + 1 \in Int
    <3>1. used \in [Slots -> BOOLEAN]
        BY <1>0, <2>1 DEF Record
    <3>2. keys \in [Slots -> Nat]
        BY <1>0, <2>1 DEF Record
    <3>3. data \in [Slots -> E]
        BY <1>0, <2>1 DEF Record
    <3>4. t.item_count + 1 \in Int
        BY <1>0 DEF Record
    <3> QED BY <3>1, <3>2, <3>3, <3>4
  <2>3. u = [t EXCEPT !.used = used, !.keys = keys, !.data = data,
                      !.item_count = t.item_count + 1]
    BY <1>3, <1>6
  <2>4. /\ used[s] /\ keys[s] = m /\ data[s] = item
        /\ \A r \in Slots : r # s => used[r] = t.used[r] /\ keys[r] = t.keys[r]
                                     /\ data[r] = t.data[r]
    BY <1>0, <2>1 DEF Record
  <2> HIDE DEF used, keys, data, E
  <2>5. Record(u, E) /\ u.used = used /\ u.keys = keys /\ u.data = data
    BY <1>0, <2>2, <2>3 DEF Record
  <2>6. UniqueKeys(u)
    BY <2>1, <2>4, <2>5 DEF Table, UniqueKeys, KeysBelow
  <2>7. KeysBelow(u, m + 1)
    BY <1>0, <2>1, <2>4, <2>5 DEF Table, KeysBelow, Record
  <2>8. Table(u, m + 1)
    BY <2>5, <2>6, <2>7 DEF Table
  <2>9. has(u, m) /\ get(u, m) = item
    BY <2>1, <2>4, <2>5, <2>8, FindEntry
  <2>11. u # t
    BY <1>4, <2>9
  <2>10. ASSUME NEW k \in Nat \ {m}
         PROVE  /\ has(u, k) <=> has(t, k)
                /\ has(t, k) => get(u, k) = get(t, k)
    <3>1. \A r \in Slots : (u.used[r] /\ u.keys[r] = k) <=> (t.used[r] /\ t.keys[r] = k)
        BY <2>1, <2>4, <2>5
    <3>2. has(u, k) <=> has(t, k)
        BY <2>8, <3>1, FindEntry
    <3>3. ASSUME has(t, k) PROVE get(u, k) = get(t, k)
      <4>1. PICK r \in Slots : t.used[r] /\ t.keys[r] = k
        BY <3>3, FindEntry
      <4>2. get(t, k) = t.data[r] /\ get(u, k) = u.data[r]
        BY <2>8, <3>1, <4>1, FindEntry
      <4> QED BY <2>1, <2>4, <2>5, <4>1, <4>2
    <3> QED BY <3>2, <3>3
  <2> QED BY <1>2, <1>4, <1>6, <2>8, <2>9, <2>10, <2>11 DEF Same, u
<1> QED BY <1>5, <1>6

\* A setter: it writes the entry of key if there is one.
LEMMA SetEntry ==
    ASSUME NEW t, NEW n \in Nat, Table(t, n), NEW key, NEW item
    PROVE  LET u == SetField(t, key, item) IN
           /\ Table(u, n)
           /\ Same(t, u, Nat \ {key})
           /\ key \in Nat => (has(u, key) <=> has(t, key))
           /\ has(t, key) => key \in Nat /\ key < n
           /\ ~has(t, key) => u = t
           /\ has(t, key) => get(u, key) = item
<1> DEFINE u == SetField(t, key, item)
           s == Find(t, key)
<1>0. PICK D : Record(t, D)
    BY DEF Table
<1>1. u = IF has(t, key) THEN [t EXCEPT !.data[s] = item] ELSE t
    BY DEF SetField, put
<1>2. has(t, key) => key \in Nat
    BY FindNothing
<1> HIDE DEF u
<1>3. CASE ~has(t, key)
  <2>1. u = t
    BY <1>1, <1>3
  <2> QED BY <1>3, <2>1 DEF Same, u
<1>4. CASE has(t, key)
  <2>1. s \in Slots /\ t.used[s] /\ t.keys[s] = key
    BY <1>2, <1>4, FindEntry
  <2>2. key \in Nat /\ key < n
    BY <1>2, <1>4, <2>1 DEF Table, KeysBelow
  <2> HIDE DEF s
  <2> DEFINE data == [t.data EXCEPT ![s] = item]
             E == D \cup {item}
  <2>3. data \in [Slots -> E] /\ \A r \in Slots : r # s => data[r] = t.data[r]
    BY <1>0, <2>1 DEF Record
  <2>4. u = [t EXCEPT !.data = data]
    BY <1>1, <1>4
  <2> HIDE DEF data, E
  <2>5. Record(u, E) /\ u.used = t.used /\ u.keys = t.keys /\ u.data = data
    BY <1>0, <2>3, <2>4 DEF Record
  <2>6. Table(u, n)
    BY <2>5 DEF Table, UniqueKeys, KeysBelow
  <2>7. \A k \in Nat : has(u, k) <=> has(t, k)
    BY <2>5, <2>6, FindEntry
  <2>8. ASSUME NEW k \in Nat \ {key}, has(t, k) PROVE get(u, k) = get(t, k)
    <3>1. PICK r \in Slots : t.used[r] /\ t.keys[r] = k
        BY <2>8, FindEntry
    <3>2. get(t, k) = t.data[r] /\ get(u, k) = u.data[r]
        BY <2>5, <2>6, <3>1, FindEntry
    <3>3. r # s
        BY <2>1, <3>1
    <3> QED BY <2>3, <2>5, <3>2, <3>3
  <2>9. get(u, key) = item
    <3>1. data[s] = item
        BY <1>0, <2>1 DEF Record, data
    <3> QED BY <2>1, <2>2, <2>5, <2>6, <3>1, FindEntry
  <2> QED BY <1>4, <2>2, <2>6, <2>7, <2>8, <2>9 DEF Same, u
<1> QED BY <1>3, <1>4

\* remove() of any key.
LEMMA RemoveEntry ==
    ASSUME NEW t, NEW n \in Nat, Table(t, n), NEW key \in Nat
    PROVE  LET u == remove(t, key) IN
           /\ Table(u, n)
           /\ Same(t, u, Nat \ {key})
           /\ ~has(u, key)
           /\ ~has(t, key) => u = t
<1> DEFINE u == remove(t, key)
           s == Find(t, key)
<1>0. PICK D : Record(t, D)
    BY DEF Table
<1>1. u = IF has(t, key) THEN [t EXCEPT !.used[s] = FALSE, !.item_count = @ - 1] ELSE t
    BY DEF remove, has, Find
<1> HIDE DEF u
<1>3. CASE ~has(t, key)
  <2>1. u = t
    BY <1>1, <1>3
  <2> QED BY <1>3, <2>1 DEF Same, u
<1>4. CASE has(t, key)
  <2>1. s \in Slots /\ t.used[s] /\ t.keys[s] = key
    BY <1>4, FindEntry
  <2> HIDE DEF s
  <2> DEFINE used == [t.used EXCEPT ![s] = FALSE]
  <2>3. /\ used \in [Slots -> BOOLEAN] /\ ~used[s]
        /\ \A r \in Slots : r # s => used[r] = t.used[r]
        /\ t.item_count - 1 \in Int
    BY <1>0, <2>1 DEF Record
  <2>4. u = [t EXCEPT !.used = used, !.item_count = t.item_count - 1]
    BY <1>1, <1>4
  <2> HIDE DEF used
  <2>5. Record(u, D) /\ u.used = used /\ u.keys = t.keys /\ u.data = t.data
    BY <1>0, <2>3, <2>4 DEF Record
  <2>6. Table(u, n)
    <3>1. \A r \in Slots : used[r] => t.used[r]
        BY <2>3
    <3> QED BY <2>5, <3>1 DEF Table, UniqueKeys, KeysBelow
  <2>7. \A r \in Slots : used[r] => t.keys[r] # key
    BY <2>1, <2>3 DEF Table, UniqueKeys
  <2>8. ~has(u, key)
    BY <2>5, <2>6, <2>7, FindEntry
  <2>9. ASSUME NEW k \in Nat \ {key}
        PROVE  /\ has(u, k) <=> has(t, k)
               /\ has(t, k) => get(u, k) = get(t, k)
    <3>1. \A r \in Slots : (u.used[r] /\ u.keys[r] = k) <=> (t.used[r] /\ t.keys[r] = k)
        BY <2>1, <2>3, <2>5
    <3>2. has(u, k) <=> has(t, k)
        BY <2>6, <3>1, FindEntry
    <3>3. ASSUME has(t, k) PROVE get(u, k) = get(t, k)
      <4>1. PICK r \in Slots : t.used[r] /\ t.keys[r] = k
        BY <3>3, FindEntry
      <4> QED BY <2>5, <2>6, <3>1, <4>1, FindEntry
    <3> QED BY <3>2, <3>3
  <2> QED BY <1>4, <2>6, <2>8, <2>9 DEF Same, u
<1> QED BY <1>3, <1>4

-----------------------------------------------------------------------------
\* A step from table t to table u as the abstract map sees it.
AddStep(t, u, k) ==
    /\ k \notin DOMAIN Entries(t, Ids)
    /\ Cardinality(DOMAIN Entries(t, Ids)) < HASHTABLE_CAPACITY
    /\ DOMAIN Entries(u, Ids) = DOMAIN Entries(t, Ids) \cup {k}
    /\ \A j \in DOMAIN Entries(t, Ids) : Entries(u, Ids)[j] = Entries(t, Ids)[j]
UpdateStep(t, u, k) ==
    /\ k \in DOMAIN Entries(t, Ids)
    /\ DOMAIN Entries(u, Ids) = DOMAIN Entries(t, Ids)
    /\ \A j \in DOMAIN Entries(t, Ids) \ {k} : Entries(u, Ids)[j] = Entries(t, Ids)[j]
DeleteStep(t, u, k) ==
    /\ k \in DOMAIN Entries(t, Ids)
    /\ DOMAIN Entries(u, Ids) = DOMAIN Entries(t, Ids) \ {k}
    /\ \A j \in DOMAIN Entries(t, Ids) \ {k} : Entries(u, Ids)[j] = Entries(t, Ids)[j]
MapStep(t, u) ==
    \/ Entries(u, Ids) = Entries(t, Ids)
    \/ \E k \in Ids : AddStep(t, u, k) \/ UpdateStep(t, u, k) \/ DeleteStep(t, u, k)

LEMMA EntriesDomain ==
    ASSUME NEW t
    PROVE  /\ DOMAIN Entries(t, Ids) = {k \in Ids : has(t, k)}
           /\ \A k \in Ids : has(t, k) => Entries(t, Ids)[k] = get(t, k)
    BY DEF Entries

\* A table with an unused slot has fewer entries than slots.
LEMMA FewerEntries ==
    ASSUME NEW t, NEW n, Table(t, n), Unused(t) # {}
    PROVE  Cardinality({k \in Ids : has(t, k)}) < HASHTABLE_CAPACITY
<1> DEFINE U == {s \in Slots : t.used[s]}
           K == {k \in Ids : has(t, k)}
           V == {s \in U : t.keys[s] \in K}
           f == [s \in V |-> t.keys[s]]
<1>1. IsFiniteSet(Slots) /\ Cardinality(Slots) = HASHTABLE_CAPACITY
  <2>1. 0 \in Int /\ HASHTABLE_CAPACITY - 1 \in Int
    BY CapacityAssumption
  <2> QED BY <2>1, FS_Interval, CapacityAssumption DEF Slots
<1>2. V \in SUBSET Slots /\ V # Slots
    BY DEF Unused
<1>3. IsFiniteSet(V) /\ Cardinality(V) <= Cardinality(Slots) /\ Cardinality(Slots) # Cardinality(V)
    BY <1>1, <1>2, FS_Subset
<1>4. \A k \in K : \E s \in V : f[s] = k
  <2> SUFFICES ASSUME NEW k \in K PROVE \E s \in V : f[s] = k
    OBVIOUS
  <2>1. k \in Nat /\ has(t, k)
    BY DEF Ids
  <2>2. PICK s \in Slots : t.used[s] /\ t.keys[s] = k
    BY <2>1, FindEntry
  <2> QED BY <2>2
<1>5. f \in Surjection(V, K)
  <2>1. f \in [V -> K]
    OBVIOUS
  <2> QED BY <1>4, <2>1 DEF Surjection
<1> HIDE DEF V, K, f
<1>6. Cardinality(K) <= Cardinality(V) /\ IsFiniteSet(K)
    BY <1>3, <1>5, FS_Surjection
<1>7. Cardinality(V) \in Nat /\ Cardinality(K) \in Nat
    BY <1>3, <1>6, FS_CardinalityType
<1> QED BY <1>1, <1>3, <1>6, <1>7, CapacityAssumption DEF K

\* Tables with the same entries are the same map.
LEMMA SameMap ==
    ASSUME NEW t, NEW u, Same(t, u, Ids)
    PROVE  Entries(u, Ids) = Entries(t, Ids)
    BY DEF Same, Entries

\* A new inode, on whose entry a setter may follow.
LEMMA CreateStep ==
    ASSUME NEW t, NEW n \in Ids, Table(t, n), NEW item, NEW other
    PROVE  LET u == add(t, n, item)
               v == SetField(u, n, other)
           IN  Table(u, n + 1) /\ Table(v, n + 1) /\ MapStep(t, u) /\ MapStep(t, v)
<1> DEFINE u == add(t, n, item)
           v == SetField(u, n, other)
<1>0. n \in Nat /\ n + 1 \in Nat /\ Ids \subseteq Nat
    BY DEF Ids
<1>1. /\ Table(u, n + 1) /\ ~has(t, n) /\ Same(t, u, Nat \ {n})
      /\ u = t \/ (has(u, n) /\ Unused(t) # {})
  <2>1. n <= n
    BY <1>0
  <2> QED BY <1>0, <2>1, AddEntry
<1> HIDE DEF u
<1>2. /\ Table(v, n + 1) /\ Same(u, v, Nat \ {n}) /\ (has(v, n) <=> has(u, n))
      /\ ~has(u, n) => v = u
    BY <1>0, <1>1, SetEntry
<1> HIDE DEF v
<1>3. CASE u = t
  <2>1. v = t
    BY <1>1, <1>2, <1>3
  <2> QED BY <1>1, <1>2, <1>3, <2>1 DEF MapStep, u, v
<1>4. CASE has(u, n) /\ Unused(t) # {}
  <2>1. ASSUME NEW w, has(w, n), Same(t, w, Nat \ {n}) PROVE MapStep(t, w)
    <3>1. Cardinality(DOMAIN Entries(t, Ids)) < HASHTABLE_CAPACITY
        BY <1>4, EntriesDomain, FewerEntries
    <3>2. \A j \in Ids : j # n => (has(w, j) <=> has(t, j)) /\ (has(t, j) => get(w, j) = get(t, j))
        BY <1>0, <2>1 DEF Same
    <3>3. n \notin DOMAIN Entries(t, Ids)
        BY <1>1, EntriesDomain
    <3>4. DOMAIN Entries(w, Ids) = DOMAIN Entries(t, Ids) \cup {n}
        BY <2>1, <3>2, EntriesDomain
    <3>5. \A j \in DOMAIN Entries(t, Ids) : Entries(w, Ids)[j] = Entries(t, Ids)[j]
        BY <1>1, <3>2, EntriesDomain
    <3> QED BY <3>1, <3>3, <3>4, <3>5 DEF MapStep, AddStep
  <2>2. Same(t, v, Nat \ {n})
    BY <1>1, <1>2 DEF Same
  <2>3. MapStep(t, u)
    BY <1>1, <1>4, <2>1
  <2>4. MapStep(t, v)
    BY <1>2, <1>4, <2>1, <2>2
  <2> QED BY <1>1, <1>2, <2>3, <2>4 DEF u, v
<1> QED BY <1>1, <1>3, <1>4

\* A setter of an inode, which may not exist.
LEMMA SetStep ==
    ASSUME NEW t, NEW n \in 0 .. MaxInodes, Table(t, n), NEW key, NEW item
    PROVE  Table(SetField(t, key, item), n) /\ MapStep(t, SetField(t, key, item))
<1> DEFINE u == SetField(t, key, item)
<1>0. n \in Nat /\ Ids \subseteq Nat
    BY DEF Ids
<1>1. /\ Table(u, n) /\ Same(t, u, Nat \ {key})
      /\ key \in Nat => (has(u, key) <=> has(t, key))
      /\ has(t, key) => key \in Nat /\ key < n
      /\ ~has(t, key) => u = t
    BY <1>0, SetEntry
<1> HIDE DEF u
<1>2. CASE ~has(t, key)
    BY <1>1, <1>2 DEF MapStep, u
<1>3. CASE has(t, key)
  <2>1. key \in Ids
    BY <1>0, <1>1, <1>3, VfsAssumption DEF Ids
  <2>2. \A j \in Ids : /\ has(u, j) <=> has(t, j)
                       /\ j # key /\ has(t, j) => get(u, j) = get(t, j)
    <3>1. \A j \in Ids : j # key => /\ has(u, j) <=> has(t, j)
                                    /\ has(t, j) => get(u, j) = get(t, j)
        BY <1>0, <1>1 DEF Same
    <3> QED BY <1>1, <2>1, <3>1 DEF Ids
  <2>3. key \in DOMAIN Entries(t, Ids)
    BY <1>3, <2>1, EntriesDomain
  <2>4. DOMAIN Entries(u, Ids) = DOMAIN Entries(t, Ids)
    BY <2>2, EntriesDomain
  <2>5. \A j \in DOMAIN Entries(t, Ids) \ {key} : Entries(u, Ids)[j] = Entries(t, Ids)[j]
    BY <2>2, EntriesDomain
  <2>6. MapStep(t, u)
    BY <2>1, <2>3, <2>4, <2>5 DEF MapStep, UpdateStep
  <2> QED BY <1>1, <2>6 DEF u
<1> QED BY <1>2, <1>3

\* remove() of an inode, which may not exist.
LEMMA RemoveStep ==
    ASSUME NEW t, NEW n \in 0 .. MaxInodes, Table(t, n), NEW key \in Ids
    PROVE  Table(remove(t, key), n) /\ MapStep(t, remove(t, key))
<1> DEFINE u == remove(t, key)
<1>0. n \in Nat /\ Ids \subseteq Nat
    BY DEF Ids
<1>1. Table(u, n) /\ Same(t, u, Nat \ {key}) /\ ~has(u, key) /\ (~has(t, key) => u = t)
    BY <1>0, RemoveEntry
<1> HIDE DEF u
<1>2. CASE ~has(t, key)
    BY <1>1, <1>2 DEF MapStep, u
<1>3. CASE has(t, key)
  <2>1. \A j \in Ids : j # key => /\ has(u, j) <=> has(t, j)
                                  /\ has(t, j) => get(u, j) = get(t, j)
    BY <1>0, <1>1 DEF Same
  <2>2. key \in DOMAIN Entries(t, Ids)
    BY <1>3, EntriesDomain
  <2>3. DOMAIN Entries(u, Ids) = DOMAIN Entries(t, Ids) \ {key}
    BY <1>1, <2>1, EntriesDomain
  <2>4. \A j \in DOMAIN Entries(t, Ids) \ {key} : Entries(u, Ids)[j] = Entries(t, Ids)[j]
    BY <2>1, EntriesDomain
  <2> QED BY <1>1, <2>2, <2>3, <2>4 DEF MapStep, DeleteStep, u
<1> QED BY <1>2, <1>3

-----------------------------------------------------------------------------
LEMMA InitIInv == Init => IInv /\ DOMAIN Entries(inode_table, Ids) = {}
<1> SUFFICES ASSUME Init PROVE IInv /\ DOMAIN Entries(inode_table, Ids) = {}
    OBVIOUS
<1> DEFINE item == NewInode(ID_INVALID, "DIRECTORY")
<1>1. inode_table = EmptyTable(item) /\ inode_counter = 0
    BY DEF Init
<1> HIDE DEF item
<1>2. Record(inode_table, {item}) /\ inode_table.used = [s \in Slots |-> FALSE]
    BY <1>1 DEF EmptyTable, Record
<1>3. Table(inode_table, 0)
    BY <1>2 DEF Table, UniqueKeys, KeysBelow
<1>4. \A k \in Ids : ~has(inode_table, k)
  <2>1. Ids \subseteq Nat
    BY DEF Ids
  <2> QED BY <1>2, <1>3, <2>1, FindEntry
<1>5. DOMAIN Entries(inode_table, Ids) = {}
    BY <1>4, EntriesDomain
<1> QED BY <1>1, <1>3, <1>5, VfsAssumption DEF IInv

\* Every step keeps the invariant and is a step of the map.
LEMMA NextIInv ==
    ASSUME IInv, [Next]_vars
    PROVE  IInv' /\ MapStep(inode_table, inode_table')
<1> DEFINE Good == IInv' /\ MapStep(inode_table, inode_table')
<1>0. inode_counter \in 0 .. MaxInodes /\ Table(inode_table, inode_counter)
    BY DEF IInv
<1>1. ASSUME UNCHANGED <<inode_table, inode_counter>> PROVE Good
    BY <1>0, <1>1 DEF IInv, MapStep, Table, Record, UniqueKeys, KeysBelow
<1>2. ASSUME NEW item, NEW other, CreateInode,
             \/ inode_table' = add(inode_table, inode_counter, item)
             \/ inode_table' = SetField(add(inode_table, inode_counter, item),
                                        inode_counter, other)
      PROVE  Good
  <2>1. /\ inode_counter \in Ids /\ inode_counter' = inode_counter + 1
        /\ inode_counter + 1 \in 0 .. MaxInodes
    BY <1>0, <1>2, VfsAssumption DEF CreateInode, Ids
  <2>2. Table(inode_table', inode_counter + 1) /\ MapStep(inode_table, inode_table')
    BY <1>0, <1>2, <2>1, CreateStep
  <2> QED BY <2>1, <2>2 DEF IInv, Table, Record, UniqueKeys, KeysBelow
<1>3. ASSUME NEW key, NEW item, inode_counter' = inode_counter,
             inode_table' = SetField(inode_table, key, item)
      PROVE  Good
  <2>1. Table(inode_table', inode_counter) /\ MapStep(inode_table, inode_table')
    BY <1>0, <1>3, SetStep
  <2> QED BY <1>0, <1>3, <2>1 DEF IInv, Table, Record, UniqueKeys, KeysBelow
<1>4. ASSUME NEW key \in Ids, inode_counter' = inode_counter,
             inode_table' = remove(inode_table, key)
      PROVE  Good
  <2>1. Table(inode_table', inode_counter) /\ MapStep(inode_table, inode_table')
    BY <1>0, <1>4, RemoveStep
  <2> QED BY <1>0, <1>4, <2>1 DEF IInv, Table, Record, UniqueKeys, KeysBelow
<1> SUFFICES Good
    OBVIOUS
<1> HIDE DEF Good
<1>5. CASE \/ \E a \in Archives : initrd_add(a)
           \/ initrd_init \/ initrd_descend \/ tar_next \/ boot_done
           \/ \E id \in 0 .. fs_counter - 1 : change_fs(id, ID_INVALID, "none") \/ delete_fs(id)
           \/ UNCHANGED vars
    BY <1>1, <1>5 DEF initrd_add, initrd_init, initrd_descend, tar_next, boot_done, change_fs,
       delete_fs, vars
<1>6. CASE initrd_create
    BY <1>2, <1>6 DEF initrd_create, create_fs, set_fs
<1>7. CASE initrd_create_inode
    BY <1>2, <1>7 DEF initrd_create_inode, set_fs
<1>8. CASE initrd_mount_child
    BY <1>3, <1>8 DEF initrd_mount_child, mount_child
<1>9. CASE initrd_set_vtable
    BY <1>3, <1>9 DEF initrd_set_vtable, set_vtable
<1>10. CASE pipe_create
    BY <1>2, <1>10 DEF pipe_create, set_vtable
<1>11. CASE pipe_mount
  <2>1. inode_table' = mount(inode_table, boot.ninode, PipePaths[boot.k])
        /\ inode_counter' = inode_counter
    BY <1>11 DEF pipe_mount
  <2> QED BY <1>1, <1>3, <2>1 DEF mount, mount_child
<1>12. CASE create_inode("NORMAL_FILE")
    BY <1>2, <1>12 DEF create_inode
<1>13. ASSUME NEW id \in Handles, change_type(id, "SYM_LINK") PROVE Good
    BY <1>3, <1>13 DEF change_type, set_type
<1>14. ASSUME NEW id \in Handles, delete_inode(id) PROVE Good
    BY <1>4, <1>14, VfsAssumption DEF delete_inode, Ids
<1> QED BY <1>5, <1>6, <1>7, <1>8, <1>9, <1>10, <1>11, <1>12, <1>13, <1>14 DEF Next

\* The inode table of every capacity, through boot and any calls of the
\* exported functions, implements the abstract map: add, get, the setters and
\* remove of hashtable_t never touch the entry of another inode.
THEOREM VfsInodeTableIsMap == Spec => InodeTableIsMap
<1>1. Init => Map!Init
    BY InitIInv DEF Map!Init
<1>2. ASSUME IInv, [Next]_vars PROVE [Map!Next]_(Entries(inode_table, Ids))
  <2>1. MapStep(inode_table, inode_table')
    BY <1>2, NextIInv
  <2>2. Entries(inode_table, Ids)' = Entries(inode_table', Ids)
    BY DEF Entries, has, get, Find, FirstSlot, Holding
  <2>3. CASE Entries(inode_table', Ids) = Entries(inode_table, Ids)
    BY <2>2, <2>3
  <2>4. ASSUME NEW k \in Ids, AddStep(inode_table, inode_table', k) PROVE Map!Next
    BY <2>2, <2>4 DEF AddStep, Map!Next, Map!Add, Map!Keeps, Cardinality, Map!Cardinality
  <2>5. ASSUME NEW k \in Ids, UpdateStep(inode_table, inode_table', k) PROVE Map!Next
    BY <2>2, <2>5 DEF UpdateStep, Map!Next, Map!Update, Map!Keeps
  <2>6. ASSUME NEW k \in Ids, DeleteStep(inode_table, inode_table', k) PROVE Map!Next
    BY <2>2, <2>6 DEF DeleteStep, Map!Next, Map!Delete, Map!Keeps
  <2> QED BY <2>1, <2>3, <2>4, <2>5, <2>6 DEF MapStep
<1>3. IInv /\ [Next]_vars => IInv'
    BY NextIInv
<1>4. Init => IInv
    BY InitIInv
<1> QED BY <1>1, <1>2, <1>3, <1>4, PTL DEF Spec, InodeTableIsMap, Map!Spec

-----------------------------------------------------------------------------
(***************************************************************************)
(* How many entries a table has.                                           *)
(***************************************************************************)

LEMMA SlotsFinite == IsFiniteSet(Slots) /\ Cardinality(Slots) = HASHTABLE_CAPACITY
<1>1. 0 \in Int /\ HASHTABLE_CAPACITY - 1 \in Int
    BY CapacityAssumption
<1> QED BY <1>1, FS_Interval, CapacityAssumption DEF Slots

Used(t) == {s \in Slots : t.used[s]}

LEMMA UsedFinite ==
    ASSUME NEW t
    PROVE  IsFiniteSet(Used(t)) /\ Cardinality(Used(t)) \in Nat
<1>1. Used(t) \in SUBSET Slots
    BY DEF Used
<1> QED BY <1>1, SlotsFinite, FS_Subset, FS_CardinalityType

\* item_count follows the entries.
LEMMA CountKept ==
    ASSUME NEW t, NEW n, Table(t, n), Counted(t), NEW key \in Nat, NEW item
    PROVE  Counted(add(t, key, item)) /\ Counted(remove(t, key))
<1>0. PICK D : Record(t, D)
    BY DEF Table
<1>1. t.item_count = Cardinality(Used(t)) /\ t.item_count \in Nat
    BY UsedFinite DEF Counted, size, Used
<1>2. Counted(add(t, key, item))
  <2> DEFINE u == add(t, key, item)
             s == FirstSlot(key, Unused(t))
  <2>1. Unused(t) \subseteq Slots /\ NoSlot \notin Slots
      BY CapacityAssumption DEF Unused, NoSlot, Slots
  <2>2. s = NoSlot \/ s \in Unused(t)
      BY <2>1, FirstSlotIn
  <2>3. u = IF s = NoSlot THEN t ELSE [t EXCEPT !.used[s] = TRUE, !.keys[s] = key,
                                                !.data[s] = item, !.item_count = @ + 1]
      BY DEF add
  <2> HIDE DEF u, s
  <2>4. CASE s = NoSlot
      BY <2>3, <2>4 DEF u
  <2>5. CASE s # NoSlot
    <3>1. s \in Slots /\ ~t.used[s]
        BY <2>2, <2>5 DEF Unused
    <3> DEFINE used == [t.used EXCEPT ![s] = TRUE]
    <3>2. u.used = used /\ u.item_count = t.item_count + 1
        BY <1>0, <2>3, <2>5 DEF Record
    <3>3. Used(u) = Used(t) \cup {s} /\ s \notin Used(t)
        BY <1>0, <3>1, <3>2 DEF Used, Record
    <3>4. Cardinality(Used(u)) = Cardinality(Used(t)) + 1
        BY <3>3, UsedFinite, FS_AddElement
    <3> QED BY <1>1, <3>2, <3>4 DEF Counted, size, Used, u
  <2> QED BY <2>4, <2>5
<1>3. Counted(remove(t, key))
  <2> DEFINE u == remove(t, key)
             s == Find(t, key)
  <2>1. Holding(t, key) \subseteq Slots
      BY DEF Holding
  <2>2. s = NoSlot \/ s \in Holding(t, key)
      BY <2>1, FirstSlotIn DEF Find
  <2>3. u = IF s = NoSlot THEN t ELSE [t EXCEPT !.used[s] = FALSE, !.item_count = @ - 1]
      BY DEF remove, Find
  <2> HIDE DEF u, s
  <2>4. CASE s = NoSlot
      BY <2>3, <2>4 DEF u
  <2>5. CASE s # NoSlot
    <3>1. s \in Slots /\ t.used[s]
        BY <2>2, <2>5 DEF Holding
    <3> DEFINE used == [t.used EXCEPT ![s] = FALSE]
    <3>2. u.used = used /\ u.item_count = t.item_count - 1
        BY <1>0, <2>3, <2>5 DEF Record
    <3>3. Used(u) = Used(t) \ {s} /\ s \in Used(t)
        BY <1>0, <3>1, <3>2 DEF Used, Record
    <3>4. Cardinality(Used(u)) = Cardinality(Used(t)) - 1
        BY <3>3, UsedFinite, FS_RemoveElement
    <3> QED BY <1>1, <3>2, <3>4 DEF Counted, size, Used, u
  <2> QED BY <2>4, <2>5
<1> QED BY <1>2, <1>3

LEMMA CountSet ==
    ASSUME NEW t, NEW n, Table(t, n), Counted(t), NEW key, NEW item
    PROVE  Counted(SetField(t, key, item))
<1>0. PICK D : Record(t, D)
    BY DEF Table
<1> DEFINE u == SetField(t, key, item)
<1>1. u.used = t.used /\ u.item_count = t.item_count
    BY <1>0 DEF SetField, put, Record
<1> QED BY <1>1 DEF Counted, size

\* A table whose keys are fewer than its slots has an unused one.
LEMMA RoomLeft ==
    ASSUME NEW t, NEW n \in Nat, Table(t, n), n < HASHTABLE_CAPACITY
    PROVE  Unused(t) # {}
<1> SUFFICES ASSUME Unused(t) = {} PROVE FALSE
    OBVIOUS
<1>0. PICK D : Record(t, D)
    BY DEF Table
<1>1. \A s \in Slots : t.used[s] /\ t.keys[s] \in 0 .. n - 1
    BY <1>0 DEF Unused, Table, KeysBelow, Record
<1> DEFINE f == [s \in Slots |-> t.keys[s]]
<1>2. f \in [Slots -> 0 .. n - 1]
    BY <1>1
<1>3. f \in Injection(Slots, 0 .. n - 1)
    BY <1>1, <1>2 DEF Table, UniqueKeys, Injection, IsInjective
<1>4. IsFiniteSet(0 .. n - 1) /\ Cardinality(0 .. n - 1) = n
  <2>1. 0 \in Int /\ n - 1 \in Int
      OBVIOUS
  <2> QED BY <2>1, FS_Interval
<1> HIDE DEF f
<1>5. HASHTABLE_CAPACITY <= n
    BY <1>3, <1>4, SlotsFinite, FS_Injection
<1> QED BY <1>5, CapacityAssumption

\* A table that has as many keys as slots has none.
LEMMA NoRoom ==
    ASSUME NEW t, NEW n, Table(t, n), HASHTABLE_CAPACITY <= MaxInodes,
           \A id \in 0 .. HASHTABLE_CAPACITY - 1 : has(t, id)
    PROVE  Unused(t) = {}
<1> SUFFICES ASSUME Unused(t) # {} PROVE FALSE
    OBVIOUS
<1> DEFINE K == {k \in Ids : has(t, k)}
<1>1. Cardinality(K) < HASHTABLE_CAPACITY
    BY FewerEntries
<1>2. Slots \in SUBSET K
    BY CapacityAssumption, VfsAssumption DEF Slots, Ids
<1>3. IsFiniteSet(K) /\ Cardinality(K) \in Nat
  <2>1. 0 \in Int /\ MaxInodes - 1 \in Int
      BY VfsAssumption
  <2>2. IsFiniteSet(Ids) /\ K \in SUBSET Ids
      BY <2>1, FS_Interval DEF Ids
  <2> QED BY <2>2, FS_Subset, FS_CardinalityType
<1> HIDE DEF K
<1>4. HASHTABLE_CAPACITY <= Cardinality(K)
    BY <1>2, <1>3, SlotsFinite, FS_Subset
<1> QED BY <1>1, <1>3, <1>4, CapacityAssumption

-----------------------------------------------------------------------------
(***************************************************************************)
(* Trees: what vfs.cpp walks along.                                        *)
(***************************************************************************)

AnyId == Ids \cup {ID_INVALID}
Text == Seq(STRING)
Kid == [inode : Ids, name : Text]
Names == Seq(Text)

\* The tree K gives each inode its children.
Trees == {K \in [AnyId -> Seq(Kid)] : K[ID_INVALID] = <<>>}

\* The first child of a name, or ID_INVALID, and the walk along a path.
Named(K, id, name) == {n \in 1 .. Len(K[id]) : K[id][n].name = name}
ChildIn(K, id, name) == IF Named(K, id, name) = {} THEN ID_INVALID
                        ELSE K[id][Min(Named(K, id, name))].inode
WalkStep(K) == [x \in AnyId \X Text |-> ChildIn(K, x[1], x[2])]
WalkIn(K, root, e) == CHOOSE v : Folded(v, AnyId, root, WalkStep(K), e)

-----------------------------------------------------------------------------
(* Children.                                                               *)

LEMMA FirstNamed ==
    ASSUME NEW K \in Trees, NEW id \in AnyId, NEW name, Named(K, id, name) # {}
    PROVE  LET n == Min(Named(K, id, name))
           IN  /\ n \in 1 .. Len(K[id]) /\ K[id][n].name = name
               /\ \A m \in 1 .. Len(K[id]) : K[id][m].name = name => n <= m
               /\ ChildIn(K, id, name) = K[id][n].inode
               /\ ChildIn(K, id, name) \in Ids /\ ChildIn(K, id, name) # ID_INVALID
<1>1. Named(K, id, name) \subseteq Nat
    BY DEF Named
<1>2. /\ Min(Named(K, id, name)) \in Named(K, id, name)
      /\ \A m \in Named(K, id, name) : Min(Named(K, id, name)) <= m
    BY <1>1, MinIn
<1>3. K[id] \in Seq(Kid)
    BY DEF Trees
<1>4. \A m \in 1 .. Len(K[id]) : K[id][m].inode \in Ids
  <2> SUFFICES ASSUME NEW m \in 1 .. Len(K[id]) PROVE K[id][m].inode \in Ids
      OBVIOUS
  <2>1. K[id][m] \in Kid
      BY <1>3, ElementOfSeq
  <2> QED BY <2>1 DEF Kid
<1>5. ID_INVALID \notin Ids
    BY DEF ID_INVALID, Ids
<1> QED BY <1>2, <1>4, <1>5 DEF Named, ChildIn

LEMMA ChildType ==
    ASSUME NEW K \in Trees, NEW id \in AnyId, NEW name
    PROVE  /\ ChildIn(K, id, name) \in AnyId
           /\ ChildIn(K, ID_INVALID, name) = ID_INVALID
           /\ K[id] = <<>> => ChildIn(K, id, name) = ID_INVALID
           /\ ChildIn(K, id, name) = ID_INVALID <=> Named(K, id, name) = {}
<1>1. \A i \in AnyId : K[i] = <<>> => Named(K, i, name) = {}
    BY DEF Named
<1>2. ID_INVALID \in AnyId /\ K[ID_INVALID] = <<>>
    BY DEF AnyId, Trees
<1>3. Named(K, ID_INVALID, name) = {}
    BY <1>1, <1>2
<1> QED BY <1>1, <1>3, FirstNamed DEF ChildIn, AnyId

-----------------------------------------------------------------------------
(***************************************************************************)
(* What an archive is made of.                                             *)
(***************************************************************************)

Digits == Seq(0 .. 7)
File == {f \in [elements : Names, flag : STRING, size : Digits] :
            /\ f.elements # <<>>
            /\ \A i \in 1 .. Len(f.elements) : IsName(f.elements[i])}
HeaderType == [filename : Text, size : Digits, typeflag : STRING]
Memory == Seq(HeaderType)

OctalStep == [x \in Nat \X (0 .. 7) |-> x[1] * 8 + x[2]]
JoinStep == [x \in Text \X Text |-> x[1] \o <<Separator>> \o x[2]]

\* The blocks of one file, and their number without the header.
Blocks(f) == (Octal(f.size) + BLOCK - 1) \div BLOCK
FileBlocks(f) == <<Header(Join(f), f.size, f.flag)>> \o [b \in 1 .. Blocks(f) |-> DataBlock]
TarStep == [x \in Memory \X File |-> x[1] \o FileBlocks(x[2])]

LEMMA OctalFold ==
    ASSUME NEW s \in Digits
    PROVE  Folded(Octal(s), Nat, 0, OctalStep, s) /\ Octal(s) \in Nat
<1> DEFINE N == Len(s)
           D == SUBSET (1 .. N)
           Eq(it) == it = [d \in D |-> IF d = {} THEN 0
                                       ELSE it[d \ {Max(d)}] * 8 + s[Max(d)]]
           it0 == CHOOSE it : Eq(it)
<1>0. s \in Seq(0 .. 7)
    BY DEF Digits
<1>1. N \in Nat /\ DOMAIN s = 1 .. N
    BY <1>0
<1>2. Octal(s) = it0[1 .. N]
    BY <1>1, Zenon DEF Octal, FoldLeft, MapThenFoldSet
<1>3. Foldable(Nat, 0 .. 7, 0, OctalStep, s)
    BY <1>0 DEF Foldable, OctalStep
<1>4. PICK it \in [D -> Nat] :
          /\ FoldsOver(it, 0, OctalStep, s)
          /\ \A d \in D : d # {} => it[d \ {Max(d)}] \in Nat /\ s[Max(d)] \in 0 .. 7
  <2>1. HasFold(Nat, 0 .. 7, 0, OctalStep, s)
      BY <1>3, FoldExists
  <2> QED BY <2>1 DEF HasFold
<1>5. Eq(it)
  <2> DEFINE R(d) == IF d = {} THEN 0 ELSE it[d \ {Max(d)}] * 8 + s[Max(d)]
  <2>1. \A d \in D : it[d] = R(d)
      BY <1>4 DEF FoldsOver, OctalStep
  <2> HIDE DEF R, D
  <2>2. it = [d \in D |-> R(d)]
      BY <2>1
  <2> QED BY <2>2 DEF R
<1>6. Eq(it0)
  <2> HIDE DEF Eq
  <2> QED BY <1>5
<1> HIDE DEF it0
<1>7. it0[{}] = 0
    BY <1>6
<1>8. ASSUME NEW d \in D, d # {}, it0[d \ {Max(d)}] \in Nat
      PROVE  it0[d] = OctalStep[<<it0[d \ {Max(d)}], s[Max(d)]>>]
  <2>1. it0[d] = it0[d \ {Max(d)}] * 8 + s[Max(d)]
      BY <1>6, <1>8
  <2>2. s[Max(d)] \in 0 .. 7
      BY <1>4, <1>8
  <2> QED BY <1>8, <2>1, <2>2 DEF OctalStep
<1>9. Unrolls(it0, Nat, 0, OctalStep, s)
    BY <1>7, <1>8 DEF Unrolls
<1> QED BY <1>2, <1>3, <1>9, FoldUnroll, FoldedIn

LEMMA SingleIn ==
    ASSUME NEW S, NEW x \in S
    PROVE  <<x>> \in Seq(S)
    OBVIOUS

LEMMA TextJoin ==
    /\ Separator \in STRING /\ <<Separator>> \in Text
    /\ \A s, t \in Text : s \o t \in Text /\ s \o <<Separator>> \o t \in Text
<1> DEFINE S == STRING
<1>1. Separator \in STRING
    BY StringAssumption, Zenon
<1>2. Separator \in S /\ Text = Seq(S)
    BY <1>1, Zenon DEF Text
<1> HIDE DEF S
<1>3. <<Separator>> \in Seq(S)
    BY <1>2, SingleIn
<1>4. \A s, t \in Seq(S) : s \o t \in Seq(S)
    BY ConcatProperties
<1> QED BY <1>1, <1>2, <1>3, <1>4

\* A path that tar writes is a sequence of characters.
LEMMA JoinFold ==
    ASSUME NEW e \in Names, NEW first \in Text
    PROVE  Folded(FoldLeft(LAMBDA s, x : s \o <<Separator>> \o x, first, e),
                  Text, first, JoinStep, e)
<1> DEFINE N == Len(e)
           D == SUBSET (1 .. N)
           Eq(it) == it = [d \in D |-> IF d = {} THEN first
                                       ELSE it[d \ {Max(d)}] \o <<Separator>> \o e[Max(d)]]
           it0 == CHOOSE it : Eq(it)
<1>0. e \in Seq(Text)
    BY DEF Names
<1>1. N \in Nat /\ DOMAIN e = 1 .. N
    BY <1>0
<1>2. FoldLeft(LAMBDA s, x : s \o <<Separator>> \o x, first, e) = it0[1 .. N]
    BY <1>1, Zenon DEF FoldLeft, MapThenFoldSet
<1>3. Foldable(Text, Text, first, JoinStep, e)
  <2>1. \A s, x \in Text : s \o <<Separator>> \o x \in Text
      BY TextJoin
  <2> QED BY <1>0, <2>1 DEF Foldable, JoinStep
<1>4. PICK it \in [D -> Text] :
          /\ FoldsOver(it, first, JoinStep, e)
          /\ \A d \in D : d # {} => it[d \ {Max(d)}] \in Text /\ e[Max(d)] \in Text
  <2>1. HasFold(Text, Text, first, JoinStep, e)
      BY <1>3, FoldExists
  <2> QED BY <2>1 DEF HasFold
<1>5. Eq(it)
  <2> DEFINE R(d) == IF d = {} THEN first ELSE it[d \ {Max(d)}] \o <<Separator>> \o e[Max(d)]
  <2>1. \A d \in D : it[d] = R(d)
      BY <1>4 DEF FoldsOver, JoinStep
  <2> HIDE DEF R, D
  <2>2. it = [d \in D |-> R(d)]
      BY <2>1
  <2> QED BY <2>2 DEF R
<1>6. Eq(it0)
  <2> HIDE DEF Eq
  <2> QED BY <1>5
<1> HIDE DEF it0
<1>7. it0[{}] = first
    BY <1>6
<1>8. ASSUME NEW d \in D, d # {}, it0[d \ {Max(d)}] \in Text
      PROVE  it0[d] = JoinStep[<<it0[d \ {Max(d)}], e[Max(d)]>>]
  <2>1. it0[d] = it0[d \ {Max(d)}] \o <<Separator>> \o e[Max(d)]
      BY <1>6, <1>8
  <2>2. e[Max(d)] \in Text
      BY <1>4, <1>8
  <2> QED BY <1>8, <2>1, <2>2 DEF JoinStep
<1>9. Unrolls(it0, Text, first, JoinStep, e)
    BY <1>7, <1>8 DEF Unrolls
<1> QED BY <1>2, <1>3, <1>9, FoldUnroll, Zenon

LEMMA JoinIn ==
    ASSUME NEW f \in File
    PROVE  /\ f.elements \in Names /\ f.size \in Digits /\ f.elements # <<>>
           /\ f.elements[1] \in Text /\ Tail(f.elements) \in Names
           /\ Join(f) \in Text
<1>1. f.elements \in Names /\ f.size \in Digits /\ f.elements # <<>>
    BY DEF File
<1> DEFINE e == f.elements
           sep == FoldLeft(LAMBDA s, x : s \o <<Separator>> \o x, e[1], Tail(e))
<1>2. e \in Seq(Text) /\ e # <<>>
    BY <1>1 DEF Names
<1> HIDE DEF e
<1>3. Len(e) \in Nat \ {0}
    BY <1>2, EmptySeq
<1>4. e[1] \in Text /\ Tail(e) \in Names
  <2>1. 1 \in 1 .. Len(e)
      BY <1>3
  <2> QED BY <1>2, <2>1, ElementOfSeq, HeadTailProperties DEF Names
<1>5. Folded(sep, Text, e[1], JoinStep, Tail(e))
    BY <1>4, JoinFold, Zenon
<1>6. Foldable(Text, Text, e[1], JoinStep, Tail(e))
    BY <1>4, TextJoin DEF Foldable, JoinStep, Names
<1>7. sep \in Text
  <2> HIDE DEF sep
  <2> QED BY <1>5, <1>6, FoldedIn
<1>8. Append(sep, Separator) \in Text
  <2> DEFINE S == STRING
  <2>1. Text = Seq(S) /\ Separator \in S
      BY TextJoin, Zenon DEF Text
  <2> HIDE DEF S, sep
  <2> QED BY <1>7, <2>1, AppendProperties
<1>9. Join(f) = IF f.flag = "5" THEN Append(sep, Separator) ELSE sep
    BY Zenon DEF Join, e
<1> QED BY <1>1, <1>4, <1>7, <1>8, <1>9, Zenon DEF e

LEMMA ZeroIn == ZeroBlock \in HeaderType /\ DataBlock \in HeaderType
<1>2. "x" \in STRING /\ "0" \in STRING
    BY StringAssumption, Zenon
<1>3. <<>> \in Text /\ <<"x">> \in Text
  <2> DEFINE S == STRING
             x == "x"
  <2>1. Text = Seq(S) /\ x \in S
      BY <1>2, Zenon DEF Text
  <2> HIDE DEF S, x
  <2>2. <<>> \in Text /\ <<x>> \in Text
      BY <2>1, SingleIn
  <2> QED BY <2>2 DEF x
<1>4. <<0>> \in Digits
    BY DEF Digits
<1>6. ZeroBlock \in HeaderType
    BY <1>2, <1>3, <1>4, Zenon DEF ZeroBlock, HeaderType, Header
<1>7. DataBlock \in HeaderType
    BY <1>2, <1>3, <1>4, Zenon DEF DataBlock, HeaderType, Header
<1> QED BY <1>6, <1>7

LEMMA FileBlocksIn ==
    ASSUME NEW f \in File
    PROVE  /\ Blocks(f) \in Nat
           /\ FileBlocks(f) \in Memory
           /\ Len(FileBlocks(f)) = 1 + Blocks(f)
           /\ FileBlocks(f)[1] = Header(Join(f), f.size, f.flag)
<1>1. Blocks(f) \in Nat
  <2>1. Octal(f.size) \in Nat
      BY JoinIn, OctalFold
  <2> DEFINE n == Octal(f.size)
  <2> HIDE DEF n
  <2>2. n \in Nat /\ BLOCK \in Nat \ {0}
      BY <2>1, VfsAssumption DEF n
  <2>3. (n + BLOCK - 1) \div BLOCK \in Nat
      BY <2>2
  <2> QED BY <2>3 DEF Blocks, n
<1>5. f.flag \in STRING
    BY DEF File
<1> DEFINE h == Header(Join(f), f.size, f.flag)
           data == [b \in 1 .. Blocks(f) |-> DataBlock]
<1>8. h \in HeaderType
    BY <1>5, JoinIn, Zenon DEF HeaderType, Header
<1> HIDE DEF h
<1>9. data \in Memory /\ Len(data) = Blocks(f)
  <2> DEFINE d == DataBlock
             n == Blocks(f)
  <2>1. d \in HeaderType /\ n \in Nat
      BY <1>1, ZeroIn
  <2> HIDE DEF d, n
  <2>2. [b \in 1 .. n |-> d] \in Seq(HeaderType) /\ Len([b \in 1 .. n |-> d]) = n
      BY <2>1
  <2> QED BY <2>2 DEF d, n, Memory
<1> HIDE DEF data
<1>10. <<h>> \in Memory /\ Len(<<h>>) = 1 /\ <<h>>[1] = h
    BY <1>8 DEF Memory
<1>11. /\ <<h>> \o data \in Memory /\ Len(<<h>> \o data) = 1 + Blocks(f)
       /\ (<<h>> \o data)[1] = h
  <2> DEFINE s == <<h>>
  <2>1. s \in Seq(HeaderType) /\ data \in Seq(HeaderType) /\ Len(s) = 1 /\ s[1] = h
        /\ Len(data) = Blocks(f)
      BY <1>9, <1>10 DEF Memory
  <2> HIDE DEF s
  <2>2. /\ s \o data \in Seq(HeaderType) /\ Len(s \o data) = Len(s) + Len(data)
        /\ \A i \in 1 .. Len(s) + Len(data) :
              (s \o data)[i] = IF i <= Len(s) THEN s[i] ELSE data[i - Len(s)]
      BY <2>1, ConcatProperties
  <2>3. s \o data \in Memory /\ Len(s \o data) = 1 + Blocks(f) /\ (s \o data)[1] = h
      BY <1>1, <2>1, <2>2 DEF Memory
  <2> QED BY <2>3 DEF s
<1> QED BY <1>1, <1>11 DEF FileBlocks, h, data

\* The blocks of the files of an archive, before the block that ends it.
Body(files) ==
    FoldLeft(LAMBDA mem, f : mem \o (<<Header(Join(f), f.size, f.flag)>>
                                     \o [b \in 1 .. Blocks(f) |-> DataBlock]), <<>>, files)

LEMMA TarFold ==
    ASSUME NEW files \in Seq(File)
    PROVE  /\ Tar(files) = Body(files) \o <<ZeroBlock>>
           /\ Foldable(Memory, File, <<>>, TarStep, files)
           /\ Folded(Body(files), Memory, <<>>, TarStep, files)
<1> DEFINE N == Len(files)
           D == SUBSET (1 .. N)
           Eq(it) == it = [d \in D |-> IF d = {} THEN <<>>
                                       ELSE it[d \ {Max(d)}] \o FileBlocks(files[Max(d)])]
           it0 == CHOOSE it : Eq(it)
<1>1. N \in Nat /\ DOMAIN files = 1 .. N
    OBVIOUS
<1>2. Body(files) = it0[1 .. N]
    BY <1>1, Zenon DEF FileBlocks, Body, FoldLeft, MapThenFoldSet
<1>2a. Tar(files) = Body(files) \o <<ZeroBlock>>
    BY Zenon DEF Tar, Body, Blocks
<1>3. Foldable(Memory, File, <<>>, TarStep, files)
  <2>1. <<>> \in Memory
      BY DEF Memory
  <2>2. \A m \in Memory, f \in File : m \o FileBlocks(f) \in Memory
      BY FileBlocksIn, ConcatProperties DEF Memory
  <2> QED BY <2>1, <2>2 DEF Foldable, TarStep
<1>4. PICK it \in [D -> Memory] :
          /\ FoldsOver(it, <<>>, TarStep, files)
          /\ \A d \in D : d # {} => it[d \ {Max(d)}] \in Memory /\ files[Max(d)] \in File
  <2>1. HasFold(Memory, File, <<>>, TarStep, files)
      BY <1>3, FoldExists
  <2> QED BY <2>1 DEF HasFold
<1>5. Eq(it)
  <2> DEFINE R(d) == IF d = {} THEN <<>> ELSE it[d \ {Max(d)}] \o FileBlocks(files[Max(d)])
  <2>1. \A d \in D : it[d] = R(d)
      BY <1>4 DEF FoldsOver, TarStep
  <2> HIDE DEF R, D
  <2>2. it = [d \in D |-> R(d)]
      BY <2>1
  <2> QED BY <2>2 DEF R
<1>6. Eq(it0)
  <2> HIDE DEF Eq
  <2> QED BY <1>5
<1> HIDE DEF it0
<1>7. it0[{}] = <<>>
    BY <1>6
<1>8. ASSUME NEW d \in D, d # {}, it0[d \ {Max(d)}] \in Memory
      PROVE  it0[d] = TarStep[<<it0[d \ {Max(d)}], files[Max(d)]>>]
  <2>1. it0[d] = it0[d \ {Max(d)}] \o FileBlocks(files[Max(d)])
      BY <1>6, <1>8
  <2>2. files[Max(d)] \in File
      BY <1>4, <1>8
  <2> QED BY <1>8, <2>1, <2>2 DEF TarStep
<1>9. Unrolls(it0, Memory, <<>>, TarStep, files)
    BY <1>7, <1>8 DEF Unrolls
<1> QED BY <1>2, <1>2a, <1>3, <1>9, FoldUnroll

-----------------------------------------------------------------------------
(***************************************************************************)
(* The elements of a path are names.                                       *)
(***************************************************************************)

\* Each element starts where the scan that looks for it stops.
LEMMA ElementFound ==
    ASSUME NEW S, NEW p \in Seq(S), NEW index \in 0 .. path_element_count(p) - 1
    PROVE  \E i \in Starts(p) : /\ Cardinality(UpTo(p, i - 1)) = index
                                /\ path_element_get(p, index) = CopyElement(p, i)
<1> DEFINE N == Len(p)
           before(i) == FoldLeft(Scan, ScanStart, SubSeq(p, 1, i - 1))
           Fits(j) == p[j] # Separator /\ before(j).separator /\ before(j).count = index
<1>1. N \in Nat
    OBVIOUS
<1>2. PICK f : IsScanned(f, p)
    BY ScanRounds
<1>3. /\ f \in [0 .. N -> Counts] /\ f[0] = ScanStart
      /\ \A n \in 1 .. N : f[n] = Scan(f[n - 1], p[n])
      /\ path_element_count(p) = f[N].count
    BY <1>2 DEF IsScanned, path_element_count
<1>4. index \in Nat /\ index < f[N].count
  <2>1. f[N].count \in Nat
      BY <1>1, <1>3 DEF Counts
  <2> QED BY <1>3, <2>1
<1>5. \A j \in 1 .. N : Fits(j) <=> j \in Starts(p) /\ Cardinality(UpTo(p, j - 1)) = index
  <2>1. \A j \in 1 .. N : /\ before(j).separator = (j = 1 \/ p[j - 1] = Separator)
                          /\ before(j).count = Cardinality(UpTo(p, j - 1))
      BY PrefixScan
  <2> HIDE DEF before
  <2> QED BY <2>1 DEF Starts
<1> HIDE DEF Fits
<1>6. \E j \in 1 .. N : Fits(j)
  <2> DEFINE T == {n \in 0 .. N : f[n].count > index}
             m == Min(T)
  <2>1. T \subseteq Nat /\ N \in T
      BY <1>1, <1>4
  <2>2. m \in T /\ \A x \in T : m <= x
      BY <2>1, MinIn
  <2> HIDE DEF m
  <2>3. 0 \notin T
      BY <1>3, <1>4 DEF ScanStart
  <2>4. m \in 1 .. N /\ m - 1 \in 0 .. N /\ m - 1 \notin T
      BY <1>1, <2>2, <2>3
  <2>5. f[m - 1] \in Counts /\ f[m - 1].count \in Nat
      BY <1>3, <2>4 DEF Counts
  <2>6. /\ f[m].count > index /\ f[m - 1].count <= index
        /\ f[m].count = IF p[m] # Separator /\ f[m - 1].separator THEN f[m - 1].count + 1
                        ELSE f[m - 1].count
    <3>1. f[m].count > index
        BY <2>2
    <3>2. f[m - 1].count <= index
        BY <1>4, <2>4, <2>5
    <3> QED BY <1>3, <2>4, <2>5, <3>1, <3>2, ScanIs
  <2>7. p[m] # Separator /\ f[m - 1].separator /\ f[m - 1].count = index
      BY <1>4, <2>5, <2>6
  <2>8. /\ f[m - 1].separator = (m - 1 = 0 \/ p[m - 1] = Separator)
        /\ f[m - 1].count = Cardinality(UpTo(p, m - 1))
      BY <1>2, <2>4, ScanCounts
  <2>8a. m = 1 \/ p[m - 1] = Separator
    <3>1. f[m - 1].separator \in BOOLEAN
        BY <2>5 DEF Counts
    <3>2. m - 1 = 0 \/ p[m - 1] = Separator
        BY <2>7, <2>8, <3>1, Zenon
    <3> QED BY <2>4, <3>2
  <2>9. m \in Starts(p)
      BY <2>4, <2>7, <2>8a DEF Starts
  <2>10. Cardinality(UpTo(p, m - 1)) = index
      BY <2>7, <2>8
  <2> QED BY <1>5, <2>4, <2>9, <2>10
<1> DEFINE j == CHOOSE j \in 1 .. N : Fits(j)
<1>7. j \in 1 .. N /\ Fits(j)
    BY <1>6
<1>8. path_element_get(p, index) = CopyElement(p, j)
    BY DEF path_element_get, Fits
<1> HIDE DEF j
<1> QED BY <1>5, <1>7, <1>8

\* The element that starts at i: it ends before a separator, at the end of
\* the path or where a name has no more room.
LEMMA CopyIs ==
    ASSUME NEW S, NEW p \in Seq(S), NEW i \in Starts(p)
    PROVE  \E j \in i .. Len(p) + 1 :
               /\ CopyElement(p, i) = SubSeq(p, i, j - 1) /\ CopyElement(p, i) \in Seq(S)
               /\ Len(CopyElement(p, i)) = j - i /\ j - i <= FILENAME_MAX - 1
               /\ \A k \in 1 .. j - i : CopyElement(p, i)[k] = p[i + k - 1]
               /\ \A k \in i .. j - 1 : p[k] # Separator
               /\ j = Len(p) + 1 \/ j = i + FILENAME_MAX - 1 \/ p[j] = Separator
<1> DEFINE N == Len(p)
           stops == {j \in i .. N : p[j] = Separator} \cup {N + 1, i + FILENAME_MAX - 1}
           j == CHOOSE j \in stops : \A k \in stops : j <= k
<1>1. N \in Nat /\ i \in 1 .. N /\ FILENAME_MAX \in Nat \ {0} /\ \A k \in 1 .. N : p[k] \in S
    BY FilenameAssumption, ElementOfSeq DEF Starts
<1>2. stops \subseteq Nat /\ stops # {} /\ N + 1 \in stops /\ i + FILENAME_MAX - 1 \in stops
    BY <1>1
<1>3. \E m \in stops : \A k \in stops : m <= k
  <2> HIDE DEF stops
  <2> QED BY <1>2, MinIn
<1>4. j \in stops /\ \A k \in stops : j <= k
    BY <1>3
<1>5. CopyElement(p, i) = SubSeq(p, i, j - 1)
    BY DEF CopyElement
<1> HIDE DEF j
<1>6. /\ j \in i .. N + 1 /\ j <= i + FILENAME_MAX - 1
      /\ j = N + 1 \/ j = i + FILENAME_MAX - 1 \/ p[j] = Separator
      /\ \A k \in i .. j - 1 : p[k] # Separator
  <2>1. j \in Nat /\ j <= N + 1 /\ j <= i + FILENAME_MAX - 1
      BY <1>2, <1>4
  <2>2. i <= j
      BY <1>1, <1>4
  <2>3. ASSUME NEW k \in i .. j - 1, p[k] = Separator PROVE FALSE
    <3>1. k \in i .. N
        BY <1>1, <2>1, <2>3
    <3>2. k \in stops
        BY <2>3, <3>1
    <3> QED BY <1>1, <1>4, <2>1, <2>3, <3>1, <3>2
  <2> QED BY <1>1, <1>4, <2>1, <2>2, <2>3
<1> HIDE DEF stops
<1> DEFINE d == SubSeq(p, i, j - 1)
<1>7. d \in Seq(S) /\ Len(d) = j - i /\ \A k \in 1 .. j - i : d[k] = p[i + k - 1]
  <2> DEFINE m == j - 1
  <2>1. i \in Int /\ m \in Int /\ \A k \in i .. m : p[k] \in S
      BY <1>1, <1>6
  <2> HIDE DEF m
  <2>2. /\ SubSeq(p, i, m) \in Seq(S)
        /\ Len(SubSeq(p, i, m)) = IF i <= m THEN m - i + 1 ELSE 0
        /\ \A k \in 1 .. m - i + 1 : SubSeq(p, i, m)[k] = p[i + k - 1]
      BY <2>1, SubSeqProperties
  <2> DEFINE c == SubSeq(p, i, m)
  <2> HIDE DEF c
  <2>3. c \in Seq(S) /\ (Len(c) = IF i <= m THEN m - i + 1 ELSE 0)
        /\ \A k \in 1 .. m - i + 1 : c[k] = p[i + k - 1]
      BY <2>2 DEF c
  <2>4. m - i + 1 = j - i /\ (i <= m \/ m - i + 1 = 0)
      BY <1>1, <1>6 DEF m
  <2>5. c \in Seq(S) /\ Len(c) = j - i /\ \A k \in 1 .. j - i : c[k] = p[i + k - 1]
      BY <2>3, <2>4
  <2> QED BY <2>5 DEF c, m
<1> HIDE DEF d
<1>8. j - i <= FILENAME_MAX - 1
    BY <1>1, <1>6
<1> QED BY <1>5, <1>6, <1>7, <1>8 DEF d

LEMMA CountType ==
    ASSUME NEW S, NEW p \in Seq(S)
    PROVE  path_element_count(p) \in Nat
<1>1. PICK f : IsScanned(f, p)
    BY ScanRounds
<1>2. Len(p) \in 0 .. Len(p)
    OBVIOUS
<1>3. f[Len(p)] \in Counts /\ path_element_count(p) = f[Len(p)].count
    BY <1>1, <1>2 DEF IsScanned, path_element_count
<1> QED BY <1>3 DEF Counts

LEMMA ElementsAre ==
    ASSUME NEW S, NEW p \in Seq(S)
    PROVE  /\ Elements(p) \in Seq(Seq(S)) /\ Len(Elements(p)) = path_element_count(p)
           /\ \A n \in 1 .. path_element_count(p) : Elements(p)[n] = path_element_get(p, n - 1)
<1> DEFINE N == path_element_count(p)
           g == [n \in 1 .. N |-> path_element_get(p, n - 1)]
<1>1. N \in Nat
    BY CountType
<1>2. \A n \in 1 .. N : path_element_get(p, n - 1) \in Seq(S)
  <2> SUFFICES ASSUME NEW n \in 1 .. N PROVE path_element_get(p, n - 1) \in Seq(S)
      OBVIOUS
  <2>1. n - 1 \in 0 .. N - 1
      BY <1>1
  <2>2. PICK i \in Starts(p) : path_element_get(p, n - 1) = CopyElement(p, i)
      BY <2>1, ElementFound
  <2> QED BY <2>2, CopyIs
<1>3. Elements(p) = g
    BY DEF Elements
<1> HIDE DEF N
<1>4. g \in Seq(Seq(S)) /\ Len(g) = N /\ \A n \in 1 .. N : g[n] = path_element_get(p, n - 1)
    BY <1>1, <1>2
<1> QED BY <1>3, <1>4 DEF N

LEMMA ElementsType ==
    ASSUME NEW p \in Text
    PROVE  Elements(p) \in Names
<1> DEFINE S == STRING
<1>1. p \in Seq(S) /\ Names = Seq(Seq(S))
    BY Zenon DEF Names, Text
<1> HIDE DEF S
<1> QED BY <1>1, ElementsAre

-----------------------------------------------------------------------------
(***************************************************************************)
(* What a step does to a table.                                            *)
(***************************************************************************)

\* A new entry, an entry that is written, one that is removed.
Made(t, u, n, new) ==
    /\ Table(u, n + 1) /\ Counted(u) /\ Same(t, u, Nat \ {n}) /\ ~has(t, n)
    /\ has(u, n) <=> Unused(t) # {}
    /\ has(u, n) => get(u, n) = new
Written(t, u, n, k, new) ==
    /\ Table(u, n) /\ Counted(u) /\ Same(t, u, Nat \ {k})
    /\ k \in Nat => (has(u, k) <=> has(t, k))
    /\ has(t, k) => k \in Nat /\ k < n /\ get(u, k) = new
Dropped(t, u, n, k) ==
    /\ Table(u, n) /\ Counted(u) /\ Same(t, u, Nat \ {k}) /\ ~has(u, k)

LEMMA MadeIs ==
    ASSUME NEW t, NEW n \in Nat, Table(t, n), Counted(t), NEW m \in Nat, n <= m, NEW item
    PROVE  Made(t, add(t, m, item), m, item)
<1> DEFINE u == add(t, m, item)
<1>1. /\ Table(u, m + 1) /\ ~has(t, m) /\ Same(t, u, Nat \ {m})
      /\ u = t <=> Unused(t) = {}
      /\ Unused(t) # {} => has(u, m) /\ get(u, m) = item
    BY AddEntry
<1>2. Counted(u)
    BY CountKept
<1> HIDE DEF u
<1>3. has(u, m) <=> Unused(t) # {}
    BY <1>1
<1> QED BY <1>1, <1>2, <1>3 DEF Made, u

LEMMA WrittenIs ==
    ASSUME NEW t, NEW n \in Nat, Table(t, n), Counted(t), NEW k, NEW item
    PROVE  /\ Written(t, SetField(t, k, item), n, k, item)
           /\ ~has(t, k) => SetField(t, k, item) = t
<1> DEFINE u == SetField(t, k, item)
<1>1. /\ Table(u, n) /\ Same(t, u, Nat \ {k})
      /\ k \in Nat => (has(u, k) <=> has(t, k))
      /\ has(t, k) => k \in Nat /\ k < n
      /\ ~has(t, k) => u = t
      /\ has(t, k) => get(u, k) = item
    BY SetEntry
<1>2. Counted(u)
    BY CountSet
<1> HIDE DEF u
<1> QED BY <1>1, <1>2 DEF Written, u

LEMMA DroppedIs ==
    ASSUME NEW t, NEW n \in Nat, Table(t, n), Counted(t), NEW k \in Nat
    PROVE  Dropped(t, remove(t, k), n, k)
<1> DEFINE u == remove(t, k)
<1>1. Table(u, n) /\ Same(t, u, Nat \ {k}) /\ ~has(u, k)
    BY RemoveEntry
<1>2. Counted(u)
    BY CountKept
<1> HIDE DEF u
<1> QED BY <1>1, <1>2 DEF Dropped, u

\* A new entry that is written at once.
LEMMA MadeThenWritten ==
    ASSUME NEW t, NEW n \in Nat, Table(t, n), Counted(t), NEW item, NEW other, NEW new,
           has(add(t, n, item), n) /\ get(add(t, n, item), n) = item => other = new
    PROVE  Made(t, SetField(add(t, n, item), n, other), n, new)
<1> DEFINE u == add(t, n, item)
           v == SetField(u, n, other)
<1>1. Made(t, u, n, item)
  <2>1. n <= n
      OBVIOUS
  <2> QED BY <2>1, MadeIs
<1> HIDE DEF u
<1>2. Table(u, n + 1) /\ Counted(u) /\ n + 1 \in Nat
    BY <1>1 DEF Made
<1>3. Written(u, v, n + 1, n, other)
    BY <1>2, WrittenIs
<1> HIDE DEF v
<1>4. Same(t, v, Nat \ {n})
    BY <1>1, <1>3 DEF Made, Written, Same
<1>5. has(u, n) => other = new
    BY <1>1 DEF Made, u
<1> QED BY <1>1, <1>3, <1>4, <1>5 DEF Made, Written, u, v

LEMMA TableMono ==
    ASSUME NEW t, NEW n \in Nat, Table(t, n), NEW m \in Nat, n <= m
    PROVE  Table(t, m)
<1>1. PICK D : Record(t, D)
    BY DEF Table
<1>2. \A s \in Slots : t.keys[s] \in Nat
    BY <1>1 DEF Record
<1>3. KeysBelow(t, m)
    BY <1>2 DEF Table, KeysBelow
<1> QED BY <1>3 DEF Table

LEMMA EmptyIs ==
    ASSUME NEW item
    PROVE  /\ Table(EmptyTable(item), 0) /\ Counted(EmptyTable(item))
           /\ \A k \in Nat : ~has(EmptyTable(item), k)
<1> DEFINE t == EmptyTable(item)
<1>1. Record(t, {item}) /\ t.used = [s \in Slots |-> FALSE] /\ t.item_count = 0
    BY DEF EmptyTable, Record
<1> HIDE DEF t
<1>2. Table(t, 0)
    BY <1>1 DEF Table, UniqueKeys, KeysBelow
<1>3. \A k \in Nat : ~has(t, k)
    BY <1>1, <1>2, FindEntry
<1>4. {s \in Slots : t.used[s]} = {}
    BY <1>1
<1>5. Counted(t)
    BY <1>1, <1>4, FS_EmptySet DEF Counted, size
<1> QED BY <1>2, <1>3, <1>5 DEF t

\* What the inode table holds.
Typed(t) == \A id \in Nat : has(t, id) => get(t, id) \in Inode /\ get(t, id).id = id

\* The entries of a table are where its keys are.
LEMMA TypedSlots ==
    ASSUME NEW t, NEW n, Table(t, n), Typed(t), NEW s \in Slots, t.used[s]
    PROVE  t.data[s] \in Inode /\ t.keys[s] = t.data[s].id /\ t.keys[s] < n
<1>1. PICK D : Record(t, D)
    BY DEF Table
<1>2. t.keys[s] \in Nat
    BY <1>1 DEF Record
<1>3. has(t, t.keys[s]) /\ get(t, t.keys[s]) = t.data[s]
    BY <1>2, FindEntry
<1> QED BY <1>2, <1>3 DEF Typed, Table, KeysBelow

-----------------------------------------------------------------------------
\* Entries of the inode table, as the setters write them.
Vtables == {"none", "initrd", "pipe"}
Link(x, c, name) == [x EXCEPT !.children = Append(@, [inode |-> c, name |-> name])]

LEMMA InodeFields ==
    Inode = [id : Ids, fs : Int, children : Seq(Kid), type : Types, vtable : Vtables]
    BY Zenon DEF Inode, Kid, Text, Vtables

LEMMA InodeIs ==
    ASSUME NEW x \in Inode
    PROVE  /\ \A ty \in Types : LET y == [x EXCEPT !.type = ty] IN
                  y \in Inode /\ y.id = x.id /\ y.children = x.children
                  /\ y.vtable = x.vtable /\ y.type = ty
           /\ \A v \in Vtables : LET y == [x EXCEPT !.vtable = v] IN
                  y \in Inode /\ y.id = x.id /\ y.children = x.children
                  /\ y.vtable = v /\ y.type = x.type
           /\ \A f \in Int : LET y == [x EXCEPT !.fs = f] IN
                  y \in Inode /\ y.id = x.id /\ y.children = x.children
                  /\ y.vtable = x.vtable /\ y.type = x.type
<1>1. x \in [id : Ids, fs : Int, children : Seq(Kid), type : Types, vtable : Vtables]
    BY InodeFields
<1>2. \A ty \in Types : LET y == [x EXCEPT !.type = ty] IN
          y \in [id : Ids, fs : Int, children : Seq(Kid), type : Types, vtable : Vtables]
          /\ y.id = x.id /\ y.children = x.children /\ y.vtable = x.vtable /\ y.type = ty
    BY <1>1
<1>3. \A v \in Vtables : LET y == [x EXCEPT !.vtable = v] IN
          y \in [id : Ids, fs : Int, children : Seq(Kid), type : Types, vtable : Vtables]
          /\ y.id = x.id /\ y.children = x.children /\ y.vtable = v /\ y.type = x.type
    BY <1>1
<1>4. \A f \in Int : LET y == [x EXCEPT !.fs = f] IN
          y \in [id : Ids, fs : Int, children : Seq(Kid), type : Types, vtable : Vtables]
          /\ y.id = x.id /\ y.children = x.children /\ y.vtable = x.vtable /\ y.type = x.type
    BY <1>1
<1> QED BY <1>2, <1>3, <1>4, InodeFields

LEMMA LinkIs ==
    ASSUME NEW x \in Inode, NEW c \in Ids, NEW name \in Text
    PROVE  LET y == Link(x, c, name) IN
           /\ y \in Inode /\ y.id = x.id /\ y.vtable = x.vtable /\ y.type = x.type
           /\ x.children \in Seq(Kid)
           /\ [inode |-> c, name |-> name] \in Kid
           /\ y.children = Append(x.children, [inode |-> c, name |-> name])
<1> DEFINE k == [inode |-> c, name |-> name]
           S == [id : Ids, fs : Int, children : Seq(Kid), type : Types, vtable : Vtables]
<1>1. x \in S /\ x.children \in Seq(Kid)
    BY InodeFields
<1>2. k \in Kid
    BY DEF Kid
<1> DEFINE e == Append(x.children, k)
<1>3. e \in Seq(Kid)
  <2> HIDE DEF k
  <2> QED BY <1>1, <1>2, AppendProperties
<1>4. Link(x, c, name) = [x EXCEPT !.children = e]
    BY DEF Link
<1> HIDE DEF e
<1>5. /\ [x EXCEPT !.children = e] \in S /\ [x EXCEPT !.children = e].id = x.id
      /\ [x EXCEPT !.children = e].vtable = x.vtable /\ [x EXCEPT !.children = e].type = x.type
      /\ [x EXCEPT !.children = e].children = e
    BY <1>1, <1>3
<1> QED BY <1>1, <1>2, <1>4, <1>5, InodeFields DEF e

LEMMA NewInodeIs ==
    ASSUME NEW id \in Ids, NEW type \in Types
    PROVE  LET x == NewInode(id, type) IN
           /\ x \in Inode /\ x.id = id /\ x.children = <<>> /\ x.type = type
           /\ x.vtable = "none"
<1> DEFINE S == [id : Ids, fs : Int, children : Seq(Kid), type : Types, vtable : Vtables]
           x == NewInode(id, type)
<1>1. <<>> \in Seq(Kid) /\ ID_INVALID \in Int /\ "none" \in Vtables
    BY DEF ID_INVALID, Vtables
<1>2. x \in S /\ x.id = id /\ x.children = <<>> /\ x.type = type /\ x.vtable = "none"
    BY <1>1 DEF NewInode
<1> QED BY <1>2, InodeFields

\* The tables stay typed.
LEMMA MadeTyped ==
    ASSUME NEW t, NEW u, NEW n \in Ids, NEW new \in Inode, Made(t, u, n, new), Typed(t),
           new.id = n
    PROVE  Typed(u)
    BY DEF Made, Typed, Same

LEMMA WrittenTyped ==
    ASSUME NEW t, NEW u, NEW n, NEW k, NEW new, Written(t, u, n, k, new), Typed(t),
           has(t, k) => new \in Inode /\ new.id = k
    PROVE  Typed(u)
<1> SUFFICES ASSUME NEW id \in Nat, has(u, id) PROVE get(u, id) \in Inode /\ get(u, id).id = id
    BY DEF Typed
<1>1. CASE id = k
    BY <1>1 DEF Written
<1>2. CASE id # k
    BY <1>2 DEF Written, Same, Typed
<1> QED BY <1>1, <1>2

LEMMA DroppedTyped ==
    ASSUME NEW t, NEW u, NEW n, NEW k, Dropped(t, u, n, k), Typed(t)
    PROVE  Typed(u)
    BY DEF Dropped, Typed, Same

-----------------------------------------------------------------------------
(***************************************************************************)
(* Types.                                                                  *)
(***************************************************************************)

PCs == {"add", "create_fs", "element", "create", "mount", "vtable", "pipe", "pipe_mount",
        "ready"}
BootType == [pc : PCs, k : Nat, b : Nat, i : Nat, cinode : AnyId, ninode : AnyId]
Disk == 0 .. INITRD_MAX - 1

\* Boot has an inode that no other variable knows of yet; it reads an archive.
New == boot.pc \in {"mount", "vtable", "pipe_mount"}
Reading == boot.pc \in {"element", "create", "mount", "vtable"}
Fresh == IF New THEN boot.ninode ELSE inode_counter

VfsTypes ==
    /\ inode_counter \in 0 .. MaxInodes /\ fs_counter \in 0 .. INITRD_MAX /\ vfs_root \in AnyId
    /\ boot \in BootType
    /\ initrds \in [Disk -> Memory]
    /\ archives \in [Disk -> Archives \cup {<<>>}]
    /\ Typed(inode_table)

Tables ==
    /\ Table(inode_table, inode_counter) /\ Counted(inode_table)
    /\ Table(fs_table, fs_counter) /\ Counted(fs_table)
    /\ Table(inodes, Fresh) /\ Counted(inodes)
    /\ Table(pipes, Fresh) /\ Counted(pipes)

\* Where boot is: a file system per disk, an element of the name that is read.
Place ==
    /\ New => boot.ninode \in Ids /\ boot.ninode + 1 = inode_counter
    /\ boot.pc \in {"create", "mount", "vtable"} => boot.i < Len(CurElements)
    /\ boot.pc = "element" => boot.i <= Len(CurElements)
    /\ boot.pc = "pipe" => boot.k \in 1 .. Len(PipePaths) + 1
    /\ boot.pc = "pipe_mount" => boot.k \in 1 .. Len(PipePaths)
    /\ boot.pc = "ready" => boot.k = Len(PipePaths) + 1
    /\ boot.pc = "add" => fs_counter = 0
    /\ boot.pc = "create_fs" => fs_counter <= boot.k /\ boot.k \in Disk
    /\ Reading => fs_counter <= boot.k + 1 /\ boot.k \in Disk
    /\ boot.pc \in {"create_fs"} \/ Reading => initrds[boot.k] # <<>>

TypeInv == VfsTypes /\ Tables /\ Place

LEMMA Invalid == ID_INVALID \notin Nat /\ ID_INVALID \notin Ids /\ ID_INVALID \in AnyId
                 /\ Ids \subseteq Nat /\ ID_INVALID = -1
    BY DEF ID_INVALID, Ids, AnyId

LEMMA ArchiveIn ==
    ASSUME NEW a \in Archives \cup {<<>>}
    PROVE  a \in Seq(File)
<1>1. CASE a = <<>>
    BY <1>1
<1>2. CASE a \in Archives
  <2> DEFINE F == [elements : Names, flag : STRING, size : Digits]
             G == [elements : Seq(Seq(STRING)), flag : STRING, size : Seq(0 .. 7)]
  <2>1. /\ a \in Seq(G)
        /\ \A n \in 1 .. Len(a) : /\ a[n].elements # <<>>
                                  /\ \A i \in 1 .. Len(a[n].elements) : IsName(a[n].elements[i])
      BY <1>2, ArchiveAssumption, Zenon
  <2>2. G = F
      BY Zenon DEF Names, Text, Digits
  <2> HIDE DEF F, G
  <2>3. a \in Seq(F) /\ Len(a) \in Nat /\ DOMAIN a = 1 .. Len(a)
      BY <2>1, <2>2
  <2>4. ASSUME NEW n \in 1 .. Len(a) PROVE a[n] \in File
    <3>1. a[n] \in F
        BY <2>3, ElementOfSeq
    <3> QED BY <2>1, <3>1 DEF File, F
  <2>5. a \in [1 .. Len(a) -> File]
      BY <2>3, <2>4
  <2> QED BY <2>3, <2>5, SeqDef
<1> QED BY <1>1, <1>2

LEMMA TarIn ==
    ASSUME NEW files \in Seq(File)
    PROVE  /\ Body(files) \in Memory
           /\ Tar(files) \in Memory /\ Tar(files) # <<>>
<1>1. Body(files) \in Memory
    BY TarFold, FoldedIn
<1>2. <<ZeroBlock>> \in Memory
  <2> DEFINE z == ZeroBlock
  <2>1. z \in HeaderType
      BY ZeroIn
  <2> HIDE DEF z
  <2>2. <<z>> \in Memory
      BY <2>1, SingleIn DEF Memory
  <2> QED BY <2>2 DEF z
<1> DEFINE z == <<ZeroBlock>>
           m == Body(files)
<1>3. Tar(files) = m \o z /\ z # <<>> /\ z \in Seq(HeaderType) /\ m \in Seq(HeaderType)
    BY <1>1, <1>2, TarFold DEF Memory
<1> HIDE DEF z, m
<1>4. m \o z \in Seq(HeaderType) /\ m \o z # <<>>
    BY <1>3, ConcatProperties, ConcatEqualIffEmpty
<1> QED BY <1>1, <1>3, <1>4 DEF Memory

LEMMA WholeBlocks ==
    ASSUME NEW B \in Nat \ {0}, NEW q \in Nat
    PROVE  (B + B * q) \div B = q + 1
    OBVIOUS

\* The block that is read at b.
MemAt(mem, b) == IF b \in DOMAIN mem THEN mem[b] ELSE ZeroBlock

LEMMA MemAtIn ==
    ASSUME NEW mem \in Memory, NEW b
    PROVE  /\ MemAt(mem, b) \in HeaderType
           /\ MemAt(mem, b).filename \in Text
           /\ Elements(MemAt(mem, b).filename) \in Names
<1>1. mem \in Seq(HeaderType)
    BY DEF Memory
<1>2. DOMAIN mem = 1 .. Len(mem)
    BY <1>1
<1>3. \A n \in 1 .. Len(mem) : mem[n] \in HeaderType
    BY <1>1, ElementOfSeq
<1>4. MemAt(mem, b) \in HeaderType
    BY <1>2, <1>3, ZeroIn DEF MemAt
<1>5. MemAt(mem, b).filename \in Text
    BY <1>4 DEF HeaderType
<1> QED BY <1>4, <1>5, ElementsType

LEMMA BlockIn ==
    ASSUME initrds \in [Disk -> Memory], NEW k \in Disk, NEW b
    PROVE  /\ Block(k, b) \in HeaderType
           /\ Block(k, b).filename \in Text
           /\ Elements(Block(k, b).filename) \in Names
           /\ tar_size(Block(k, b)) \in Nat
           /\ b \in Nat => NextHeader(k, b) \in Nat
<1> DEFINE h == Block(k, b)
<1>3. h \in HeaderType
  <2>1. h = MemAt(initrds[k], b) /\ initrds[k] \in Memory
      BY DEF Block, MemAt
  <2> QED BY <2>1, MemAtIn
<1>4. h.filename \in Text /\ h.size \in Digits
    BY <1>3 DEF HeaderType
<1> HIDE DEF h
<1>5. Elements(h.filename) \in Names /\ tar_size(h) \in Nat
    BY <1>4, ElementsType, OctalFold DEF tar_size
<1>6. ASSUME b \in Nat PROVE NextHeader(k, b) \in Nat
  <2> DEFINE n == tar_size(h)
             q == (BLOCK + n - 1) \div BLOCK
  <2>1. n \in Nat /\ BLOCK \in Nat \ {0}
      BY <1>5, VfsAssumption
  <2>2. NextHeader(k, b) = b + align_ceiling(BLOCK + n, BLOCK) \div BLOCK
      BY DEF NextHeader, h
  <2> HIDE DEF n
  <2>3. BLOCK + n # 0 /\ q \in Nat
      BY <2>1
  <2>4. align_ceiling(BLOCK + n, BLOCK) = BLOCK + BLOCK * q
      BY <2>1, <2>3 DEF align_ceiling
  <2> HIDE DEF q
  <2>5. (BLOCK + BLOCK * q) \div BLOCK = q + 1
      BY <2>1, <2>3, WholeBlocks
  <2>6. NextHeader(k, b) = b + (q + 1)
      BY <2>2, <2>4, <2>5
  <2> QED BY <1>6, <2>3, <2>6
<1> QED BY <1>3, <1>4, <1>5, <1>6 DEF h

-----------------------------------------------------------------------------
LEMMA InitTypes == Init => TypeInv
<1> SUFFICES ASSUME Init PROVE TypeInv
    OBVIOUS
<1> USE DEF Init
<1>1. boot.pc = "add" /\ ~New /\ ~Reading /\ Fresh = 0
    BY DEF New, Reading, Fresh
<1>2. Tables
    BY <1>1, EmptyIs DEF Tables
<1>3. Typed(inode_table)
    BY EmptyIs DEF Typed
<1>4. <<>> \in Memory
    BY DEF Memory
<1>5. boot \in BootType
    BY Invalid DEF BootType, PCs
<1>6. INITRD_MAX \in Nat /\ MaxInodes \in Nat
    BY VfsAssumption, CapacityAssumption
<1>7. VfsTypes
    BY <1>3, <1>4, <1>5, <1>6, Invalid DEF VfsTypes, Disk
<1>8. Place
    BY <1>1 DEF Place
<1> QED BY <1>2, <1>7, <1>8 DEF TypeInv

LEMMA NextDiskIs ==
    ASSUME boot \in BootType, initrds \in [Disk -> Memory], NEW k \in Nat
    PROVE  \/ /\ \A j \in Disk : j >= k => initrds[j] = <<>>
              /\ NextDisk(k) = [boot EXCEPT !.pc = "pipe", !.k = 1]
           \/ \E m \in Disk : /\ m >= k /\ initrds[m] # <<>>
                              /\ \A j \in Disk : j >= k /\ j < m => initrds[j] = <<>>
                              /\ NextDisk(k) = [boot EXCEPT !.pc = "create_fs", !.k = m]
<1> DEFINE used == {j \in DOMAIN initrds : j >= k /\ initrds[j] # <<>>}
<1>1. used = {j \in Disk : j >= k /\ initrds[j] # <<>>}
    OBVIOUS
<1>2. NextDisk(k) = IF used = {} THEN [boot EXCEPT !.pc = "pipe", !.k = 1]
                    ELSE [boot EXCEPT !.pc = "create_fs", !.k = Min(used)]
    BY DEF NextDisk
<1>3. CASE used = {}
    BY <1>1, <1>2, <1>3, Zenon
<1>4. CASE used # {}
  <2>1. used \subseteq Nat
      BY DEF Disk
  <2>2. Min(used) \in used /\ \A j \in used : Min(used) <= j
    <3> HIDE DEF used
    <3> QED BY <1>4, <2>1, MinIn
  <2> DEFINE m == Min(used)
  <2>3. m \in used /\ \A j \in used : m <= j
      BY <2>2
  <2>4. NextDisk(k) = [boot EXCEPT !.pc = "create_fs", !.k = m]
      BY <1>2, <1>4
  <2> HIDE DEF m
  <2>5. m \in Disk /\ m >= k /\ initrds[m] # <<>>
      BY <1>1, <2>3
  <2>6. \A j \in Disk : j >= k /\ j < m => initrds[j] = <<>>
      BY <1>1, <2>3, <2>5 DEF Disk
  <2> QED BY <2>4, <2>5, <2>6, Zenon
<1> QED BY <1>3, <1>4, Zenon

\* What CurElements is depends on the archives and the header that is read.
LEMMA SameHeader ==
    ASSUME initrds' = initrds, boot'.k = boot.k, boot'.b = boot.b
    PROVE  CurElements' = CurElements /\ CurHeader' = CurHeader
    BY DEF CurElements, CurHeader, Block

\* What a step of boot or a call after it does to the inode table.
MadeAs(type, vtable) == \E new \in Inode :
    /\ Made(inode_table, inode_table', inode_counter, new)
    /\ new.id = inode_counter /\ inode_counter \in Ids
    /\ new.children = <<>> /\ new.type = type /\ new.vtable = vtable
WroteVtable(k, vtable) == \E new :
    /\ Written(inode_table, inode_table', inode_counter, k, new)
    /\ has(inode_table, k) =>
          LET old == get(inode_table, k)
          IN  /\ new.children = old.children /\ new.type = old.type /\ new.vtable = vtable
WroteType(k) == \E new :
    /\ Written(inode_table, inode_table', inode_counter, k, new)
    /\ has(inode_table, k) =>
          LET old == get(inode_table, k)
          IN  new.children = old.children /\ new.vtable = old.vtable
Linking(k, c, name) ==
    Written(inode_table, inode_table', inode_counter, k, Link(get(inode_table, k), c, name))

LEMMA TypesAdd ==
    ASSUME TypeInv, NEW a \in Archives, initrd_add(a)
    PROVE  TypeInv'
<1>1. boot.pc = "add" /\ UNCHANGED <<inode_table, inode_counter, fs_table, fs_counter, vfs_root,
                                     inodes, pipes, boot, calls>>
    BY DEF initrd_add
<1>2. ~New' /\ ~Reading' /\ Fresh' = inode_counter /\ ~New /\ Fresh = inode_counter
    BY <1>1 DEF New, Reading, Fresh
<1>3. initrds' \in [Disk -> Memory] /\ archives' \in [Disk -> Archives \cup {<<>>}]
  <2>1. Tar(a) \in Memory
      BY ArchiveIn, TarIn
  <2> QED BY <2>1 DEF initrd_add, TypeInv, VfsTypes
<1>4. VfsTypes'
    BY <1>1, <1>3 DEF TypeInv, VfsTypes
<1>5. Tables'
    BY <1>1, <1>2 DEF TypeInv, Tables
<1>6. Place'
    BY <1>1, <1>2 DEF TypeInv, Place
<1> QED BY <1>4, <1>5, <1>6 DEF TypeInv

LEMMA TypesInit ==
    ASSUME TypeInv, initrd_init
    PROVE  TypeInv'
<1>1. /\ boot.pc = "add" /\ boot' = NextDisk(0) /\ boot \in BootType /\ initrds \in [Disk -> Memory]
      /\ UNCHANGED <<inode_table, inode_counter, fs_table, fs_counter, vfs_root, initrds,
                     inodes, pipes, archives, calls>>
    BY DEF initrd_init, TypeInv, VfsTypes
<1>2. \/ boot' = [boot EXCEPT !.pc = "pipe", !.k = 1]
      \/ \E m \in Disk : initrds[m] # <<>> /\ boot' = [boot EXCEPT !.pc = "create_fs", !.k = m]
    BY <1>1, NextDiskIs, Zenon
<1>3. /\ boot' \in BootType
      /\ \/ boot'.pc = "pipe" /\ boot'.k = 1
         \/ boot'.pc = "create_fs" /\ boot'.k \in Disk /\ initrds[boot'.k] # <<>>
  <2>1. CASE boot' = [boot EXCEPT !.pc = "pipe", !.k = 1]
    <3> DEFINE m == 1
    <3>1. boot \in BootType /\ m \in Nat /\ boot' = [boot EXCEPT !.pc = "pipe", !.k = m]
        BY <1>1, <2>1
    <3> HIDE DEF m
    <3>2. boot' \in BootType /\ boot'.pc = "pipe" /\ boot'.k = m
        BY <3>1 DEF BootType, PCs
    <3> QED BY <3>2 DEF m
  <2>2. ASSUME NEW m \in Disk, initrds[m] # <<>>,
               boot' = [boot EXCEPT !.pc = "create_fs", !.k = m]
        PROVE  /\ boot' \in BootType /\ boot'.pc = "create_fs"
               /\ boot'.k \in Disk /\ initrds[boot'.k] # <<>>
    <3>1. m \in Nat
        BY DEF Disk
    <3>2. boot' \in BootType /\ boot'.pc = "create_fs" /\ boot'.k = m
        BY <1>1, <2>2, <3>1 DEF BootType, PCs
    <3> QED BY <2>2, <3>2
  <2> QED BY <1>2, <2>1, <2>2, Zenon
<1>4. ~New' /\ ~Reading' /\ Fresh' = inode_counter /\ Fresh = inode_counter
  <2>1. boot.pc = "add" /\ boot'.pc \in {"pipe", "create_fs"} /\ inode_counter' = inode_counter
      BY <1>1, <1>3
  <2> QED BY <2>1 DEF New, Reading, Fresh
<1>5. VfsTypes'
    BY <1>1, <1>3 DEF TypeInv, VfsTypes
<1>6. Tables'
    BY <1>1, <1>4 DEF TypeInv, Tables
<1>7. Place'
  <2>1. fs_counter = 0 /\ Len(PipePaths) \in Nat
      BY <1>1, PipeAssumption DEF TypeInv, Place
  <2> QED BY <1>1, <1>3, <1>4, <2>1 DEF Place, Disk
<1> QED BY <1>5, <1>6, <1>7 DEF TypeInv

LEMMA TypesCreateFs ==
    ASSUME TypeInv, initrd_create
    PROVE  TypeInv' /\ MadeAs("DIRECTORY", "none") /\ vfs_root' = inode_counter
<1> DEFINE n == inode_counter
           item == [root |-> n, name |-> "initrd"]
           new == [NewInode(n, "DIRECTORY") EXCEPT !.fs = fs_counter]
<1>1. /\ boot.pc = "create_fs" /\ n < MaxInodes /\ inode_counter' = n + 1
      /\ fs_table' = add(fs_table, fs_counter, item) /\ fs_counter' = fs_counter + 1
      /\ vfs_root' = fs_get_root(fs_table', fs_counter)
      /\ boot' = [boot EXCEPT !.pc = "element", !.b = 1, !.i = 0, !.cinode = vfs_root']
      /\ UNCHANGED <<initrds, inodes, pipes, archives, calls>>
    BY DEF initrd_create, create_fs, set_root, CreateInode
<1>2. inode_table' = set_fs(add(inode_table, n, NewInode(n, "DIRECTORY")), n, fs_counter)
    BY DEF initrd_create, create_fs
<1>3. /\ n \in Ids /\ n \in Nat /\ fs_counter \in Nat /\ boot \in BootType
      /\ fs_counter < HASHTABLE_CAPACITY /\ fs_counter < INITRD_MAX /\ fs_counter <= boot.k
      /\ boot.k \in Disk /\ initrds[boot.k] # <<>> /\ ~New /\ Fresh = n
  <2>1. n \in 0 .. MaxInodes /\ fs_counter \in 0 .. INITRD_MAX /\ boot \in BootType
      BY DEF TypeInv, VfsTypes
  <2>2. /\ fs_counter <= boot.k /\ boot.k \in Disk /\ initrds[boot.k] # <<>>
        /\ ~New /\ Fresh = n
      BY <1>1 DEF TypeInv, Place, New, Fresh
  <2> QED BY <1>1, <2>1, <2>2, VfsAssumption, CapacityAssumption DEF Ids, Disk
<1> HIDE DEF n, item
<1>4. Made(fs_table, fs_table', fs_counter, item) /\ vfs_root' = n
  <2>1. Table(fs_table, fs_counter) /\ Counted(fs_table)
      BY DEF TypeInv, Tables
  <2>2. Made(fs_table, fs_table', fs_counter, item)
      BY <1>1, <1>3, <2>1, MadeIs
  <2>3. has(fs_table', fs_counter) /\ get(fs_table', fs_counter) = item
      BY <1>3, <2>1, <2>2, RoomLeft DEF Made
  <2> QED BY <1>1, <2>2, <2>3 DEF fs_get_root, item
<1>5. /\ new \in Inode /\ new.id = n /\ new.children = <<>> /\ new.type = "DIRECTORY"
      /\ new.vtable = "none"
  <2> DEFINE y == NewInode(n, "DIRECTORY")
  <2>1. /\ y \in Inode /\ y.id = n /\ y.children = <<>> /\ y.type = "DIRECTORY"
        /\ y.vtable = "none" /\ new = [y EXCEPT !.fs = fs_counter]
      BY <1>3, NewInodeIs DEF Types
  <2> HIDE DEF y, new
  <2> QED BY <1>3, <2>1, InodeIs
<1>6. Made(inode_table, inode_table', n, new)
  <2>1. Table(inode_table, n) /\ Counted(inode_table)
      BY DEF TypeInv, Tables, n
  <2> DEFINE x == NewInode(n, "DIRECTORY")
             other == [get(add(inode_table, n, x), n) EXCEPT !.fs = fs_counter]
  <2>2. inode_table' = SetField(add(inode_table, n, x), n, other)
      BY <1>2 DEF set_fs
  <2>3. get(add(inode_table, n, x), n) = x => other = new
      OBVIOUS
  <2> HIDE DEF x, other, new
  <2> QED BY <1>3, <2>1, <2>2, <2>3, MadeThenWritten
<1> HIDE DEF new
<1>7. Typed(inode_table')
    BY <1>3, <1>5, <1>6, MadeTyped DEF TypeInv, VfsTypes
<1>8. /\ boot' \in BootType /\ boot'.pc = "element" /\ boot'.k = boot.k /\ boot'.i = 0
      /\ boot'.cinode = n /\ boot'.b = 1
    BY <1>1, <1>3, <1>4 DEF BootType, PCs, AnyId
<1>9. ~New' /\ Reading' /\ Fresh' = n + 1
    BY <1>1, <1>8 DEF New, Reading, Fresh
<1>10. VfsTypes'
  <2>1. inode_counter' \in 0 .. MaxInodes /\ fs_counter' \in 0 .. INITRD_MAX /\ vfs_root' \in AnyId
      BY <1>1, <1>3, <1>4, VfsAssumption DEF Ids, AnyId, n
  <2> QED BY <1>1, <1>7, <1>8, <2>1 DEF TypeInv, VfsTypes
<1>11. Tables'
  <2>1. /\ Table(inode_table', n + 1) /\ Counted(inode_table')
        /\ Table(fs_table', fs_counter + 1) /\ Counted(fs_table')
      BY <1>4, <1>6 DEF Made
  <2>2. /\ Table(inodes, n + 1) /\ Table(pipes, n + 1) /\ Counted(inodes) /\ Counted(pipes)
      BY <1>3, TableMono DEF TypeInv, Tables
  <2> QED BY <1>1, <1>9, <2>1, <2>2 DEF Tables
<1>12. Place'
  <2>1. CurElements' \in Names
    <3>1. initrds'[boot'.k] \in Memory
        BY <1>1, <1>3, <1>8 DEF TypeInv, VfsTypes
    <3> QED BY <3>1, MemAtIn DEF CurElements, CurHeader, Block, MemAt
  <2>2. 0 <= Len(CurElements')
      BY <2>1 DEF Names
  <2>3. fs_counter' <= boot'.k + 1 /\ boot'.k \in Disk /\ initrds'[boot'.k] # <<>>
      BY <1>1, <1>3, <1>8 DEF Disk
  <2> QED BY <1>8, <1>9, <2>2, <2>3 DEF Place
<1>13. MadeAs("DIRECTORY", "none")
    BY <1>3, <1>5, <1>6 DEF MadeAs, n
<1> QED BY <1>4, <1>10, <1>11, <1>12, <1>13 DEF TypeInv, n

-----------------------------------------------------------------------------
(* The tree in the inode table.                                            *)
Kids(t, id) == IF has(t, id) THEN get(t, id).children ELSE <<>>
Tree(t) == [id \in AnyId |-> Kids(t, id)]

LEMMA TreeIn ==
    ASSUME NEW t, NEW n, Table(t, n), Typed(t)
    PROVE  /\ Tree(t) \in Trees
           /\ \A id \in AnyId : has(t, id) => id \in Ids /\ get(t, id) \in Inode
                                               /\ Tree(t)[id] = get(t, id).children
           /\ \A id \in AnyId : ~has(t, id) => Tree(t)[id] = <<>>
<1>1. ~has(t, ID_INVALID)
    BY FindNothing, Invalid
<1>2. \A id \in AnyId : has(t, id) => id \in Ids /\ get(t, id) \in Inode
    BY <1>1, Invalid DEF AnyId, Typed
<1>3. \A x \in Inode : x.children \in Seq(Kid)
    BY InodeFields
<1>4. \A id \in AnyId : Kids(t, id) \in Seq(Kid)
    BY <1>2, <1>3 DEF Kids
<1>5. Tree(t) \in [AnyId -> Seq(Kid)]
    BY <1>4 DEF Tree
<1>6. Tree(t)[ID_INVALID] = <<>>
    BY <1>1, Invalid DEF Tree, Kids
<1>7. \A id \in AnyId : Tree(t)[id] = Kids(t, id)
    BY DEF Tree
<1> QED BY <1>2, <1>5, <1>6, <1>7 DEF Trees, Kids

LEMMA SelectIs ==
    ASSUME NEW K, NEW id, NEW name
    PROVE  SelectInSeq(K[id], LAMBDA c : c.name = name) =
               IF Named(K, id, name) = {} THEN 0 ELSE Min(Named(K, id, name))
    BY Zenon DEF SelectInSeq, Named

\* get_child is the first child of a name.
LEMMA ChildIs ==
    ASSUME TypeInv, NEW id \in AnyId, NEW name
    PROVE  /\ get_child(id, name) = ChildIn(Tree(inode_table), id, name)
           /\ get_child(id, name) \in AnyId
<1> DEFINE t == inode_table
           K == Tree(t)
           i == SelectInSeq(K[id], LAMBDA c : c.name = name)
<1>1. Table(t, inode_counter) /\ Typed(t)
    BY DEF TypeInv, Tables, VfsTypes
<1>2. /\ K \in Trees
      /\ has(t, id) => K[id] = get(t, id).children
      /\ ~has(t, id) => K[id] = <<>>
    BY <1>1, TreeIn
<1> HIDE DEF K
<1>3. i = IF Named(K, id, name) = {} THEN 0 ELSE Min(Named(K, id, name))
    BY SelectIs
<1>4. ChildIn(K, id, name) \in AnyId /\ (K[id] = <<>> => ChildIn(K, id, name) = ID_INVALID)
    BY <1>2, ChildType
<1>5. CASE ~has(t, id)
    BY <1>2, <1>4, <1>5 DEF get_child, K
<1>6. CASE has(t, id)
  <2>1. get_child(id, name) = IF i = 0 THEN ID_INVALID ELSE K[id][i].inode
    <3>1. get(t, id).children = K[id]
        BY <1>2, <1>6
    <3>2. get_child(id, name) =
              LET children == get(t, id).children
                  k == SelectInSeq(children, LAMBDA c : c.name = name)
              IN  IF k = 0 THEN ID_INVALID ELSE children[k].inode
        BY <1>6 DEF get_child
    <3> QED BY <3>1, <3>2
  <2> HIDE DEF i
  <2>2. Named(K, id, name) # {} => Min(Named(K, id, name)) \in 1 .. Len(K[id])
      BY <1>2, FirstNamed
  <2>3. get_child(id, name) = ChildIn(K, id, name)
      BY <1>3, <2>1, <2>2 DEF ChildIn
  <2> QED BY <1>4, <2>3 DEF K
<1> QED BY <1>5, <1>6

LEMMA CurIn ==
    ASSUME TypeInv, Reading
    PROVE  /\ CurHeader \in HeaderType /\ CurElements \in Names /\ Len(CurElements) \in Nat
           /\ boot.k \in Disk /\ boot.b \in Nat /\ boot.i \in Nat
           /\ NextHeader(boot.k, boot.b) \in Nat
<1>1. boot \in BootType /\ initrds \in [Disk -> Memory] /\ boot.k \in Disk
    BY DEF TypeInv, VfsTypes, Place
<1>2. boot.b \in Nat /\ boot.i \in Nat
    BY <1>1 DEF BootType
<1>3. CurHeader \in HeaderType /\ CurElements \in Names /\ NextHeader(boot.k, boot.b) \in Nat
    BY <1>1, <1>2, BlockIn DEF CurHeader, CurElements
<1> QED BY <1>1, <1>2, <1>3 DEF Names

\* What a step that reads on in the same archive keeps.
LEMMA ReadingOn ==
    ASSUME TypeInv, boot' \in BootType, boot'.pc \in {"element", "create"}, boot'.k = boot.k,
           boot'.i <= Len(CurElements'), boot'.pc = "create" => boot'.i < Len(CurElements'),
           Reading, ~New,
           UNCHANGED <<inode_table, inode_counter, fs_table, fs_counter, vfs_root, initrds,
                       inodes, pipes, archives, calls>>
    PROVE  TypeInv'
<1>1. ~New' /\ Reading' /\ Fresh' = inode_counter /\ Fresh = inode_counter
    BY DEF New, Reading, Fresh
<1>2. VfsTypes'
    BY DEF TypeInv, VfsTypes
<1>3. Tables'
    BY <1>1 DEF TypeInv, Tables
<1>4. Place'
    BY <1>1 DEF TypeInv, Place
<1> QED BY <1>2, <1>3, <1>4 DEF TypeInv

LEMMA TypesDescend ==
    ASSUME TypeInv, initrd_descend
    PROVE  TypeInv'
<1> DEFINE try == get_child(boot.cinode, CurElements[boot.i + 1])
<1>1. /\ boot.pc = "element" /\ boot.i < Len(CurElements)
      /\ boot' = IF try # ID_INVALID THEN [boot EXCEPT !.cinode = try, !.i = @ + 1]
                 ELSE [boot EXCEPT !.pc = "create"]
      /\ UNCHANGED <<inode_table, inode_counter, fs_table, fs_counter, vfs_root, initrds,
                     inodes, pipes, archives, calls>>
    BY DEF initrd_descend
<1>2. boot \in BootType /\ Reading /\ ~New /\ boot.i \in Nat /\ boot.cinode \in AnyId
    BY <1>1 DEF TypeInv, VfsTypes, Reading, New, BootType
<1>3. try \in AnyId
    BY <1>2, ChildIs
<1> HIDE DEF try
<1>4. CASE try # ID_INVALID
  <2>1. boot' = [boot EXCEPT !.cinode = try, !.i = boot.i + 1]
      BY <1>1, <1>4
  <2> DEFINE i1 == boot.i + 1
  <2>5. boot' = [boot EXCEPT !.cinode = try, !.i = i1] /\ i1 \in Nat
      BY <1>2, <2>1
  <2> HIDE DEF i1
  <2>6. /\ boot' \in BootType /\ boot'.pc = boot.pc /\ boot'.k = boot.k /\ boot'.b = boot.b
        /\ boot'.i = i1
      BY <1>2, <1>3, <2>5 DEF BootType
  <2>2. /\ boot' \in BootType /\ boot'.pc = "element" /\ boot'.k = boot.k /\ boot'.b = boot.b
        /\ boot'.i = boot.i + 1
      BY <1>1, <2>6 DEF i1
  <2>3. CurElements' = CurElements
      BY <1>1, <2>2, SameHeader
  <2>4. boot.i + 1 <= Len(CurElements)
      BY <1>1, <1>2, CurIn
  <2> QED BY <1>1, <1>2, <2>2, <2>3, <2>4, ReadingOn
<1>5. CASE try = ID_INVALID
  <2>1. boot' = [boot EXCEPT !.pc = "create"]
      BY <1>1, <1>5
  <2>2. /\ boot' \in BootType /\ boot'.pc = "create" /\ boot'.k = boot.k /\ boot'.b = boot.b
        /\ boot'.i = boot.i
      BY <1>2, <2>1 DEF BootType, PCs
  <2>3. CurElements' = CurElements
      BY <1>1, <2>2, SameHeader
  <2>4. boot.i <= Len(CurElements)
      BY <1>1, <1>2, CurIn
  <2> QED BY <1>1, <1>2, <2>2, <2>3, <2>4, ReadingOn
<1> QED BY <1>4, <1>5

LEMMA TypesCreateInode ==
    ASSUME TypeInv, initrd_create_inode
    PROVE  TypeInv' /\ MadeAs(NewType, "none")
<1> DEFINE n == inode_counter
           x == NewInode(n, NewType)
           f == fs_counter - 1
           new == [x EXCEPT !.fs = f]
<1>1. /\ boot.pc = "create" /\ n < MaxInodes /\ inode_counter' = n + 1
      /\ boot' = [boot EXCEPT !.pc = "mount", !.ninode = n]
      /\ UNCHANGED <<fs_table, fs_counter, vfs_root, initrds, inodes, pipes, archives, calls>>
    BY DEF initrd_create_inode, CreateInode
<1>2. inode_table' = set_fs(add(inode_table, n, x), n, f)
    BY DEF initrd_create_inode
<1>3. /\ n \in Ids /\ n \in Nat /\ f \in Int /\ boot \in BootType /\ Reading /\ ~New /\ Fresh = n
  <2>1. n \in 0 .. MaxInodes /\ fs_counter \in 0 .. INITRD_MAX /\ boot \in BootType
      BY DEF TypeInv, VfsTypes
  <2>2. Reading /\ ~New /\ Fresh = n
      BY <1>1 DEF Reading, New, Fresh
  <2>3. n \in Ids /\ n \in Nat /\ f \in Int
      BY <1>1, <2>1, VfsAssumption, CapacityAssumption DEF Ids
  <2> QED BY <2>1, <2>2, <2>3
<1>4. NewType \in Types
    BY DEF NewType, TypeOfFlag, Types
<1>5. /\ new \in Inode /\ new.id = n /\ new.children = <<>> /\ new.type = NewType
      /\ new.vtable = "none"
  <2>1. /\ x \in Inode /\ x.id = n /\ x.children = <<>> /\ x.type = NewType
        /\ x.vtable = "none"
      BY <1>3, <1>4, NewInodeIs
  <2> HIDE DEF x, f
  <2> QED BY <1>3, <2>1, InodeIs
<1> HIDE DEF f
<1>6. Made(inode_table, inode_table', n, new)
  <2>1. Table(inode_table, n) /\ Counted(inode_table)
      BY DEF TypeInv, Tables
  <2> DEFINE other == [get(add(inode_table, n, x), n) EXCEPT !.fs = f]
  <2>2. inode_table' = SetField(add(inode_table, n, x), n, other)
      BY <1>2 DEF set_fs
  <2>3. get(add(inode_table, n, x), n) = x => other = new
      OBVIOUS
  <2> HIDE DEF x, other, new, n
  <2> QED BY <1>3, <2>1, <2>2, <2>3, MadeThenWritten
<1> HIDE DEF new, x
<1>7. Typed(inode_table')
    BY <1>3, <1>5, <1>6, MadeTyped DEF TypeInv, VfsTypes
<1>8. /\ boot' \in BootType /\ boot'.pc = "mount" /\ boot'.k = boot.k /\ boot'.i = boot.i
      /\ boot'.ninode = n /\ boot'.b = boot.b
  <2> HIDE DEF n
  <2>1. n \in AnyId /\ "mount" \in PCs
      BY <1>3 DEF AnyId, PCs
  <2> QED BY <1>1, <1>3, <2>1 DEF BootType
<1>9. New' /\ Reading' /\ Fresh' = n
    BY <1>1, <1>8 DEF New, Reading, Fresh
<1>10. VfsTypes'
  <2>1. inode_counter' \in 0 .. MaxInodes
      BY <1>1, <1>3, VfsAssumption
  <2> QED BY <1>1, <1>7, <1>8, <2>1 DEF TypeInv, VfsTypes
<1>11. Tables'
  <2>1. Table(inode_table', n + 1) /\ Counted(inode_table')
      BY <1>6 DEF Made
  <2> QED BY <1>1, <1>3, <1>9, <2>1 DEF TypeInv, Tables
<1>12. Place'
  <2>1. CurElements' = CurElements
      BY <1>1, <1>8, SameHeader
  <2> QED BY <1>1, <1>3, <1>8, <1>9, <2>1 DEF TypeInv, Place
<1>13. MadeAs(NewType, "none")
    BY <1>3, <1>5, <1>6, Zenon DEF MadeAs
<1> QED BY <1>10, <1>11, <1>12, <1>13 DEF TypeInv

\* What a step that writes one entry of the inode table keeps.
LEMMA WritingOn ==
    ASSUME TypeInv, NEW k, NEW new, Written(inode_table, inode_table', inode_counter, k, new),
           has(inode_table, k) => new \in Inode /\ new.id = k,
           UNCHANGED <<inode_counter, fs_table, fs_counter, vfs_root, initrds, archives>>,
           boot' \in BootType
    PROVE  /\ VfsTypes'
           /\ Table(inode_table', inode_counter') /\ Counted(inode_table')
           /\ Table(fs_table', fs_counter') /\ Counted(fs_table')
<1>1. Typed(inode_table')
    BY WrittenTyped DEF TypeInv, VfsTypes
<1>2. VfsTypes'
    BY <1>1 DEF TypeInv, VfsTypes
<1> QED BY <1>2 DEF TypeInv, Tables, Written

LEMMA TypesMountChild ==
    ASSUME TypeInv, initrd_mount_child
    PROVE  /\ TypeInv'
           /\ Linking(boot.cinode, boot.ninode, CurElements[boot.i + 1])
           /\ CurElements[boot.i + 1] \in Text /\ boot.ninode \in Ids
<1> DEFINE k == boot.cinode
           x == get(inode_table, k)
           name == CurElements[boot.i + 1]
           new == Link(x, boot.ninode, name)
<1>1. /\ boot.pc = "mount" /\ boot' = [boot EXCEPT !.pc = "vtable"]
      /\ UNCHANGED <<inode_counter, fs_table, fs_counter, vfs_root, initrds, inodes, pipes,
                     archives, calls>>
      /\ inode_table' = SetField(inode_table, k, new)
    BY DEF initrd_mount_child, mount_child, Link
<1>2. New /\ Reading /\ boot.ninode \in Ids /\ boot.i < Len(CurElements) /\ boot \in BootType
    BY <1>1 DEF TypeInv, VfsTypes, Place, New, Reading
<1>3. name \in Text
  <2>1. CurElements \in Names /\ boot.i \in Nat /\ Len(CurElements) \in Nat
      BY <1>2, CurIn
  <2>2. boot.i + 1 \in 1 .. Len(CurElements)
      BY <1>2, <2>1
  <2> QED BY <2>1, <2>2, ElementOfSeq DEF Names
<1>4. Table(inode_table, inode_counter) /\ Counted(inode_table) /\ inode_counter \in Nat
    BY DEF TypeInv, Tables, VfsTypes
<1> HIDE DEF new
<1>5. Written(inode_table, inode_table', inode_counter, k, new)
    BY <1>1, <1>4, WrittenIs
<1>6. has(inode_table, k) => new \in Inode /\ new.id = k
  <2> SUFFICES ASSUME has(inode_table, k) PROVE new \in Inode /\ new.id = k
      OBVIOUS
  <2>1. k \in Nat
      BY <1>5 DEF Written
  <2>2. x \in Inode /\ x.id = k
      BY <2>1 DEF TypeInv, VfsTypes, Typed
  <2> HIDE DEF x, name
  <2> QED BY <1>2, <1>3, <2>2, LinkIs DEF new
<1>7. /\ boot' \in BootType /\ boot'.pc = "vtable" /\ boot'.k = boot.k /\ boot'.i = boot.i
      /\ boot'.ninode = boot.ninode /\ boot'.b = boot.b
    BY <1>1, <1>2 DEF BootType, PCs
<1>8. /\ VfsTypes'
      /\ Table(inode_table', inode_counter') /\ Counted(inode_table')
      /\ Table(fs_table', fs_counter') /\ Counted(fs_table')
    BY <1>1, <1>5, <1>6, <1>7, WritingOn
<1>9. New' /\ Reading' /\ Fresh' = Fresh
    BY <1>2, <1>7 DEF New, Reading, Fresh
<1>10. Tables'
    BY <1>1, <1>8, <1>9 DEF TypeInv, Tables
<1>11. Place'
  <2>1. CurElements' = CurElements
      BY <1>1, <1>7, SameHeader
  <2> QED BY <1>1, <1>2, <1>7, <1>9, <2>1 DEF TypeInv, Place
<1> QED BY <1>2, <1>3, <1>5, <1>8, <1>10, <1>11 DEF TypeInv, Linking, new

LEMMA TypesSetVtable ==
    ASSUME TypeInv, initrd_set_vtable
    PROVE  /\ TypeInv'
           /\ WroteVtable(boot.ninode, IF NewType = "NORMAL_FILE" THEN "initrd" ELSE "none")
<1> DEFINE k == boot.ninode
           v == IF NewType = "NORMAL_FILE" THEN "initrd" ELSE "none"
           x == get(inode_table, k)
           new == [x EXCEPT !.vtable = v]
           item == <<boot.k, boot.b>>
           i1 == boot.i + 1
<1>1. /\ boot.pc = "vtable" /\ boot' = [boot EXCEPT !.pc = "element", !.i = i1, !.cinode = k]
      /\ UNCHANGED <<inode_counter, fs_table, fs_counter, vfs_root, initrds, pipes, archives,
                     calls>>
      /\ inode_table' = SetField(inode_table, k, new)
      /\ inodes' = add(inodes, k, item) \/ inodes' = inodes
    BY DEF initrd_set_vtable, set_vtable
<1>2. /\ New /\ Reading /\ k \in Ids /\ k + 1 = inode_counter /\ boot.i < Len(CurElements)
      /\ boot \in BootType /\ Fresh = k
    BY <1>1 DEF TypeInv, VfsTypes, Place, New, Reading, Fresh
<1>3. Table(inode_table, inode_counter) /\ Counted(inode_table) /\ inode_counter \in Nat
    BY DEF TypeInv, Tables, VfsTypes
<1>4. v \in Vtables
    BY DEF Vtables
<1> HIDE DEF new, v, item, i1, k
<1>5. Written(inode_table, inode_table', inode_counter, k, new)
    BY <1>1, <1>3, WrittenIs
<1>6. has(inode_table, k) =>
          /\ new \in Inode /\ new.id = k
          /\ new.children = x.children /\ new.type = x.type /\ new.vtable = v
  <2> SUFFICES ASSUME has(inode_table, k)
               PROVE  /\ new \in Inode /\ new.id = k
                      /\ new.children = x.children /\ new.type = x.type /\ new.vtable = v
      OBVIOUS
  <2>1. k \in Nat
      BY <1>5 DEF Written
  <2>2. x \in Inode /\ x.id = k
      BY <2>1 DEF TypeInv, VfsTypes, Typed
  <2> HIDE DEF x
  <2> QED BY <1>4, <2>2, InodeIs DEF new
<1>7. i1 \in Nat /\ boot.i + 1 <= Len(CurElements) /\ k \in AnyId /\ k \in Nat
  <2>1. boot.i \in Nat /\ Len(CurElements) \in Nat
      BY <1>2, CurIn
  <2> QED BY <1>2, <2>1, Invalid DEF i1, AnyId
<1>8. /\ boot' \in BootType /\ boot'.pc = "element" /\ boot'.k = boot.k /\ boot'.i = i1
      /\ boot'.b = boot.b
    BY <1>1, <1>2, <1>7 DEF BootType, PCs
<1>9. /\ VfsTypes'
      /\ Table(inode_table', inode_counter') /\ Counted(inode_table')
      /\ Table(fs_table', fs_counter') /\ Counted(fs_table')
    BY <1>1, <1>5, <1>6, <1>8, WritingOn
<1>10. ~New' /\ Reading' /\ Fresh' = inode_counter
    BY <1>1, <1>8 DEF New, Reading, Fresh
<1>11. Tables'
  <2>1. Table(inodes, k) /\ Counted(inodes) /\ Table(pipes, k) /\ Counted(pipes)
      BY <1>2 DEF TypeInv, Tables
  <2>2. Table(inodes, k + 1) /\ Table(pipes, k + 1)
      BY <1>7, <2>1, TableMono
  <2>3. Table(add(inodes, k, item), k + 1) /\ Counted(add(inodes, k, item))
    <3>1. k <= k
        BY <1>7
    <3>2. Made(inodes, add(inodes, k, item), k, item)
        BY <1>7, <2>1, <3>1, MadeIs
    <3> QED BY <3>2 DEF Made
  <2>4. Table(add(inodes, k, item), inode_counter) /\ Table(inodes, inode_counter)
        /\ Table(pipes, inode_counter)
      BY <1>2, <2>2, <2>3
  <2>5. Table(inodes', inode_counter) /\ Counted(inodes')
    <3>1. CASE inodes' = inodes
        BY <2>1, <2>4, <3>1
    <3>2. CASE inodes' = add(inodes, k, item)
        BY <2>3, <2>4, <3>2
    <3> QED BY <1>1, <3>1, <3>2
  <2> QED BY <1>1, <1>9, <1>10, <2>1, <2>4, <2>5 DEF Tables
<1>12. Place'
  <2>1. CurElements' = CurElements
      BY <1>1, <1>8, SameHeader
  <2>2. boot'.i <= Len(CurElements')
      BY <1>7, <1>8, <2>1 DEF i1
  <2>3. /\ fs_counter' <= boot'.k + 1 /\ boot'.k \in Disk /\ initrds'[boot'.k] # <<>>
        /\ boot'.pc = "element"
    <3>1. fs_counter <= boot.k + 1 /\ boot.k \in Disk /\ initrds[boot.k] # <<>>
        BY <1>2 DEF TypeInv, Place
    <3> QED BY <1>1, <1>8, <3>1
  <2> QED BY <1>10, <2>2, <2>3 DEF Place
<1>13. WroteVtable(k, v)
    BY <1>5, <1>6 DEF WroteVtable
<1> QED BY <1>9, <1>11, <1>12, <1>13 DEF TypeInv, k, v

LEMMA TypesTarNext ==
    ASSUME TypeInv, tar_next
    PROVE  TypeInv'
<1> DEFINE n == NextHeader(boot.k, boot.b)
<1>1. /\ boot.pc = "element"
      /\ boot' = IF Block(boot.k, n).filename = <<>> THEN NextDisk(boot.k + 1)
                 ELSE [boot EXCEPT !.b = n, !.i = 0, !.cinode = get_root]
      /\ UNCHANGED <<inode_table, inode_counter, fs_table, fs_counter, vfs_root, initrds,
                     inodes, pipes, archives, calls>>
    BY DEF tar_next
<1>2. /\ boot \in BootType /\ Reading /\ ~New /\ boot.k \in Disk /\ boot.k \in Nat
      /\ fs_counter <= boot.k + 1
      /\ get_root \in AnyId /\ initrds \in [Disk -> Memory] /\ Fresh = inode_counter
    BY <1>1 DEF TypeInv, VfsTypes, Reading, New, Place, get_root, Disk, Fresh
<1>3. n \in Nat
    BY <1>2, CurIn
<1> HIDE DEF n
<1>4. CASE Block(boot.k, n).filename # <<>>
  <2> DEFINE z == 0
  <2>1. boot' = [boot EXCEPT !.b = n, !.i = z, !.cinode = get_root] /\ z \in Nat
      BY <1>1, <1>4
  <2> HIDE DEF z
  <2>2. boot' \in BootType /\ boot'.pc = boot.pc /\ boot'.k = boot.k /\ boot'.i = z
      BY <1>2, <1>3, <2>1 DEF BootType
  <2>3. CurElements' \in Names
    <3>1. initrds'[boot'.k] \in Memory
        BY <1>1, <1>2, <2>2
    <3> QED BY <3>1, MemAtIn DEF CurElements, CurHeader, Block, MemAt
  <2>4. boot'.i <= Len(CurElements')
      BY <2>2, <2>3 DEF Names, z
  <2> QED BY <1>1, <1>2, <2>2, <2>4, ReadingOn
<1>5. CASE Block(boot.k, n).filename = <<>>
  <2> DEFINE k1 == boot.k + 1
  <2>1. boot' = NextDisk(k1) /\ k1 \in Nat
      BY <1>1, <1>2, <1>5
  <2> HIDE DEF k1
  <2>2. \/ boot' = [boot EXCEPT !.pc = "pipe", !.k = 1]
        \/ \E m \in Disk : /\ m >= k1 /\ initrds[m] # <<>>
                           /\ boot' = [boot EXCEPT !.pc = "create_fs", !.k = m]
      BY <1>2, <2>1, NextDiskIs, Zenon
  <2>3. /\ boot' \in BootType
        /\ \/ boot'.pc = "pipe" /\ boot'.k = 1
           \/ /\ boot'.pc = "create_fs" /\ boot'.k \in Disk /\ initrds[boot'.k] # <<>>
              /\ boot'.k >= k1
    <3>1. CASE boot' = [boot EXCEPT !.pc = "pipe", !.k = 1]
      <4> DEFINE m == 1
      <4>1. boot \in BootType /\ m \in Nat /\ boot' = [boot EXCEPT !.pc = "pipe", !.k = m]
          BY <1>2, <3>1
      <4> HIDE DEF m
      <4>2. boot' \in BootType /\ boot'.pc = "pipe" /\ boot'.k = m
          BY <4>1 DEF BootType, PCs
      <4> QED BY <4>2 DEF m
    <3>2. ASSUME NEW m \in Disk, initrds[m] # <<>>, m >= k1,
                 boot' = [boot EXCEPT !.pc = "create_fs", !.k = m]
          PROVE  /\ boot' \in BootType /\ boot'.pc = "create_fs"
                 /\ boot'.k \in Disk /\ initrds[boot'.k] # <<>> /\ boot'.k >= k1
      <4>1. m \in Nat
          BY DEF Disk
      <4>2. boot' \in BootType /\ boot'.pc = "create_fs" /\ boot'.k = m
          BY <1>2, <3>2, <4>1 DEF BootType, PCs
      <4> QED BY <3>2, <4>2
    <3> QED BY <2>2, <3>1, <3>2, Zenon
  <2>4. ~New' /\ ~Reading' /\ Fresh' = inode_counter
    <3>1. boot'.pc \in {"pipe", "create_fs"} /\ inode_counter' = inode_counter
        BY <1>1, <2>3
    <3> QED BY <3>1 DEF New, Reading, Fresh
  <2>5. VfsTypes'
      BY <1>1, <2>3 DEF TypeInv, VfsTypes
  <2>6. Tables'
      BY <1>1, <1>2, <2>4 DEF TypeInv, Tables
  <2>7. Place'
    <3>1. Len(PipePaths) \in Nat /\ boot'.pc \in {"pipe", "create_fs"}
        BY <2>3, PipeAssumption
    <3>2. boot'.pc = "create_fs" => fs_counter <= boot'.k /\ boot'.k \in Disk
      <4>1. fs_counter \in Nat /\ fs_counter <= k1
          BY <1>2 DEF TypeInv, VfsTypes, k1
      <4>2. ASSUME NEW m \in Disk, m >= k1 PROVE fs_counter <= m
          BY <2>1, <4>1, <4>2 DEF Disk
      <4> QED BY <2>3, <4>2
    <3>3. boot'.pc = "create_fs" => initrds'[boot'.k] # <<>>
        BY <1>1, <2>3
    <3>4. boot'.pc = "pipe" => boot'.k \in 1 .. Len(PipePaths) + 1
        BY <2>3, <3>1
    <3>5. ~(boot'.pc = "element") /\ ~(boot'.pc = "ready") /\ ~(boot'.pc = "add")
          /\ ~(boot'.pc = "pipe_mount") /\ ~(boot'.pc \in {"create", "mount", "vtable"})
        BY <3>1
    <3> QED BY <1>1, <2>4, <3>2, <3>3, <3>4, <3>5 DEF Place
  <2> QED BY <2>5, <2>6, <2>7 DEF TypeInv
<1> QED BY <1>4, <1>5

\* What a step that makes an inode keeps.
LEMMA MakingOn ==
    ASSUME TypeInv, NEW new \in Inode, new.id = inode_counter, inode_counter < MaxInodes,
           Made(inode_table, inode_table', inode_counter, new),
           inode_counter' = inode_counter + 1,
           UNCHANGED <<fs_counter, vfs_root, initrds, archives>>,
           boot' \in BootType
    PROVE  /\ VfsTypes' /\ inode_counter \in Ids /\ inode_counter \in Nat
           /\ Table(inode_table', inode_counter') /\ Counted(inode_table')
<1> DEFINE n == inode_counter
<1>1. n \in 0 .. MaxInodes /\ MaxInodes \in Nat
    BY VfsAssumption DEF TypeInv, VfsTypes
<1>2. n \in Ids /\ n \in Nat /\ n + 1 \in 0 .. MaxInodes
    BY <1>1 DEF Ids
<1>3. Typed(inode_table')
    BY <1>2, MadeTyped DEF TypeInv, VfsTypes
<1>4. inode_counter' \in 0 .. MaxInodes
    BY <1>2
<1>5. VfsTypes'
    BY <1>3, <1>4 DEF TypeInv, VfsTypes
<1>6. Table(inode_table', n + 1) /\ Counted(inode_table')
    BY DEF Made
<1> QED BY <1>2, <1>5, <1>6

LEMMA TypesPipeCreate ==
    ASSUME TypeInv, pipe_create
    PROVE  TypeInv' /\ MadeAs("PIPE", "pipe")
<1> DEFINE n == inode_counter
           x == NewInode(n, "PIPE")
           new == [x EXCEPT !.vtable = "pipe"]
<1>1. /\ boot.pc = "pipe" /\ n < MaxInodes /\ inode_counter' = n + 1
      /\ boot.k <= Len(PipePaths)
      /\ boot' = [boot EXCEPT !.pc = "pipe_mount", !.ninode = n]
      /\ UNCHANGED <<fs_table, fs_counter, vfs_root, initrds, inodes, pipes, archives, calls>>
    BY DEF pipe_create, CreateInode
<1>2. inode_table' = set_vtable(add(inode_table, n, x), n, "pipe")
    BY DEF pipe_create
<1>3. n \in Ids /\ n \in Nat /\ n \in AnyId
  <2>1. n \in 0 .. MaxInodes /\ MaxInodes \in Nat
      BY VfsAssumption DEF TypeInv, VfsTypes
  <2> QED BY <1>1, <2>1 DEF Ids, AnyId
<1>4. ~New /\ ~Reading /\ Fresh = n /\ boot \in BootType
    BY <1>1 DEF TypeInv, VfsTypes, Reading, New, Fresh
<1>5. /\ new \in Inode /\ new.id = n /\ new.children = <<>> /\ new.type = "PIPE"
      /\ new.vtable = "pipe"
  <2>1. x \in Inode /\ x.id = n /\ x.children = <<>> /\ x.type = "PIPE"
      BY <1>3, NewInodeIs DEF Types
  <2> DEFINE v == "pipe"
  <2>2. v \in Vtables /\ new = [x EXCEPT !.vtable = v]
      BY DEF Vtables
  <2> HIDE DEF x, v, new
  <2>3. /\ new \in Inode /\ new.id = n /\ new.children = <<>> /\ new.type = "PIPE"
        /\ new.vtable = v
      BY <2>1, <2>2, InodeIs
  <2> QED BY <2>3 DEF v
<1>6. Made(inode_table, inode_table', n, new)
  <2>1. Table(inode_table, n) /\ Counted(inode_table)
      BY DEF TypeInv, Tables
  <2> DEFINE other == [get(add(inode_table, n, x), n) EXCEPT !.vtable = "pipe"]
  <2>2. inode_table' = SetField(add(inode_table, n, x), n, other)
      BY <1>2 DEF set_vtable
  <2>3. get(add(inode_table, n, x), n) = x => other = new
      OBVIOUS
  <2> HIDE DEF x, other, new, n
  <2> QED BY <1>3, <2>1, <2>2, <2>3, MadeThenWritten
<1> HIDE DEF new, x
<1>7. /\ boot' \in BootType /\ boot'.pc = "pipe_mount" /\ boot'.k = boot.k /\ boot'.ninode = n
  <2> HIDE DEF n
  <2>1. "pipe_mount" \in PCs
      BY DEF PCs
  <2> QED BY <1>1, <1>3, <1>4, <2>1 DEF BootType
<1>8. /\ VfsTypes' /\ Table(inode_table', inode_counter') /\ Counted(inode_table')
    BY <1>1, <1>5, <1>6, <1>7, MakingOn
<1>9. New' /\ ~Reading' /\ Fresh' = n
    BY <1>7 DEF New, Reading, Fresh
<1>10. Tables'
    BY <1>1, <1>4, <1>8, <1>9 DEF TypeInv, Tables
<1>11. Place'
  <2>1. boot.k \in 1 .. Len(PipePaths)
    <3>1. boot.k \in 1 .. Len(PipePaths) + 1 /\ Len(PipePaths) \in Nat
        BY <1>1, PipeAssumption DEF TypeInv, Place
    <3> QED BY <1>1, <3>1
  <2> QED BY <1>1, <1>3, <1>7, <1>9, <2>1 DEF Place
<1>12. MadeAs("PIPE", "pipe")
    BY <1>3, <1>5, <1>6, Zenon DEF MadeAs
<1> QED BY <1>8, <1>10, <1>11, <1>12 DEF TypeInv

LEMMA PipeNames ==
    ASSUME NEW p \in 1 .. Len(PipePaths)
    PROVE  /\ PipePaths[p] \in Text /\ Elements(PipePaths[p]) \in Names
           /\ Elements(PipePaths[p]) # <<>> /\ Front(Elements(PipePaths[p])) \in Names
           /\ Last(Elements(PipePaths[p])) \in Text
<1> DEFINE S == STRING
           e == Elements(PipePaths[p])
<1>1. PipePaths \in Seq(Seq(S)) /\ e # <<>>
    BY PipeAssumption, Zenon
<1>2. Text = Seq(S)
    BY Zenon DEF Text
<1> HIDE DEF S
<1>3. PipePaths[p] \in Text
    BY <1>1, <1>2, ElementOfSeq
<1>4. e \in Names
    BY <1>3, ElementsType
<1> HIDE DEF e
<1>5. e \in Seq(Text)
    BY <1>4 DEF Names
<1>6. Front(e) \in Seq(Text) /\ Last(e) \in Text
    BY <1>1, <1>5, FrontLast
<1> QED BY <1>1, <1>3, <1>4, <1>6 DEF Names, e

LEMMA TypesPipeMount ==
    ASSUME TypeInv, pipe_mount
    PROVE  LET e == Elements(PipePaths[boot.k])
               d == Walk(Front(e))
           IN  /\ TypeInv' /\ boot.k \in 1 .. Len(PipePaths)
               /\ IF d = ID_INVALID THEN inode_table' = inode_table
                  ELSE Linking(d, boot.ninode, Last(e))
               /\ Last(e) \in Text /\ boot.ninode \in Ids
<1> DEFINE c == boot.ninode
           e == Elements(PipePaths[boot.k])
           d == Walk(Front(e))
           x == get(inode_table, d)
           name == Last(e)
           new == Link(x, c, name)
           k1 == boot.k + 1
<1>1. /\ boot.pc = "pipe_mount" /\ boot' = [boot EXCEPT !.pc = "pipe", !.k = k1]
      /\ UNCHANGED <<inode_counter, fs_table, fs_counter, vfs_root, initrds, inodes, archives,
                     calls>>
      /\ inode_table' = IF d = ID_INVALID THEN inode_table ELSE SetField(inode_table, d, new)
      /\ pipes' = add(pipes, c, boot.k)
    BY DEF pipe_mount, mount, mount_child, Link
<1>2. /\ New /\ ~Reading /\ c \in Ids /\ c + 1 = inode_counter /\ boot.k \in 1 .. Len(PipePaths)
      /\ boot \in BootType /\ Fresh = c
    BY <1>1 DEF TypeInv, VfsTypes, Place, New, Reading, Fresh
<1>3. Table(inode_table, inode_counter) /\ Counted(inode_table) /\ inode_counter \in Nat
    BY DEF TypeInv, Tables, VfsTypes
<1>4. name \in Text
    BY <1>2, PipeNames
<1> HIDE DEF new, d, name, k1, c
<1>5. Len(PipePaths) \in Nat
    BY PipeAssumption
<1>6. k1 \in 1 .. Len(PipePaths) + 1 /\ k1 \in Nat /\ c \in Nat /\ c <= c
    BY <1>2, <1>5, Invalid DEF k1
<1>7. boot' \in BootType /\ boot'.pc = "pipe" /\ boot'.k = k1
    BY <1>1, <1>2, <1>6 DEF BootType, PCs
<1>8. /\ VfsTypes'
      /\ Table(inode_table', inode_counter') /\ Counted(inode_table')
      /\ Table(fs_table', fs_counter') /\ Counted(fs_table')
  <2>1. CASE inode_table' = inode_table
      BY <1>1, <1>7, <2>1 DEF TypeInv, VfsTypes, Tables
  <2>2. CASE inode_table' = SetField(inode_table, d, new)
    <3>1. Written(inode_table, inode_table', inode_counter, d, new)
        BY <1>3, <2>2, WrittenIs
    <3>2. has(inode_table, d) => new \in Inode /\ new.id = d
      <4> SUFFICES ASSUME has(inode_table, d) PROVE new \in Inode /\ new.id = d
          OBVIOUS
      <4>1. d \in Nat
          BY <3>1 DEF Written
      <4>2. x \in Inode /\ x.id = d
          BY <4>1 DEF TypeInv, VfsTypes, Typed
      <4> HIDE DEF x
      <4> QED BY <1>2, <1>4, <4>2, LinkIs DEF new
    <3> QED BY <1>1, <1>7, <3>1, <3>2, WritingOn
  <2> QED BY <1>1, <2>1, <2>2
<1>9. ~New' /\ ~Reading' /\ Fresh' = inode_counter
    BY <1>1, <1>7 DEF New, Reading, Fresh
<1>10. Tables'
  <2>1. Table(inodes, c) /\ Counted(inodes) /\ Table(pipes, c) /\ Counted(pipes)
      BY <1>2 DEF TypeInv, Tables
  <2>2. Table(inodes, c + 1)
      BY <1>6, <2>1, TableMono
  <2>3. Made(pipes, pipes', c, boot.k)
      BY <1>1, <1>6, <2>1, MadeIs
  <2>4. Table(inodes, inode_counter) /\ Table(pipes', inode_counter) /\ Counted(pipes')
      BY <1>2, <2>2, <2>3 DEF Made
  <2> QED BY <1>1, <1>8, <1>9, <2>1, <2>4 DEF Tables
<1>11. Place'
    BY <1>6, <1>7, <1>9 DEF Place
<1>12. d # ID_INVALID => Linking(d, c, name)
  <2>1. d # ID_INVALID => Written(inode_table, inode_table', inode_counter, d, new)
      BY <1>1, <1>3, WrittenIs
  <2> QED BY <2>1 DEF Linking, new
<1> QED BY <1>1, <1>2, <1>4, <1>8, <1>10, <1>11, <1>12 DEF TypeInv, c, d, name

LEMMA TypesBootDone ==
    ASSUME TypeInv, boot_done
    PROVE  TypeInv'
<1>1. /\ boot.pc = "pipe" /\ boot.k > Len(PipePaths) /\ boot' = [boot EXCEPT !.pc = "ready"]
      /\ UNCHANGED <<inode_table, inode_counter, fs_table, fs_counter, vfs_root, initrds,
                     inodes, pipes, archives, calls>>
    BY DEF boot_done
<1>2. boot \in BootType /\ ~New /\ Fresh = inode_counter
    BY <1>1 DEF TypeInv, VfsTypes, New, Fresh
<1>3. boot' \in BootType /\ boot'.pc = "ready" /\ boot'.k = boot.k
    BY <1>1, <1>2 DEF BootType, PCs
<1>4. ~New' /\ ~Reading' /\ Fresh' = inode_counter
    BY <1>1, <1>3 DEF New, Reading, Fresh
<1>5. VfsTypes'
    BY <1>1, <1>3 DEF TypeInv, VfsTypes
<1>6. Tables'
    BY <1>1, <1>2, <1>4 DEF TypeInv, Tables
<1>7. Place'
  <2>1. boot.k \in 1 .. Len(PipePaths) + 1 /\ Len(PipePaths) \in Nat
      BY <1>1, PipeAssumption DEF TypeInv, Place
  <2>2. boot.k = Len(PipePaths) + 1
      BY <1>1, <2>1
  <2> QED BY <1>3, <1>4, <2>2 DEF Place
<1> QED BY <1>5, <1>6, <1>7 DEF TypeInv

\* After boot nothing is read and nothing is left half done.
LEMMA Ready ==
    ASSUME TypeInv, Exported
    PROVE  /\ boot.pc = "ready" /\ ~New /\ ~Reading /\ Fresh = inode_counter
           /\ ~New' /\ ~Reading' /\ Fresh' = inode_counter' /\ Place'
           /\ boot \in BootType /\ calls' = calls + 1
           /\ UNCHANGED <<fs_counter, vfs_root, initrds, inodes, pipes, boot, archives>>
<1>1. /\ boot.pc = "ready" /\ calls' = calls + 1
      /\ UNCHANGED <<fs_counter, vfs_root, initrds, inodes, pipes, boot, archives>>
    BY DEF Exported
<1>2. ~New /\ ~Reading /\ Fresh = inode_counter /\ boot \in BootType
    BY <1>1 DEF New, Reading, Fresh, TypeInv, VfsTypes
<1>3. ~New' /\ ~Reading' /\ Fresh' = inode_counter'
    BY <1>1 DEF New, Reading, Fresh
<1>4. boot.k = Len(PipePaths) + 1
    BY <1>1 DEF TypeInv, Place
<1>5. Place'
    BY <1>1, <1>3, <1>4 DEF Place
<1> QED BY <1>1, <1>2, <1>3, <1>5

LEMMA TypesCreate ==
    ASSUME TypeInv, create_inode("NORMAL_FILE")
    PROVE  TypeInv' /\ MadeAs("NORMAL_FILE", "none")
<1> DEFINE n == inode_counter
           new == NewInode(n, "NORMAL_FILE")
<1>1. /\ Exported /\ n < MaxInodes /\ inode_counter' = n + 1 /\ fs_table' = fs_table
      /\ inode_table' = add(inode_table, n, new)
    BY DEF create_inode, CreateInode
<1>2. n \in Ids /\ n \in Nat /\ n <= n
  <2>1. n \in 0 .. MaxInodes /\ MaxInodes \in Nat
      BY VfsAssumption DEF TypeInv, VfsTypes
  <2> QED BY <1>1, <2>1 DEF Ids
<1>3. Table(inode_table, n) /\ Counted(inode_table)
    BY DEF TypeInv, Tables
<1>4. /\ new \in Inode /\ new.id = n /\ new.children = <<>> /\ new.type = "NORMAL_FILE"
      /\ new.vtable = "none"
    BY <1>2, NewInodeIs DEF Types
<1> HIDE DEF new
<1>5. Made(inode_table, inode_table', n, new)
    BY <1>1, <1>2, <1>3, MadeIs
<1>6. /\ Place' /\ ~New /\ Fresh = n /\ Fresh' = inode_counter' /\ boot \in BootType
      /\ UNCHANGED <<fs_counter, vfs_root, initrds, inodes, pipes, boot, archives>>
    BY <1>1, Ready
<1>7. VfsTypes' /\ Table(inode_table', inode_counter') /\ Counted(inode_table')
    BY <1>1, <1>4, <1>5, <1>6, MakingOn
<1>8. Tables'
  <2>1. Table(inodes, n) /\ Counted(inodes) /\ Table(pipes, n) /\ Counted(pipes)
      BY <1>6 DEF TypeInv, Tables
  <2>2. n + 1 \in Nat /\ n <= n + 1
      BY <1>2
  <2>3. Table(inodes, n + 1) /\ Table(pipes, n + 1)
      BY <1>2, <2>1, <2>2, TableMono
  <2> QED BY <1>1, <1>6, <1>7, <2>1, <2>3 DEF TypeInv, Tables
<1>9. MadeAs("NORMAL_FILE", "none")
    BY <1>2, <1>4, <1>5, Zenon DEF MadeAs
<1> QED BY <1>6, <1>7, <1>8, <1>9 DEF TypeInv

LEMMA TypesChangeType ==
    ASSUME TypeInv, NEW id, change_type(id, "SYM_LINK")
    PROVE  TypeInv' /\ WroteType(id)
<1> DEFINE x == get(inode_table, id)
           new == [x EXCEPT !.type = "SYM_LINK"]
<1>1. /\ Exported /\ inode_table' = SetField(inode_table, id, new)
      /\ UNCHANGED <<inode_counter, fs_table>>
    BY DEF change_type, set_type
<1>2. Table(inode_table, inode_counter) /\ Counted(inode_table) /\ inode_counter \in Nat
    BY DEF TypeInv, Tables, VfsTypes
<1> HIDE DEF new
<1>3. Written(inode_table, inode_table', inode_counter, id, new)
    BY <1>1, <1>2, WrittenIs
<1>4. has(inode_table, id) =>
          /\ new \in Inode /\ new.id = id
          /\ new.children = x.children /\ new.vtable = x.vtable
  <2> SUFFICES ASSUME has(inode_table, id)
               PROVE  /\ new \in Inode /\ new.id = id
                      /\ new.children = x.children /\ new.vtable = x.vtable
      OBVIOUS
  <2>1. id \in Nat
      BY <1>3 DEF Written
  <2>2. x \in Inode /\ x.id = id
      BY <2>1 DEF TypeInv, VfsTypes, Typed
  <2> HIDE DEF x
  <2> DEFINE ty == "SYM_LINK"
  <2>3. ty \in Types /\ new = [x EXCEPT !.type = ty]
      BY DEF Types, new
  <2> HIDE DEF ty
  <2> QED BY <2>2, <2>3, InodeIs
<1>5. /\ Place' /\ Fresh = inode_counter /\ Fresh' = inode_counter' /\ boot \in BootType
      /\ UNCHANGED <<fs_counter, vfs_root, initrds, inodes, pipes, boot, archives>>
    BY <1>1, Ready
<1>6. /\ VfsTypes' /\ Table(inode_table', inode_counter') /\ Counted(inode_table')
      /\ Table(fs_table', fs_counter') /\ Counted(fs_table')
    BY <1>1, <1>3, <1>4, <1>5, WritingOn
<1>7. Tables'
    BY <1>1, <1>5, <1>6 DEF TypeInv, Tables
<1>8. WroteType(id)
    BY <1>3, <1>4 DEF WroteType
<1> QED BY <1>5, <1>6, <1>7, <1>8 DEF TypeInv

LEMMA TypesDelete ==
    ASSUME TypeInv, NEW id \in Nat, delete_inode(id)
    PROVE  TypeInv' /\ Dropped(inode_table, inode_table', inode_counter, id)
<1>1. /\ Exported /\ inode_table' = remove(inode_table, id)
      /\ UNCHANGED <<inode_counter, fs_table>>
    BY DEF delete_inode
<1>2. Table(inode_table, inode_counter) /\ Counted(inode_table) /\ inode_counter \in Nat
    BY DEF TypeInv, Tables, VfsTypes
<1>3. Dropped(inode_table, inode_table', inode_counter, id)
    BY <1>1, <1>2, DroppedIs
<1>4. Typed(inode_table')
    BY <1>3, DroppedTyped DEF TypeInv, VfsTypes
<1>5. /\ Place' /\ Fresh = inode_counter /\ Fresh' = inode_counter' /\ boot \in BootType
      /\ UNCHANGED <<fs_counter, vfs_root, initrds, inodes, pipes, boot, archives>>
    BY <1>1, Ready
<1>6. VfsTypes'
    BY <1>1, <1>4, <1>5 DEF TypeInv, VfsTypes
<1>7. Tables'
    BY <1>1, <1>3, <1>5 DEF TypeInv, Tables, Dropped
<1> QED BY <1>3, <1>5, <1>6, <1>7 DEF TypeInv

LEMMA TypesFs ==
    ASSUME TypeInv, NEW id \in 0 .. fs_counter - 1,
           change_fs(id, ID_INVALID, "none") \/ delete_fs(id)
    PROVE  TypeInv'
<1> DEFINE item == [root |-> ID_INVALID, name |-> "none"]
<1>1. /\ Exported /\ UNCHANGED <<inode_table, inode_counter>>
      /\ fs_table' = SetField(fs_table, id, item) \/ fs_table' = remove(fs_table, id)
    BY DEF change_fs, delete_fs
<1>2. Table(fs_table, fs_counter) /\ Counted(fs_table) /\ fs_counter \in Nat /\ id \in Nat
    BY DEF TypeInv, Tables, VfsTypes
<1> HIDE DEF item
<1>3. Table(fs_table', fs_counter) /\ Counted(fs_table')
  <2>1. Written(fs_table, SetField(fs_table, id, item), fs_counter, id, item)
      BY <1>2, WrittenIs
  <2>2. Dropped(fs_table, remove(fs_table, id), fs_counter, id)
      BY <1>2, DroppedIs
  <2> QED BY <1>1, <2>1, <2>2 DEF Written, Dropped
<1>4. /\ Place' /\ Fresh = inode_counter /\ Fresh' = inode_counter' /\ boot \in BootType
      /\ UNCHANGED <<fs_counter, vfs_root, initrds, inodes, pipes, boot, archives>>
    BY <1>1, Ready
<1>5. VfsTypes'
    BY <1>1, <1>4 DEF TypeInv, VfsTypes
<1>6. Tables'
    BY <1>1, <1>3, <1>4 DEF TypeInv, Tables
<1> QED BY <1>4, <1>5, <1>6 DEF TypeInv

LEMMA TypesStutter ==
    ASSUME TypeInv, UNCHANGED vars
    PROVE  TypeInv'
<1>1. UNCHANGED <<inode_table, inode_counter, fs_table, fs_counter, vfs_root, initrds, inodes,
                  pipes, boot, archives, calls>>
    BY DEF vars
<1>2. (New' <=> New) /\ (Reading' <=> Reading) /\ Fresh' = Fresh /\ CurElements' = CurElements
    BY <1>1, SameHeader DEF New, Reading, Fresh
<1>3. VfsTypes'
    BY <1>1 DEF TypeInv, VfsTypes
<1>4. Tables'
    BY <1>1, <1>2 DEF TypeInv, Tables
<1>5. Place'
    BY <1>1, <1>2 DEF TypeInv, Place
<1> QED BY <1>3, <1>4, <1>5 DEF TypeInv

LEMMA NextTypes == TypeInv /\ [Next]_vars => TypeInv'
<1> SUFFICES ASSUME TypeInv, [Next]_vars PROVE TypeInv'
    OBVIOUS
<1>1. ASSUME NEW a \in Archives, initrd_add(a) PROVE TypeInv'
    BY <1>1, TypesAdd
<1>2. CASE initrd_init
    BY <1>2, TypesInit
<1>3. CASE initrd_create
    BY <1>3, TypesCreateFs
<1>4. CASE initrd_descend
    BY <1>4, TypesDescend
<1>5. CASE initrd_create_inode
    BY <1>5, TypesCreateInode
<1>6. CASE initrd_mount_child
    BY <1>6, TypesMountChild
<1>7. CASE initrd_set_vtable
    BY <1>7, TypesSetVtable
<1>8. CASE tar_next
    BY <1>8, TypesTarNext
<1>9. CASE pipe_create
    BY <1>9, TypesPipeCreate
<1>10. CASE pipe_mount
    BY <1>10, TypesPipeMount
<1>11. CASE boot_done
    BY <1>11, TypesBootDone
<1>12. CASE create_inode("NORMAL_FILE")
    BY <1>12, TypesCreate
<1>13. ASSUME NEW id \in Handles, change_type(id, "SYM_LINK") PROVE TypeInv'
    BY <1>13, TypesChangeType
<1>14. ASSUME NEW id \in Handles, delete_inode(id) PROVE TypeInv'
  <2>1. id \in Nat
      BY VfsAssumption
  <2> QED BY <1>14, <2>1, TypesDelete
<1>15. ASSUME NEW id \in 0 .. fs_counter - 1, change_fs(id, ID_INVALID, "none") \/ delete_fs(id)
       PROVE  TypeInv'
    BY <1>15, TypesFs
<1>16. CASE UNCHANGED vars
    BY <1>16, TypesStutter
<1> QED BY <1>1, <1>2, <1>3, <1>4, <1>5, <1>6, <1>7, <1>8, <1>9, <1>10, <1>11, <1>12, <1>13,
           <1>14, <1>15, <1>16 DEF Next

LEMMA TypesAreOK == TypeInv => TypeOK
<1> SUFFICES ASSUME TypeInv PROVE TypeOK
    OBVIOUS
<1>1. Table(inode_table, inode_counter) /\ Typed(inode_table)
    BY DEF TypeInv, Tables, VfsTypes
<1>2. \A s \in Slots : inode_table.used[s] =>
          /\ inode_table.data[s] \in Inode
          /\ inode_table.keys[s] = inode_table.data[s].id
    BY <1>1, TypedSlots
<1>3. OneEach(inode_table, inode_counter) /\ OneEach(fs_table, fs_counter)
    BY Zenon DEF OneEach, TypeInv, Tables, Table, UniqueKeys, KeysBelow
<1>4. Fresh \in Nat /\ inode_counter \in Nat /\ Fresh <= inode_counter
  <2>1. inode_counter \in Nat
      BY VfsAssumption DEF TypeInv, VfsTypes
  <2>2. New => boot.ninode \in Ids /\ boot.ninode + 1 = inode_counter
      BY DEF TypeInv, Place
  <2>3. CASE New
    <3>1. Fresh = boot.ninode /\ boot.ninode \in Nat
        BY <2>2, <2>3, Invalid DEF Fresh
    <3> QED BY <2>1, <2>2, <2>3, <3>1
  <2>4. CASE ~New
    <3>1. Fresh = inode_counter
        BY <2>4 DEF Fresh
    <3> QED BY <2>1, <3>1
  <2> QED BY <2>3, <2>4
<1>5. ASSUME NEW t, Table(t, Fresh) PROVE OneEach(t, inode_counter)
  <2>1. (\E D : Record(t, D)) /\ UniqueKeys(t) /\ KeysBelow(t, Fresh)
      BY <1>5 DEF Table
  <2>2. PICK D : Record(t, D)
      BY <2>1
  <2>3. \A s \in Slots : t.keys[s] \in Nat
      BY <2>2 DEF Record
  <2> QED BY <1>4, <2>1, <2>3 DEF OneEach, UniqueKeys, KeysBelow
<1>6. OneEach(inodes, inode_counter) /\ OneEach(pipes, inode_counter)
    BY <1>5 DEF TypeInv, Tables
<1> QED BY <1>2, <1>3, <1>6 DEF TypeOK, TypeInv, Tables, VfsTypes, AnyId

\* The tables of the file system, whatever archives boot reads and whatever
\* is called after it: each counts its entries, holds no identifier twice and
\* none that was not handed out, and every entry of the inode table is an
\* inode stored under its own identifier.
THEOREM VfsTypeCorrect == Spec => []TypeOK
<1>1. TypeInv /\ [Next]_vars => TypeInv'
    BY NextTypes
<1> QED BY InitTypes, <1>1, TypesAreOK, PTL DEF Spec

-----------------------------------------------------------------------------
(***************************************************************************)
(* The walk along a path, element by element.                              *)
(***************************************************************************)

LEMMA WalkFoldable ==
    ASSUME NEW K \in Trees, NEW root \in AnyId, NEW e \in Names
    PROVE  Foldable(AnyId, Text, root, WalkStep(K), e)
<1>1. WalkStep(K) \in [AnyId \X Text -> AnyId]
    BY ChildType DEF WalkStep
<1> QED BY <1>1 DEF Foldable, Names

LEMMA WalkFolded ==
    ASSUME NEW K \in Trees, NEW root \in AnyId, NEW e \in Names
    PROVE  /\ Folded(WalkIn(K, root, e), AnyId, root, WalkStep(K), e)
           /\ WalkIn(K, root, e) \in AnyId
<1>1. Foldable(AnyId, Text, root, WalkStep(K), e)
    BY WalkFoldable
<1>2. \E v : Folded(v, AnyId, root, WalkStep(K), e)
    BY <1>1, FoldedValue
<1>3. Folded(WalkIn(K, root, e), AnyId, root, WalkStep(K), e)
    BY <1>2, Zenon DEF WalkIn
<1> QED BY <1>1, <1>3, FoldedIn

LEMMA WalkEmpty ==
    ASSUME NEW K \in Trees, NEW root \in AnyId
    PROVE  WalkIn(K, root, <<>>) = root /\ <<>> \in Names
<1>1. <<>> \in Names
    BY DEF Names
<1> QED BY <1>1, WalkFolded, FoldedEmpty

LEMMA WalkNext ==
    ASSUME NEW K \in Trees, NEW root \in AnyId, NEW e \in Names, NEW x \in Text
    PROVE  /\ Append(e, x) \in Names
           /\ WalkIn(K, root, Append(e, x)) = ChildIn(K, WalkIn(K, root, e), x)
<1>1. Append(e, x) \in Names
    BY AppendProperties DEF Names
<1>2. Foldable(AnyId, Text, root, WalkStep(K), e)
    BY WalkFoldable
<1>3. /\ Folded(WalkIn(K, root, e), AnyId, root, WalkStep(K), e)
      /\ Folded(WalkIn(K, root, Append(e, x)), AnyId, root, WalkStep(K), Append(e, x))
      /\ WalkIn(K, root, e) \in AnyId
    BY <1>1, WalkFolded
<1>4. WalkIn(K, root, Append(e, x)) = WalkStep(K)[<<WalkIn(K, root, e), x>>]
    BY <1>2, <1>3, FoldedAppend
<1> QED BY <1>1, <1>3, <1>4 DEF WalkStep

LEMMA WalkIs ==
    ASSUME TypeInv, NEW e \in Names
    PROVE  Walk(e) = WalkIn(Tree(inode_table), vfs_root, e) /\ Walk(e) \in AnyId
<1> DEFINE N == Len(e)
           D == SUBSET (1 .. N)
           K == Tree(inode_table)
           g == WalkStep(K)
           Step(c, x) == IF c = ID_INVALID THEN ID_INVALID ELSE get_child(c, x)
           Eq(it) == it = [d \in D |-> IF d = {} THEN vfs_root
                                       ELSE Step(it[d \ {Max(d)}], e[Max(d)])]
           it0 == CHOOSE it : Eq(it)
<1>1. N \in Nat /\ DOMAIN e = 1 .. N
    BY DEF Names
<1>2. Walk(e) = it0[1 .. N]
    BY <1>1, Zenon DEF Walk, FoldLeft, MapThenFoldSet
<1>3. vfs_root \in AnyId /\ K \in Trees
    BY TreeIn DEF TypeInv, Tables, VfsTypes
<1>4. Foldable(AnyId, Text, vfs_root, g, e)
    BY <1>3, WalkFoldable
<1>5. ASSUME NEW c \in AnyId, NEW x \in Text PROVE Step(c, x) = g[<<c, x>>]
  <2>1. g[<<c, x>>] = ChildIn(K, c, x)
      BY DEF WalkStep
  <2>2. get_child(c, x) = ChildIn(K, c, x) /\ ChildIn(K, ID_INVALID, x) = ID_INVALID
      BY <1>3, ChildIs, ChildType
  <2> QED BY <2>1, <2>2
<1> HIDE DEF g, Step, K
<1>6. PICK it \in [D -> AnyId] :
          /\ FoldsOver(it, vfs_root, g, e)
          /\ \A d \in D : d # {} => it[d \ {Max(d)}] \in AnyId /\ e[Max(d)] \in Text
  <2>1. HasFold(AnyId, Text, vfs_root, g, e)
      BY <1>4, FoldExists
  <2> QED BY <2>1 DEF HasFold
<1>7. Eq(it)
  <2> DEFINE R(d) == IF d = {} THEN vfs_root ELSE Step(it[d \ {Max(d)}], e[Max(d)])
  <2>1. \A d \in D : it[d] = R(d)
      BY <1>5, <1>6 DEF FoldsOver
  <2> HIDE DEF R, D
  <2>2. it = [d \in D |-> R(d)]
      BY <2>1
  <2> QED BY <2>2 DEF R
<1>8. Eq(it0)
  <2> HIDE DEF Eq
  <2> QED BY <1>7
<1> HIDE DEF it0
<1>9. it0[{}] = vfs_root
    BY <1>8
<1>10. ASSUME NEW d \in D, d # {}, it0[d \ {Max(d)}] \in AnyId
       PROVE  it0[d] = g[<<it0[d \ {Max(d)}], e[Max(d)]>>]
  <2>1. it0[d] = Step(it0[d \ {Max(d)}], e[Max(d)])
      BY <1>8, <1>10
  <2>2. e[Max(d)] \in Text
      BY <1>6, <1>10
  <2> QED BY <1>5, <1>10, <2>1, <2>2
<1>11. Unrolls(it0, AnyId, vfs_root, g, e)
    BY <1>9, <1>10 DEF Unrolls
<1>12. Folded(Walk(e), AnyId, vfs_root, g, e)
    BY <1>2, <1>4, <1>11, FoldUnroll
<1>13. Folded(WalkIn(K, vfs_root, e), AnyId, vfs_root, g, e) /\ WalkIn(K, vfs_root, e) \in AnyId
    BY <1>3, WalkFolded DEF g
<1> QED BY <1>4, <1>12, <1>13, FoldedUnique DEF K

-----------------------------------------------------------------------------
(***************************************************************************)
(* Trees as boot builds them.                                              *)
(***************************************************************************)

\* The children of an inode are younger than it, and ordered by age; none
\* has two parents and the root has none.
Linked(K, root, bound) ==
    /\ root < bound
    /\ \A id \in AnyId : \A n \in 1 .. Len(K[id]) :
          /\ id < K[id][n].inode /\ K[id][n].inode < bound
          /\ K[id][n].inode # root
          /\ \A m \in 1 .. n - 1 : K[id][m].inode < K[id][n].inode
    /\ \A p, q \in AnyId : \A n \in 1 .. Len(K[p]), m \in 1 .. Len(K[q]) :
          K[p][n].inode = K[q][m].inode => p = q

\* A child that an older one of its name hides has no children.
Hidden(K) ==
    \A id \in AnyId : \A n, m \in 1 .. Len(K[id]) :
        m < n /\ K[id][m].name = K[id][n].name => K[K[id][n].inode] = <<>>

NamesDiffer(K) ==
    \A id \in AnyId : \A n, m \in 1 .. Len(K[id]) : K[id][m].name = K[id][n].name => n = m

\* The tree after a mount, and after an inode was deleted.
Mount(K, d, c, name) == [K EXCEPT ![d] = Append(@, [inode |-> c, name |-> name])]
Prune(K, id) == [K EXCEPT ![id] = <<>>]

LEMMA KidIn ==
    ASSUME NEW K \in Trees, NEW id \in AnyId
    PROVE  /\ K[id] \in Seq(Kid) /\ Len(K[id]) \in Nat
           /\ \A n \in 1 .. Len(K[id]) : /\ K[id][n] \in Kid /\ K[id][n].inode \in Ids
                                         /\ K[id][n].inode \in AnyId /\ K[id][n].name \in Text
<1>1. K[id] \in Seq(Kid) /\ Len(K[id]) \in Nat
    BY DEF Trees
<1>2. ASSUME NEW n \in 1 .. Len(K[id]) PROVE K[id][n] \in Kid
    BY <1>1, ElementOfSeq
<1> QED BY <1>1, <1>2 DEF Kid, AnyId

\* Two links to an inode are one.
LEMMA LinkUnique ==
    ASSUME NEW K \in Trees, NEW root, NEW bound, Linked(K, root, bound),
           NEW p \in AnyId, NEW q \in AnyId, NEW n \in 1 .. Len(K[p]), NEW m \in 1 .. Len(K[q]),
           K[p][n].inode = K[q][m].inode
    PROVE  p = q /\ n = m
<1>1. p = q
    BY DEF Linked
<1>2. n \in Nat /\ m \in Nat /\ Len(K[p]) \in Nat
    BY KidIn
<1>3. K[p][n].inode \in Nat /\ K[q][m].inode \in Nat
    BY KidIn, Invalid
<1>4. CASE n < m
  <2>1. n \in 1 .. m - 1
      BY <1>2, <1>4
  <2>2. K[q][n].inode < K[q][m].inode
      BY <2>1 DEF Linked
  <2> QED BY <1>1, <1>3, <2>2
<1>5. CASE m < n
  <2>1. m \in 1 .. n - 1
      BY <1>2, <1>5
  <2>2. K[p][m].inode < K[p][n].inode
      BY <2>1 DEF Linked
  <2> QED BY <1>1, <1>3, <2>2
<1> QED BY <1>1, <1>2, <1>4, <1>5

\* A walk goes up in age, and stays among the inodes that are linked.
LEMMA WalkBelow ==
    ASSUME NEW K \in Trees, NEW bound \in Nat, NEW root \in AnyId, Linked(K, root, bound),
           NEW e \in Names
    PROVE  /\ WalkIn(K, root, e) < bound
           /\ WalkIn(K, root, e) # ID_INVALID => Len(e) <= WalkIn(K, root, e)
<1> DEFINE W(d) == WalkIn(K, root, d)
           S == {d \in Seq(Text) : W(d) < bound /\ (W(d) # ID_INVALID => Len(d) <= W(d))}
<1>1. <<>> \in S
  <2>1. W(<<>>) = root /\ <<>> \in Seq(Text) /\ Len(<<>>) = 0
      BY WalkEmpty
  <2>2. root # ID_INVALID => root \in Nat
      BY Invalid DEF AnyId
  <2> HIDE DEF W
  <2>3. root < bound
      BY DEF Linked
  <2> QED BY <2>1, <2>2, <2>3
<1>2. ASSUME NEW d \in Seq(Text), d \in S, NEW x \in Text PROVE Append(d, x) \in S
  <2> DEFINE id == W(d)
             c == W(Append(d, x))
  <2>1. d \in Names /\ id \in AnyId /\ c = ChildIn(K, id, x) /\ Append(d, x) \in Seq(Text)
        /\ Len(Append(d, x)) = Len(d) + 1 /\ Len(d) \in Nat
      BY WalkFolded, WalkNext, AppendProperties DEF Names
  <2>2. id < bound /\ (id # ID_INVALID => Len(d) <= id)
      BY <1>2
  <2> HIDE DEF W, id, c
  <2>3. CASE Named(K, id, x) = {}
    <3>1. c = ID_INVALID
        BY <2>1, <2>3, ChildType
    <3>2. ID_INVALID < bound
        BY Invalid
    <3> QED BY <2>1, <3>1, <3>2 DEF c
  <2>4. CASE Named(K, id, x) # {}
    <3> DEFINE n == Min(Named(K, id, x))
    <3>1. n \in 1 .. Len(K[id]) /\ c = K[id][n].inode
        BY <2>1, <2>4, FirstNamed
    <3> HIDE DEF n
    <3>2. id < c /\ c < bound /\ c \in Nat /\ id # ID_INVALID
      <4>1. id < c /\ c < bound
          BY <2>1, <3>1 DEF Linked
      <4>2. c \in Nat
          BY <2>1, <3>1, KidIn, Invalid
      <4>3. id # ID_INVALID
          BY <2>1, <2>4, ChildType, FirstNamed
      <4> QED BY <4>1, <4>2, <4>3
    <3>3. id \in Nat
        BY <2>1, <3>2, Invalid DEF AnyId
    <3>4. Len(d) + 1 <= c
        BY <2>1, <2>2, <3>2, <3>3
    <3> QED BY <2>1, <3>2, <3>4 DEF c
  <2> QED BY <2>3, <2>4
<1>3. Seq(Text) \subseteq S
  <2> HIDE DEF S
  <2> QED BY <1>1, <1>2, SeqInduction
<1> QED BY <1>3 DEF Names

\* An inode that a path leads to is not hidden.
LEMMA WalkOpen ==
    ASSUME NEW K \in Trees, NEW bound \in Nat, NEW root \in AnyId, Linked(K, root, bound),
           NEW e \in Names, NEW id \in AnyId, NEW n \in 1 .. Len(K[id]),
           NEW m \in 1 .. Len(K[id]), m < n, K[id][m].name = K[id][n].name
    PROVE  K[id][n].inode # WalkIn(K, root, e)
<1> DEFINE c == K[id][n].inode
           S == {d \in Seq(Text) : WalkIn(K, root, d) # c}
<1>0. c # root /\ c # ID_INVALID /\ n \in Nat /\ m \in Nat
    BY KidIn, Invalid DEF Linked
<1>1. <<>> \in S
    BY <1>0, WalkEmpty
<1>2. ASSUME NEW d \in Seq(Text), d \in S, NEW x \in Text PROVE Append(d, x) \in S
  <2> DEFINE p == WalkIn(K, root, d)
  <2>1. p \in AnyId /\ WalkIn(K, root, Append(d, x)) = ChildIn(K, p, x)
        /\ Append(d, x) \in Seq(Text)
      BY WalkFolded, WalkNext DEF Names
  <2> HIDE DEF p
  <2>2. ChildIn(K, p, x) # c
    <3>1. CASE Named(K, p, x) = {}
        BY <1>0, <2>1, <3>1, ChildType
    <3>2. CASE Named(K, p, x) # {}
      <4> DEFINE k == Min(Named(K, p, x))
      <4>1. /\ k \in 1 .. Len(K[p]) /\ ChildIn(K, p, x) = K[p][k].inode /\ K[p][k].name = x
            /\ \A j \in 1 .. Len(K[p]) : K[p][j].name = x => k <= j
          BY <2>1, <3>2, FirstNamed
      <4> HIDE DEF k
      <4> SUFFICES ASSUME K[p][k].inode = c PROVE FALSE
          BY <4>1
      <4>2. p = id /\ k = n
          BY <2>1, <4>1, LinkUnique
      <4>3. n <= m
          BY <4>1, <4>2
      <4> QED BY <1>0, <4>3
    <3> QED BY <3>1, <3>2
  <2> QED BY <2>1, <2>2
<1>3. Seq(Text) \subseteq S
  <2> HIDE DEF S
  <2> QED BY <1>1, <1>2, SeqInduction
<1> QED BY <1>3 DEF Names

-----------------------------------------------------------------------------
(* How a mount and a deletion change the tree.                             *)

LEMMA MountIs ==
    ASSUME NEW K \in Trees, NEW d \in Ids, NEW c \in Ids, NEW name \in Text
    PROVE  LET N == Mount(K, d, c, name) IN
           /\ N \in Trees /\ Len(N[d]) = Len(K[d]) + 1
           /\ \A id \in AnyId : id # d => N[id] = K[id]
           /\ \A n \in 1 .. Len(K[d]) : N[d][n] = K[d][n]
           /\ N[d][Len(K[d]) + 1].inode = c /\ N[d][Len(K[d]) + 1].name = name
<1> DEFINE k == [inode |-> c, name |-> name]
           s == Append(K[d], k)
           N == Mount(K, d, c, name)
<1>1. k \in Kid /\ k.inode = c /\ k.name = name
    BY DEF Kid
<1> HIDE DEF k
<1>2. /\ s \in Seq(Kid) /\ Len(s) = Len(K[d]) + 1 /\ s[Len(K[d]) + 1] = k
      /\ \A n \in 1 .. Len(K[d]) : s[n] = K[d][n]
  <2>1. K[d] \in Seq(Kid)
      BY KidIn DEF AnyId
  <2> QED BY <1>1, <2>1, AppendProperties
<1>3. N = [K EXCEPT ![d] = s]
    BY DEF Mount, k
<1> HIDE DEF s, N
<1>4. K \in [AnyId -> Seq(Kid)] /\ K[ID_INVALID] = <<>> /\ d \in AnyId /\ d # ID_INVALID
    BY Invalid DEF Trees, AnyId
<1>5. N \in [AnyId -> Seq(Kid)] /\ N[d] = s /\ \A id \in AnyId : id # d => N[id] = K[id]
    BY <1>2, <1>3, <1>4
<1>6. N[ID_INVALID] = <<>>
    BY <1>4, <1>5, Invalid
<1> QED BY <1>1, <1>2, <1>5, <1>6 DEF Trees, N

\* A link of the new tree is one of the old, or the new one.
LEMMA MountLinks ==
    ASSUME NEW K \in Trees, NEW d \in Ids, NEW c \in Ids, NEW name \in Text,
           NEW id \in AnyId, NEW n \in 1 .. Len(Mount(K, d, c, name)[id])
    PROVE  LET N == Mount(K, d, c, name) IN
           /\ n \in Nat
           /\ \/ n \in 1 .. Len(K[id]) /\ N[id][n] = K[id][n]
              \/ /\ id = d /\ n = Len(K[d]) + 1 /\ N[id][n].inode = c /\ N[id][n].name = name
<1> DEFINE N == Mount(K, d, c, name)
<1>1. /\ N \in Trees /\ Len(N[d]) = Len(K[d]) + 1
      /\ \A i \in AnyId : i # d => N[i] = K[i]
      /\ \A i \in 1 .. Len(K[d]) : N[d][i] = K[d][i]
      /\ N[d][Len(K[d]) + 1].inode = c /\ N[d][Len(K[d]) + 1].name = name
    BY MountIs
<1> HIDE DEF N
<1>2. n \in 1 .. Len(N[id]) /\ Len(N[id]) \in Nat /\ Len(K[id]) \in Nat
    BY <1>1, KidIn DEF N
<1>3. CASE id # d
    BY <1>1, <1>2, <1>3 DEF N
<1>4. CASE id = d
  <2>1. n \in 1 .. Len(K[d]) \/ n = Len(K[d]) + 1
      BY <1>1, <1>2, <1>4
  <2> QED BY <1>1, <1>2, <1>4, <2>1 DEF N
<1> QED BY <1>3, <1>4

LEMMA MountLinked ==
    ASSUME NEW K \in Trees, NEW d \in Ids, NEW c \in Ids, NEW name \in Text,
           NEW root \in AnyId, Linked(K, root, c), d < c
    PROVE  Linked(Mount(K, d, c, name), root, c + 1)
<1> DEFINE N == Mount(K, d, c, name)
<1>1. N \in Trees /\ c \in Nat /\ d \in Nat /\ Len(K[d]) \in Nat
    BY MountIs, Invalid, KidIn DEF AnyId
<1>2. ASSUME NEW id \in AnyId, NEW n \in 1 .. Len(N[id])
      PROVE  /\ n \in Nat
             /\ \/ n \in 1 .. Len(K[id]) /\ N[id][n] = K[id][n]
                \/ id = d /\ n = Len(K[d]) + 1 /\ N[id][n].inode = c
    BY MountLinks
<1> HIDE DEF N
<1>3. root < c /\ root \in Int
    BY Invalid DEF Linked, AnyId
<1>4. ASSUME NEW id \in AnyId, NEW n \in 1 .. Len(K[id])
      PROVE  /\ K[id][n].inode \in Nat /\ id < K[id][n].inode /\ K[id][n].inode < c
             /\ K[id][n].inode # root
             /\ \A m \in 1 .. n - 1 : K[id][m].inode < K[id][n].inode
    BY KidIn, Invalid DEF Linked
<1>5. ASSUME NEW id \in AnyId, NEW n \in 1 .. Len(N[id])
      PROVE  /\ id < N[id][n].inode /\ N[id][n].inode < c + 1 /\ N[id][n].inode # root
             /\ \A m \in 1 .. n - 1 : N[id][m].inode < N[id][n].inode
  <2>1. CASE n \in 1 .. Len(K[id]) /\ N[id][n] = K[id][n]
    <3>1. ASSUME NEW m \in 1 .. n - 1 PROVE N[id][m] = K[id][m]
      <4>1. m \in 1 .. Len(N[id]) /\ m \in 1 .. Len(K[id]) /\ m # Len(K[id]) + 1
        <5>1. Len(N[id]) \in Nat /\ Len(K[id]) \in Nat /\ n <= Len(K[id]) /\ n <= Len(N[id])
            BY <1>1, <2>1, KidIn
        <5> QED BY <1>2, <5>1
      <4> QED BY <1>2, <4>1
    <3>2. N[id][n].inode \in Nat /\ id < N[id][n].inode /\ N[id][n].inode < c
          /\ N[id][n].inode # root
        BY <1>4, <2>1
    <3> DEFINE x == N[id][n].inode
    <3>3. x \in Nat /\ x < c
        BY <3>2
    <3> HIDE DEF x
    <3>4. x < c + 1
        BY <1>1, <3>3
    <3> QED BY <1>4, <2>1, <3>1, <3>2, <3>4 DEF x
  <2>2. CASE id = d /\ n = Len(K[d]) + 1 /\ N[id][n].inode = c
    <3>1. ASSUME NEW m \in 1 .. n - 1 PROVE N[id][m].inode < c
      <4>1. m \in 1 .. Len(N[id]) /\ m \in 1 .. Len(K[id]) /\ m # Len(K[d]) + 1
        <5>1. Len(N[id]) \in Nat /\ n <= Len(N[id])
            BY <1>1, KidIn
        <5> QED BY <1>1, <1>2, <2>2, <5>1
      <4>2. N[id][m] = K[id][m]
          BY <1>2, <4>1
      <4> QED BY <1>4, <4>1, <4>2
    <3> QED BY <1>1, <1>3, <2>2, <3>1
  <2> QED BY <1>2, <2>1, <2>2
<1>6. ASSUME NEW p \in AnyId, NEW q \in AnyId, NEW n \in 1 .. Len(N[p]), NEW m \in 1 .. Len(N[q]),
             N[p][n].inode = N[q][m].inode
      PROVE  p = q
  <2>1. CASE n \in 1 .. Len(K[p]) /\ N[p][n] = K[p][n]
    <3>1. CASE m \in 1 .. Len(K[q]) /\ N[q][m] = K[q][m]
        BY <1>6, <2>1, <3>1 DEF Linked
    <3>2. CASE q = d /\ N[q][m].inode = c
        BY SMTT(30), <1>1, <1>4, <1>6, <2>1, <3>2
    <3> QED BY <1>2, <3>1, <3>2
  <2>2. CASE p = d /\ N[p][n].inode = c
    <3>1. CASE m \in 1 .. Len(K[q]) /\ N[q][m] = K[q][m]
        BY SMTT(30), <1>1, <1>4, <1>6, <2>2, <3>1
    <3>2. CASE q = d
        BY <2>2, <3>2
    <3> QED BY <1>2, <3>1, <3>2
  <2> QED BY <1>2, <2>1, <2>2
<1>7. root < c + 1
    BY <1>1, <1>3
<1> QED BY <1>5, <1>6, <1>7 DEF Linked, N

\* A mount in a directory that is not hidden, of an inode without children.
LEMMA MountHidden ==
    ASSUME NEW K \in Trees, NEW d \in Ids, NEW c \in Ids, NEW name \in Text,
           Hidden(K), d # c, K[c] = <<>>,
           \A id \in AnyId : \A n, m \in 1 .. Len(K[id]) :
               m < n /\ K[id][m].name = K[id][n].name => K[id][n].inode # d
    PROVE  Hidden(Mount(K, d, c, name))
<1> DEFINE N == Mount(K, d, c, name)
<1>1. N \in Trees /\ (\A id \in AnyId : id # d => N[id] = K[id]) /\ Len(K[d]) \in Nat
    BY MountIs, KidIn DEF AnyId
<1>2. ASSUME NEW id \in AnyId, NEW n \in 1 .. Len(N[id])
      PROVE  /\ n \in Nat
             /\ \/ n \in 1 .. Len(K[id]) /\ N[id][n] = K[id][n]
                \/ id = d /\ n = Len(K[d]) + 1 /\ N[id][n].inode = c
    BY MountLinks
<1> HIDE DEF N
<1> SUFFICES ASSUME NEW id \in AnyId, NEW n \in 1 .. Len(N[id]), NEW m \in 1 .. Len(N[id]),
                    m < n, N[id][m].name = N[id][n].name
             PROVE  N[N[id][n].inode] = <<>>
    BY DEF Hidden, N
<1>3. c \in AnyId /\ n \in Nat /\ m \in Nat
    BY <1>2 DEF AnyId
<1>4. CASE N[id][n].inode = c
    BY <1>1, <1>3, <1>4
<1>5. CASE n \in 1 .. Len(K[id]) /\ N[id][n] = K[id][n]
  <2>1. m \in 1 .. Len(K[id])
    <3>1. Len(K[id]) \in Nat
        BY KidIn
    <3> QED BY <1>3, <1>5, <3>1
  <2>2. N[id][m] = K[id][m]
      BY <1>2, <1>3, <2>1
  <2>3. K[K[id][n].inode] = <<>> /\ K[id][n].inode # d /\ K[id][n].inode \in AnyId
      BY <1>5, <2>1, <2>2, KidIn DEF Hidden
  <2> QED BY <1>1, <1>5, <2>3
<1> QED BY <1>2, <1>4, <1>5

LEMMA MountDiffer ==
    ASSUME NEW K \in Trees, NEW d \in Ids, NEW c \in Ids, NEW name \in Text,
           NamesDiffer(K), Named(K, d, name) = {}
    PROVE  NamesDiffer(Mount(K, d, c, name))
<1> DEFINE N == Mount(K, d, c, name)
<1>1. ASSUME NEW id \in AnyId, NEW n \in 1 .. Len(N[id])
      PROVE  \/ n \in 1 .. Len(K[id]) /\ N[id][n] = K[id][n]
             \/ id = d /\ n = Len(K[d]) + 1 /\ N[id][n].name = name
    BY MountLinks
<1> HIDE DEF N
<1>2. \A n \in 1 .. Len(K[d]) : K[d][n].name # name
    BY DEF Named
<1> SUFFICES ASSUME NEW id \in AnyId, NEW n \in 1 .. Len(N[id]), NEW m \in 1 .. Len(N[id]),
                    N[id][m].name = N[id][n].name
             PROVE  n = m
    BY DEF NamesDiffer, N
<1> QED BY SMTT(30), <1>1, <1>2 DEF NamesDiffer

LEMMA DifferHidden ==
    ASSUME NEW K \in Trees, NamesDiffer(K)
    PROVE  Hidden(K)
<1> SUFFICES ASSUME NEW id \in AnyId, NEW n \in 1 .. Len(K[id]), NEW m \in 1 .. Len(K[id]),
                    m < n, K[id][m].name = K[id][n].name
             PROVE  FALSE
    BY DEF Hidden
<1>1. n = m
    BY DEF NamesDiffer
<1>2. Len(K[id]) \in Nat
    BY KidIn
<1> QED BY <1>1, <1>2

LEMMA PruneKeeps ==
    ASSUME NEW K \in Trees, NEW id \in Ids, NEW root, NEW bound, Linked(K, root, bound), Hidden(K)
    PROVE  /\ Prune(K, id) \in Trees
           /\ Linked(Prune(K, id), root, bound) /\ Hidden(Prune(K, id))
<1> DEFINE N == Prune(K, id)
<1>1. K \in [AnyId -> Seq(Kid)] /\ K[ID_INVALID] = <<>> /\ id \in AnyId /\ <<>> \in Seq(Kid)
    BY DEF Trees, AnyId
<1>2. N \in [AnyId -> Seq(Kid)] /\ N[id] = <<>> /\ \A i \in AnyId : i # id => N[i] = K[i]
    BY <1>1 DEF Prune
<1>3. N \in Trees
    BY <1>1, <1>2, Invalid DEF Trees
<1> HIDE DEF N
<1>4. \A i \in AnyId : \A n \in 1 .. Len(N[i]) : i # id /\ n \in 1 .. Len(K[i]) /\ N[i][n] = K[i][n]
    BY <1>2
<1>5. Linked(N, root, bound)
  <2>1. root < bound
      BY DEF Linked
  <2>2. ASSUME NEW i \in AnyId, NEW n \in 1 .. Len(N[i])
        PROVE  /\ i < N[i][n].inode /\ N[i][n].inode < bound
               /\ N[i][n].inode # root
               /\ \A m \in 1 .. n - 1 : N[i][m].inode < N[i][n].inode
    <3>1. i # id /\ n \in 1 .. Len(K[i]) /\ N[i][n] = K[i][n] /\ N[i] = K[i]
        BY <1>2, <1>4
    <3>2. /\ i < K[i][n].inode /\ K[i][n].inode < bound /\ K[i][n].inode # root
          /\ \A m \in 1 .. n - 1 : K[i][m].inode < K[i][n].inode
        BY <3>1 DEF Linked
    <3> QED BY <3>1, <3>2
  <2>3. ASSUME NEW p \in AnyId, NEW q \in AnyId, NEW n \in 1 .. Len(N[p]),
               NEW m \in 1 .. Len(N[q]), N[p][n].inode = N[q][m].inode
        PROVE  p = q
    <3>1. /\ n \in 1 .. Len(K[p]) /\ N[p][n] = K[p][n]
          /\ m \in 1 .. Len(K[q]) /\ N[q][m] = K[q][m]
        BY <1>4
    <3>2. K[p][n].inode = K[q][m].inode
        BY <2>3, <3>1
    <3> QED BY <3>1, <3>2 DEF Linked
  <2> QED BY <2>1, <2>2, <2>3 DEF Linked
<1>6. Hidden(N)
  <2> SUFFICES ASSUME NEW i \in AnyId, NEW n \in 1 .. Len(N[i]), NEW m \in 1 .. Len(N[i]),
                      m < n, N[i][m].name = N[i][n].name
               PROVE  N[N[i][n].inode] = <<>>
      BY DEF Hidden
  <2>1. K[K[i][n].inode] = <<>> /\ K[i][n].inode \in AnyId /\ N[i][n] = K[i][n]
      BY <1>4, KidIn DEF Hidden
  <2> QED BY <1>2, <2>1
<1> QED BY <1>3, <1>5, <1>6 DEF N

-----------------------------------------------------------------------------
(* What a step does to the tree in the table.                              *)

LEMMA NoKids ==
    ASSUME NEW t, NEW n, Table(t, n)
    PROVE  /\ Tree(t)[ID_INVALID] = <<>>
           /\ \A id \in AnyId : Tree(t)[id] = Kids(t, id)
           /\ \A id \in AnyId : ~has(t, id) => Tree(t)[id] = <<>>
<1>1. ~has(t, ID_INVALID)
    BY FindNothing, Invalid
<1> QED BY <1>1, Invalid DEF Tree, Kids

LEMMA TreeEqual ==
    ASSUME NEW t, NEW u, NEW n, Table(t, n), NEW m, Table(u, m),
           \A id \in Ids : Kids(u, id) = Kids(t, id)
    PROVE  Tree(u) = Tree(t)
<1>1. Kids(u, ID_INVALID) = Kids(t, ID_INVALID)
    BY NoKids, Invalid
<1>2. \A id \in AnyId : Kids(u, id) = Kids(t, id)
    BY <1>1 DEF AnyId
<1> QED BY <1>2 DEF Tree

LEMMA TreeMade ==
    ASSUME NEW t, NEW u, NEW n \in Ids, NEW new, Table(t, n), Made(t, u, n, new),
           new.children = <<>>
    PROVE  Tree(u) = Tree(t) /\ Tree(t)[n] = <<>>
<1>1. Same(t, u, Nat \ {n}) /\ ~has(t, n) /\ (has(u, n) => get(u, n) = new) /\ Table(u, n + 1)
    BY DEF Made
<1>2. ASSUME NEW id \in Ids PROVE Kids(u, id) = Kids(t, id)
  <2>1. id \in Nat
      BY Invalid
  <2> QED BY <1>1, <2>1 DEF Same, Kids
<1>3. Tree(u) = Tree(t)
    BY <1>1, <1>2, TreeEqual
<1> QED BY <1>1, <1>3, NoKids DEF AnyId

LEMMA TreeWritten ==
    ASSUME NEW t, NEW u, NEW n, NEW k, NEW new, Table(t, n), Written(t, u, n, k, new),
           has(t, k) => new.children = get(t, k).children
    PROVE  Tree(u) = Tree(t)
<1>1. /\ Same(t, u, Nat \ {k}) /\ (k \in Nat => (has(u, k) <=> has(t, k))) /\ Table(u, n)
      /\ has(t, k) => get(u, k) = new
    BY DEF Written
<1>2. ASSUME NEW id \in Ids PROVE Kids(u, id) = Kids(t, id)
  <2>1. id \in Nat
      BY Invalid
  <2> QED BY <1>1, <2>1 DEF Same, Kids
<1> QED BY <1>1, <1>2, TreeEqual

LEMMA TreeLinked ==
    ASSUME NEW t, NEW u, NEW n, NEW d, NEW c \in Ids, NEW name \in Text, Table(t, n), Typed(t),
           Written(t, u, n, d, Link(get(t, d), c, name))
    PROVE  /\ has(t, d) => d \in Ids /\ Tree(u) = Mount(Tree(t), d, c, name)
           /\ ~has(t, d) => Tree(u) = Tree(t)
<1> DEFINE new == Link(get(t, d), c, name)
           k == [inode |-> c, name |-> name]
<1>1. /\ Same(t, u, Nat \ {d}) /\ (d \in Nat => (has(u, d) <=> has(t, d))) /\ Table(u, n)
      /\ has(t, d) => get(u, d) = new /\ d \in Nat
    BY DEF Written
<1>2. ASSUME ~has(t, d) PROVE Tree(u) = Tree(t)
    BY <1>2, TreeWritten
<1>3. ASSUME has(t, d) PROVE d \in Ids /\ Tree(u) = Mount(Tree(t), d, c, name)
  <2>1. get(t, d) \in Inode /\ get(t, d).id = d /\ d \in Nat
      BY <1>1, <1>3 DEF Typed
  <2>2. d \in Ids
      BY <2>1, InodeFields
  <2>3. new.children = Append(get(t, d).children, k)
      BY <2>1, LinkIs
  <2> HIDE DEF new, k
  <2>4. Kids(u, d) = Append(Kids(t, d), k)
      BY <1>1, <1>3, <2>1, <2>3 DEF Kids
  <2>5. ASSUME NEW id \in AnyId, id # d PROVE Kids(u, id) = Kids(t, id)
    <3>1. CASE id = ID_INVALID
        BY <1>1, <3>1, NoKids, Invalid
    <3>2. CASE id \in Nat
        BY <1>1, <2>5, <3>2 DEF Same, Kids
    <3> QED BY <3>1, <3>2, Invalid DEF AnyId
  <2>6. Tree(u) = [Tree(t) EXCEPT ![d] = Append(@, k)]
    <3>1. \A id \in AnyId : Kids(u, id) = IF id = d THEN Append(Kids(t, d), k) ELSE Kids(t, id)
        BY <2>4, <2>5
    <3> QED BY <2>2, <3>1, Zenon DEF Tree, AnyId
  <2> QED BY <2>2, <2>6 DEF Mount, k
<1> QED BY <1>2, <1>3

LEMMA TreeDropped ==
    ASSUME NEW t, NEW u, NEW n, NEW k \in Ids, Table(t, n), Dropped(t, u, n, k)
    PROVE  Tree(u) = Prune(Tree(t), k)
<1>1. /\ Same(t, u, Nat \ {k}) /\ ~has(u, k) /\ Table(u, n)
    BY DEF Dropped
<1>2. ASSUME NEW id \in AnyId, id # k PROVE Kids(u, id) = Kids(t, id)
  <2>1. CASE id = ID_INVALID
      BY <1>1, <2>1, NoKids, Invalid
  <2>2. CASE id \in Nat
      BY <1>1, <1>2, <2>2 DEF Same, Kids
  <2> QED BY <2>1, <2>2, Invalid DEF AnyId
<1>3. Kids(u, k) = <<>>
    BY <1>1 DEF Kids
<1>4. \A id \in AnyId : Kids(u, id) = IF id = k THEN <<>> ELSE Kids(t, id)
    BY <1>2, <1>3
<1> QED BY <1>4 DEF Tree, Prune

-----------------------------------------------------------------------------
(***************************************************************************)
(* The tree that boot leaves.                                              *)
(***************************************************************************)

\* Boot has made an inode that is not mounted yet; it is past the ram disks.
Mounting == boot.pc \in {"mount", "pipe_mount"}
After == boot.pc \in {"pipe", "pipe_mount", "ready"}
Bound == IF Mounting THEN boot.ninode ELSE inode_counter
CurName == CurElements[boot.i + 1]

TreeInv == LET K == Tree(inode_table) IN
    /\ Linked(K, vfs_root, Bound) /\ Hidden(K)
    /\ After \/ NamesDiffer(K)
    /\ Mounting => K[boot.ninode] = <<>>
    /\ Reading => boot.cinode < Bound
    /\ boot.pc \in {"create", "mount"} => Named(K, boot.cinode, CurName) = {}

LEMMA TypedTree ==
    ASSUME TypeInv
    PROVE  /\ Tree(inode_table) \in Trees /\ inode_counter \in Nat /\ vfs_root \in AnyId
           /\ boot \in BootType /\ boot.cinode \in AnyId /\ Bound \in Nat
           /\ Table(inode_table, inode_counter) /\ Typed(inode_table)
<1>1. /\ Table(inode_table, inode_counter) /\ Typed(inode_table) /\ inode_counter \in Nat
      /\ boot \in BootType /\ vfs_root \in AnyId
    BY DEF TypeInv, Tables, VfsTypes
<1>2. Tree(inode_table) \in Trees /\ boot.cinode \in AnyId
    BY <1>1, TreeIn DEF BootType
<1>3. Bound \in Nat
    BY <1>1, Invalid DEF Bound, Mounting, TypeInv, Place, New
<1> QED BY <1>1, <1>2, <1>3

LEMMA SameTree ==
    ASSUME TypeInv, TypeInv'
    PROVE  /\ \A type, vtable : MadeAs(type, vtable) => /\ Tree(inode_table') = Tree(inode_table)
                                                        /\ Tree(inode_table)[inode_counter] = <<>>
           /\ \A k, vtable : WroteVtable(k, vtable) => Tree(inode_table') = Tree(inode_table)
           /\ \A k : WroteType(k) => Tree(inode_table') = Tree(inode_table)
           /\ inode_table' = inode_table => Tree(inode_table') = Tree(inode_table)
           /\ Tree(inode_table)' = Tree(inode_table')
<1>1. Table(inode_table, inode_counter)
    BY TypedTree
<1>2. ASSUME NEW type, NEW vtable, MadeAs(type, vtable)
      PROVE  Tree(inode_table') = Tree(inode_table) /\ Tree(inode_table)[inode_counter] = <<>>
  <2>1. PICK new \in Inode : /\ Made(inode_table, inode_table', inode_counter, new)
                             /\ inode_counter \in Ids /\ new.children = <<>>
      BY <1>2 DEF MadeAs
  <2> QED BY <1>1, <2>1, TreeMade
<1>3. ASSUME NEW k, NEW vtable, WroteVtable(k, vtable)
      PROVE  Tree(inode_table') = Tree(inode_table)
  <2>1. PICK new : /\ Written(inode_table, inode_table', inode_counter, k, new)
                   /\ has(inode_table, k) => new.children = get(inode_table, k).children
      BY <1>3 DEF WroteVtable
  <2> QED BY <1>1, <2>1, TreeWritten
<1>4. ASSUME NEW k, WroteType(k)
      PROVE  Tree(inode_table') = Tree(inode_table)
  <2>1. PICK new : /\ Written(inode_table, inode_table', inode_counter, k, new)
                   /\ has(inode_table, k) => new.children = get(inode_table, k).children
      BY <1>4 DEF WroteType
  <2> QED BY <1>1, <2>1, TreeWritten
<1>5. Tree(inode_table)' = Tree(inode_table')
    BY DEF Tree, Kids, has, get, Find, FirstSlot, Holding
<1>6. inode_table' = inode_table => Tree(inode_table') = Tree(inode_table)
    OBVIOUS
<1> QED BY <1>2, <1>3, <1>4, <1>5, <1>6

LEMMA LinkedMore ==
    ASSUME NEW K \in Trees, NEW root \in AnyId, NEW n \in Nat, Linked(K, root, n)
    PROVE  /\ \A m \in Nat : n <= m => Linked(K, root, m)
           /\ n \in Ids => Linked(K, n, n + 1)
<1>1. root < n /\ root \in Int
    BY Invalid DEF Linked, AnyId
<1>2. ASSUME NEW id \in AnyId, NEW i \in 1 .. Len(K[id])
      PROVE  /\ id < K[id][i].inode /\ K[id][i].inode < n /\ K[id][i].inode \in Nat
             /\ K[id][i].inode # root /\ K[id][i].inode # n
             /\ \A m \in 1 .. i - 1 : K[id][m].inode < K[id][i].inode
  <2>1. K[id][i].inode \in Nat
      BY KidIn, Invalid
  <2>2. /\ id < K[id][i].inode /\ K[id][i].inode < n /\ K[id][i].inode # root
        /\ \A m \in 1 .. i - 1 : K[id][m].inode < K[id][i].inode
      BY DEF Linked
  <2> QED BY <2>1, <2>2
<1>3. ASSUME NEW p \in AnyId, NEW q \in AnyId, NEW i \in 1 .. Len(K[p]), NEW m \in 1 .. Len(K[q]),
             K[p][i].inode = K[q][m].inode
      PROVE  p = q
    BY <1>3 DEF Linked
<1>4. ASSUME NEW m \in Nat, n <= m PROVE Linked(K, root, m)
  <2>1. \A x \in Int : x < n => x < m
      BY <1>4
  <2>2. \A id \in AnyId : \A i \in 1 .. Len(K[id]) : K[id][i].inode < m
      BY <1>2, <2>1
  <2> QED BY <1>1, <1>2, <1>3, <2>1, <2>2 DEF Linked
<1>5. ASSUME n \in Ids PROVE Linked(K, n, n + 1)
  <2>1. n < n + 1 /\ \A x \in Int : x < n => x < n + 1
      OBVIOUS
  <2>2. \A id \in AnyId : \A i \in 1 .. Len(K[id]) : K[id][i].inode < n + 1
      BY <1>2, <2>1
  <2> QED BY <1>2, <1>3, <2>1, <2>2 DEF Linked
<1> QED BY <1>4, <1>5

LEMMA TreeKept ==
    ASSUME TypeInv, TypeInv', TreeInv, Tree(inode_table') = Tree(inode_table),
           vfs_root' = vfs_root, Bound <= Bound', ~Mounting', After => After',
           Reading' => boot'.cinode < Bound',
           boot'.pc = "create" => Named(Tree(inode_table), boot'.cinode, CurName') = {}
    PROVE  TreeInv'
<1> DEFINE K == Tree(inode_table)
<1>1. K \in Trees /\ Bound \in Nat /\ vfs_root \in AnyId /\ Linked(K, vfs_root, Bound) /\ Hidden(K)
    BY TypedTree DEF TreeInv
<1>2. Bound' \in Nat
  <2>1. inode_counter' \in Nat /\ (Mounting' => boot'.ninode \in Ids)
      BY DEF TypeInv, VfsTypes, Place, Mounting, New
  <2> QED BY <2>1, Invalid DEF Bound
<1>3. K' = K
    BY SameTree
<1> HIDE DEF K
<1>4. Linked(K', vfs_root', Bound')
  <2>1. \A m \in Nat : Bound <= m => Linked(K, vfs_root, m)
      BY <1>1, LinkedMore
  <2> QED BY <1>2, <1>3, <2>1
<1>5. Hidden(K') /\ (After' \/ NamesDiffer(K'))
  <2>1. After \/ NamesDiffer(K)
      BY DEF TreeInv, K
  <2>2. Hidden(K') /\ (NamesDiffer(K) => NamesDiffer(K'))
      BY <1>1, <1>3
  <2> QED BY <2>1, <2>2
<1>6. boot'.pc # "mount"
    BY DEF Mounting
<1>7. boot'.pc \in {"create", "mount"} => Named(K', boot'.cinode, CurName') = {}
    BY <1>3, <1>6 DEF K
<1> QED BY <1>4, <1>5, <1>7 DEF TreeInv, K

LEMMA TreeInit == Init => TreeInv
<1> SUFFICES ASSUME Init PROVE TreeInv
    OBVIOUS
<1> DEFINE K == Tree(inode_table)
<1>1. /\ boot.pc = "add" /\ inode_counter = 0 /\ vfs_root = ID_INVALID
      /\ inode_table = EmptyTable(NewInode(ID_INVALID, "DIRECTORY"))
    BY DEF Init
<1>2. ~Mounting /\ ~Reading /\ Bound = 0
    BY <1>1 DEF Mounting, Reading, Bound
<1>3. TypeInv
    BY InitTypes
<1>4. K \in Trees
    BY <1>3, TypedTree
<1>5. ASSUME NEW id \in AnyId PROVE K[id] = <<>>
  <2>1. CASE id = ID_INVALID
      BY <1>4, <2>1 DEF Trees
  <2>2. CASE id \in Nat
    <3>1. ~has(inode_table, id)
        BY <1>1, <2>2, EmptyIs
    <3>2. Table(inode_table, inode_counter)
        BY <1>3, TypedTree
    <3> QED BY <3>1, <3>2, NoKids
  <2> QED BY <2>1, <2>2, Invalid DEF AnyId
<1> HIDE DEF K
<1>6. \A id \in AnyId : 1 .. Len(K[id]) = {}
    BY <1>5
<1>7. Linked(K, vfs_root, Bound)
  <2>1. vfs_root < Bound
      BY <1>1, <1>2, Invalid
  <2> QED BY <1>6, <2>1 DEF Linked
<1>8. Hidden(K) /\ NamesDiffer(K)
    BY <1>6 DEF Hidden, NamesDiffer
<1> QED BY <1>1, <1>2, <1>7, <1>8 DEF TreeInv, K

\* Steps that leave the tree alone, while no inode waits for its mount.
LEMMA TreeQuiet ==
    ASSUME TypeInv, TypeInv', TreeInv,
           \/ \E a \in Archives : initrd_add(a)
           \/ initrd_init \/ boot_done \/ create_inode("NORMAL_FILE")
           \/ \E id \in Handles : change_type(id, "SYM_LINK")
           \/ \E id \in 0 .. fs_counter - 1 : change_fs(id, ID_INVALID, "none") \/ delete_fs(id)
    PROVE  TreeInv'
<1>1. boot \in BootType /\ inode_counter \in Nat /\ initrds \in [Disk -> Memory]
    BY TypedTree DEF TypeInv, VfsTypes
<1>2. CASE \E a \in Archives : initrd_add(a)
  <2>1. boot.pc = "add" /\ UNCHANGED <<inode_table, inode_counter, vfs_root, boot>>
      BY <1>2 DEF initrd_add
  <2>2. ~Mounting' /\ ~Mounting /\ ~Reading' /\ ~After /\ Bound' = Bound /\ boot'.pc # "create"
      BY <2>1 DEF Mounting, Reading, After, Bound
  <2> QED BY <1>1, <2>1, <2>2, SameTree, TreeKept, TypedTree
<1>3. CASE initrd_init
  <2>1. boot.pc = "add" /\ boot' = NextDisk(0) /\ UNCHANGED <<inode_table, inode_counter, vfs_root>>
      BY <1>3 DEF initrd_init
  <2>2. boot'.pc \in {"pipe", "create_fs"}
    <3>1. \/ boot' = [boot EXCEPT !.pc = "pipe", !.k = 1]
          \/ \E m \in Disk : boot' = [boot EXCEPT !.pc = "create_fs", !.k = m]
        BY <1>1, <2>1, NextDiskIs, Zenon
    <3> QED BY <1>1, <3>1, Zenon DEF BootType
  <2>3. ~Mounting' /\ ~Mounting /\ ~Reading' /\ ~After /\ Bound' = Bound /\ boot'.pc # "create"
      BY <2>1, <2>2 DEF Mounting, Reading, After, Bound
  <2> QED BY <1>1, <2>1, <2>3, SameTree, TreeKept, TypedTree
<1>4. CASE boot_done
  <2>1. /\ boot.pc = "pipe" /\ boot' = [boot EXCEPT !.pc = "ready"]
        /\ UNCHANGED <<inode_table, inode_counter, vfs_root>>
      BY <1>4 DEF boot_done
  <2>2. boot'.pc = "ready"
      BY <1>1, <2>1 DEF BootType
  <2>3. ~Mounting' /\ ~Mounting /\ ~Reading' /\ After' /\ Bound' = Bound /\ boot'.pc # "create"
      BY <2>1, <2>2 DEF Mounting, Reading, After, Bound
  <2> QED BY <1>1, <2>1, <2>3, SameTree, TreeKept, TypedTree
<1>5. ASSUME Exported, Tree(inode_table') = Tree(inode_table),
             inode_counter' \in {inode_counter, inode_counter + 1}
      PROVE  TreeInv'
  <2>1. boot.pc = "ready" /\ boot' = boot /\ vfs_root' = vfs_root
      BY <1>5, Ready
  <2>2. ~Mounting' /\ ~Mounting /\ ~Reading' /\ After' /\ boot'.pc # "create"
        /\ Bound = inode_counter /\ Bound' = inode_counter'
      BY <2>1 DEF Mounting, Reading, After, Bound
  <2>3. inode_counter <= inode_counter'
      BY <1>1, <1>5
  <2>4. Bound <= Bound'
      BY <2>2, <2>3
  <2> QED BY <1>5, <2>1, <2>2, <2>4, TreeKept
<1>6. CASE create_inode("NORMAL_FILE")
  <2>1. Exported /\ inode_counter' = inode_counter + 1
      BY <1>6 DEF create_inode, CreateInode
  <2>2. MadeAs("NORMAL_FILE", "none")
      BY <1>6, TypesCreate
  <2> QED BY <1>5, <2>1, <2>2, SameTree
<1>7. ASSUME NEW id \in Handles, change_type(id, "SYM_LINK") PROVE TreeInv'
  <2>1. Exported /\ inode_counter' = inode_counter
      BY <1>7 DEF change_type
  <2>2. WroteType(id)
      BY <1>7, TypesChangeType
  <2> QED BY <1>5, <2>1, <2>2, SameTree
<1>8. CASE \E id \in 0 .. fs_counter - 1 : change_fs(id, ID_INVALID, "none") \/ delete_fs(id)
  <2>1. Exported /\ inode_counter' = inode_counter /\ inode_table' = inode_table
      BY <1>8 DEF change_fs, delete_fs
  <2> QED BY <1>5, <2>1, SameTree
<1> QED BY <1>2, <1>3, <1>4, <1>6, <1>7, <1>8

\* Steps of the loop over the headers that leave the tree alone.
LEMMA TreeReading ==
    ASSUME TypeInv, TypeInv', TreeInv, initrd_descend \/ initrd_set_vtable \/ tar_next
    PROVE  TreeInv'
<1> DEFINE K == Tree(inode_table)
<1>1. /\ boot \in BootType /\ K \in Trees /\ boot.cinode \in AnyId /\ vfs_root \in AnyId
      /\ Bound \in Nat /\ inode_counter \in Nat
    BY TypedTree
<1>2. Linked(K, vfs_root, Bound) /\ vfs_root < Bound
    BY DEF TreeInv, Linked
<1>3. CASE initrd_descend
  <2> DEFINE try == get_child(boot.cinode, CurName)
  <2>1. /\ boot.pc = "element"
        /\ boot' = IF try # ID_INVALID THEN [boot EXCEPT !.cinode = try, !.i = @ + 1]
                   ELSE [boot EXCEPT !.pc = "create"]
        /\ UNCHANGED <<inode_table, inode_counter, vfs_root, initrds>>
      BY <1>3 DEF initrd_descend, CurName
  <2>2. try = ChildIn(K, boot.cinode, CurName)
      BY <1>1, ChildIs
  <2>3. ~Mounting /\ Reading /\ Bound = inode_counter /\ boot.cinode < Bound
      BY <2>1 DEF Mounting, Reading, Bound, TreeInv
  <2> HIDE DEF K, try
  <2>4. CASE try # ID_INVALID
    <3>1. boot'.pc = "element" /\ boot'.cinode = try
        BY <1>1, <2>1, <2>4 DEF BootType
    <3>2. try < Bound
      <4>1. Named(K, boot.cinode, CurName) # {}
          BY <1>1, <2>2, <2>4, ChildType
      <4> DEFINE n == Min(Named(K, boot.cinode, CurName))
      <4>2. n \in 1 .. Len(K[boot.cinode]) /\ try = K[boot.cinode][n].inode
          BY <1>1, <2>2, <4>1, FirstNamed
      <4> HIDE DEF n
      <4> QED BY <1>1, <1>2, <4>2 DEF Linked
    <3>3. ~Mounting' /\ ~After /\ Bound' = Bound
        BY <2>1, <2>3, <3>1 DEF Mounting, After, Bound
    <3>4. Bound <= Bound' /\ boot'.cinode < Bound' /\ boot'.pc # "create"
        BY <1>1, <3>1, <3>2, <3>3
    <3>5. Tree(inode_table') = Tree(inode_table)
        BY <2>1, SameTree
    <3> QED BY <2>1, <3>3, <3>4, <3>5, TreeKept
  <2>5. CASE try = ID_INVALID
    <3>1. /\ boot'.pc = "create" /\ boot'.cinode = boot.cinode /\ boot'.k = boot.k
          /\ boot'.b = boot.b /\ boot'.i = boot.i
        BY <1>1, <2>1, <2>5 DEF BootType
    <3>2. CurName' = CurName
      <4>1. CurElements' = CurElements
          BY <2>1, <3>1, SameHeader
      <4> QED BY <3>1, <4>1 DEF CurName
    <3>3. Named(K, boot.cinode, CurName) = {}
        BY <1>1, <2>2, <2>5, ChildType
    <3>4. ~Mounting' /\ ~After /\ Bound' = Bound
        BY <2>1, <2>3, <3>1 DEF Mounting, After, Bound
    <3>5. Bound <= Bound' /\ boot'.cinode < Bound'
        BY <1>1, <2>3, <3>1, <3>4
    <3>6. Tree(inode_table') = Tree(inode_table)
        BY <2>1, SameTree
    <3> QED BY <2>1, <3>1, <3>2, <3>3, <3>4, <3>5, <3>6, TreeKept DEF K
  <2> QED BY <2>4, <2>5
<1>4. CASE initrd_set_vtable
  <2>1. /\ boot.pc = "vtable" /\ UNCHANGED <<inode_counter, vfs_root>>
        /\ boot' = [boot EXCEPT !.pc = "element", !.i = @ + 1, !.cinode = boot.ninode]
      BY <1>4 DEF initrd_set_vtable
  <2>2. boot'.pc = "element" /\ boot'.cinode = boot.ninode
      BY <1>1, <2>1 DEF BootType
  <2>3. boot.ninode \in Nat /\ boot.ninode + 1 = inode_counter
      BY <2>1, Invalid DEF TypeInv, Place, New
  <2>4. boot.ninode < inode_counter
      BY <2>3
  <2>5. ~Mounting' /\ ~After /\ Bound' = inode_counter /\ Bound = inode_counter
      BY <2>1, <2>2 DEF Mounting, After, Bound
  <2>6. Tree(inode_table') = Tree(inode_table)
      BY <1>4, TypesSetVtable, SameTree
  <2>7. Bound <= Bound' /\ boot'.cinode < Bound' /\ boot'.pc # "create"
      BY <1>1, <2>2, <2>4, <2>5
  <2> QED BY <2>1, <2>5, <2>6, <2>7, TreeKept
<1>5. CASE tar_next
  <2>1. /\ boot.pc = "element" /\ UNCHANGED <<inode_table, inode_counter, vfs_root>>
        /\ \/ boot' = NextDisk(boot.k + 1)
           \/ \E b : boot' = [boot EXCEPT !.b = b, !.i = 0, !.cinode = get_root]
      BY <1>5, Zenon DEF tar_next
  <2>2. \/ boot'.pc \in {"pipe", "create_fs"}
        \/ boot'.pc = "element" /\ boot'.cinode = vfs_root
    <3>1. CASE boot' = NextDisk(boot.k + 1)
      <4>1. boot.k + 1 \in Nat /\ initrds \in [Disk -> Memory]
          BY <1>1 DEF BootType, TypeInv, VfsTypes
      <4>2. \/ boot' = [boot EXCEPT !.pc = "pipe", !.k = 1]
            \/ \E m \in Disk : boot' = [boot EXCEPT !.pc = "create_fs", !.k = m]
          BY <1>1, <3>1, <4>1, NextDiskIs, Zenon
      <4> QED BY <1>1, <4>2, Zenon DEF BootType
    <3>2. ASSUME NEW b, boot' = [boot EXCEPT !.b = b, !.i = 0, !.cinode = get_root]
          PROVE  boot'.pc = "element" /\ boot'.cinode = vfs_root
        BY <1>1, <2>1, <3>2, Zenon DEF BootType, get_root
    <3> QED BY <2>1, <3>1, <3>2, Zenon
  <2>3. /\ ~Mounting' /\ ~After /\ Bound' = inode_counter /\ Bound = inode_counter
        /\ Reading' => boot'.cinode = vfs_root
      BY <2>1, <2>2, Zenon DEF Mounting, After, Bound, Reading
  <2>4. Bound <= Bound' /\ (Reading' => boot'.cinode < Bound') /\ boot'.pc # "create"
      BY <1>1, <1>2, <2>2, <2>3
  <2>5. Tree(inode_table') = Tree(inode_table)
      BY <2>1, SameTree, Zenon
  <2> QED BY <2>1, <2>3, <2>4, <2>5, TreeKept, Zenon
<1> QED BY <1>3, <1>4, <1>5

\* A new inode that is not mounted yet, and a new root.
LEMMA TreeMaking ==
    ASSUME TypeInv, TypeInv', TreeInv, initrd_create_inode \/ pipe_create \/ initrd_create
    PROVE  TreeInv'
<1> DEFINE K == Tree(inode_table)
           n == inode_counter
<1>1. /\ boot \in BootType /\ K \in Trees /\ boot.cinode \in AnyId /\ vfs_root \in AnyId
      /\ Bound \in Nat /\ n \in Nat
    BY TypedTree
<1>2. Linked(K, vfs_root, Bound) /\ Hidden(K)
    BY DEF TreeInv
<1>3. ASSUME NEW type, NEW vtable, MadeAs(type, vtable)
      PROVE  Tree(inode_table') = K /\ Tree(inode_table)' = K /\ K[n] = <<>> /\ n \in Ids
    BY <1>3, SameTree DEF MadeAs
<1>4. CASE initrd_create_inode
  <2>1. /\ boot.pc = "create" /\ boot' = [boot EXCEPT !.pc = "mount", !.ninode = n]
        /\ UNCHANGED <<vfs_root, initrds>>
      BY <1>4 DEF initrd_create_inode
  <2>2. Tree(inode_table)' = K /\ K[n] = <<>>
      BY <1>3, <1>4, TypesCreateInode
  <2> HIDE DEF K
  <2>3. /\ boot'.pc = "mount" /\ boot'.ninode = n /\ boot'.cinode = boot.cinode
        /\ boot'.k = boot.k /\ boot'.b = boot.b /\ boot'.i = boot.i
      BY <1>1, <2>1 DEF BootType
  <2>4. CurName' = CurName
    <3>1. CurElements' = CurElements
        BY <2>1, <2>3, SameHeader
    <3> QED BY <2>3, <3>1 DEF CurName
  <2>5. Mounting' /\ Bound = n /\ Bound' = n /\ ~After /\ Reading
      BY <2>1, <2>3 DEF Mounting, After, Bound, Reading
  <2>6. NamesDiffer(K) /\ boot.cinode < n /\ Named(K, boot.cinode, CurName) = {}
      BY <2>1, <2>5 DEF TreeInv, K
  <2> QED BY <1>2, <2>1, <2>2, <2>3, <2>4, <2>5, <2>6 DEF TreeInv
<1>5. CASE pipe_create
  <2>1. /\ boot.pc = "pipe" /\ boot' = [boot EXCEPT !.pc = "pipe_mount", !.ninode = n]
        /\ UNCHANGED <<vfs_root, initrds>>
      BY <1>5 DEF pipe_create
  <2>2. Tree(inode_table)' = K /\ K[n] = <<>>
      BY <1>3, <1>5, TypesPipeCreate
  <2> HIDE DEF K
  <2>3. boot'.pc = "pipe_mount" /\ boot'.ninode = n
      BY <1>1, <2>1 DEF BootType
  <2>5. Bound = n /\ Bound' = n /\ After' /\ ~Reading' /\ ~(boot'.pc \in {"create", "mount"})
      BY <2>1, <2>3 DEF Mounting, After, Bound, Reading
  <2> QED BY <1>2, <2>1, <2>2, <2>3, <2>5 DEF TreeInv
<1>6. CASE initrd_create
  <2>1. /\ boot.pc = "create_fs" /\ inode_counter' = n + 1
        /\ boot' = [boot EXCEPT !.pc = "element", !.b = 1, !.i = 0, !.cinode = vfs_root']
      BY <1>6 DEF initrd_create, create_fs, CreateInode
  <2>2. Tree(inode_table)' = K /\ K[n] = <<>> /\ n \in Ids /\ vfs_root' = n
      BY <1>3, <1>6, TypesCreateFs
  <2> HIDE DEF K
  <2>3. boot'.pc = "element" /\ boot'.cinode = n
      BY <1>1, <2>1, <2>2 DEF BootType
  <2>4. Bound = n /\ Bound' = n + 1 /\ ~Mounting' /\ ~After
        /\ ~(boot'.pc \in {"create", "mount"})
      BY <2>1, <2>3 DEF Mounting, After, Bound
  <2>5. Linked(K, n, n + 1)
      BY <1>1, <1>2, <2>2, <2>4, LinkedMore
  <2>6. NamesDiffer(K)
      BY <2>4 DEF TreeInv, K
  <2>7. n < n + 1
      BY <1>1
  <2> HIDE DEF n
  <2> QED BY <1>2, <2>2, <2>3, <2>4, <2>5, <2>6, <2>7 DEF TreeInv
<1> QED BY <1>4, <1>5, <1>6

\* What the mount of the new inode in the directory d does to the tree.
LEMMA TreeMounted ==
    ASSUME TypeInv, TypeInv', TreeInv, Mounting, NEW d, NEW name \in Text,
           Linking(d, boot.ninode, name), has(inode_table, d) => d < Bound
    PROVE  LET K == Tree(inode_table)
               c == boot.ninode
           IN  /\ c \in Ids /\ c + 1 = inode_counter /\ Bound = c
               /\ Tree(inode_table)' = IF has(inode_table, d) THEN Mount(K, d, c, name) ELSE K
               /\ has(inode_table, d) => d \in Ids
               /\ Linked(Tree(inode_table)', vfs_root, c + 1)
<1> DEFINE K == Tree(inode_table)
           c == boot.ninode
<1>1. K \in Trees /\ vfs_root \in AnyId /\ Bound \in Nat
      /\ Table(inode_table, inode_counter) /\ Typed(inode_table)
    BY TypedTree
<1>2. c \in Ids /\ c + 1 = inode_counter /\ Bound = c /\ Linked(K, vfs_root, Bound)
    BY DEF TypeInv, Place, New, Mounting, Bound, TreeInv
<1>3. /\ has(inode_table, d) => d \in Ids /\ Tree(inode_table') = Mount(K, d, c, name)
      /\ ~has(inode_table, d) => Tree(inode_table') = K
  <2>1. Written(inode_table, inode_table', inode_counter, d, Link(get(inode_table, d), c, name))
      BY DEF Linking
  <2> QED BY <1>1, <1>2, <2>1, TreeLinked
<1>4. Tree(inode_table)' = Tree(inode_table')
    BY SameTree
<1> HIDE DEF K, c
<1>5. Linked(Tree(inode_table'), vfs_root, c + 1)
  <2>1. CASE has(inode_table, d)
    <3>1. Linked(Mount(K, d, c, name), vfs_root, c + 1)
        BY <1>1, <1>2, <1>3, <2>1, MountLinked
    <3> QED BY <1>3, <2>1, <3>1
  <2>2. CASE ~has(inode_table, d)
    <3>1. c \in Nat /\ c + 1 \in Nat /\ c <= c + 1
        BY <1>2, Invalid
    <3>2. Linked(K, vfs_root, c)
        BY <1>2
    <3>3. Linked(K, vfs_root, c + 1)
        BY <1>1, <3>1, <3>2, LinkedMore
    <3> QED BY <1>3, <2>2, <3>3
  <2> QED BY <2>1, <2>2
<1> QED BY <1>2, <1>3, <1>4, <1>5 DEF K, c

LEMMA TreeMountChild ==
    ASSUME TypeInv, TypeInv', TreeInv, initrd_mount_child
    PROVE  TreeInv'
<1> DEFINE K == Tree(inode_table)
           N == Tree(inode_table)'
           c == boot.ninode
           d == boot.cinode
<1>1. /\ boot.pc = "mount" /\ boot' = [boot EXCEPT !.pc = "vtable"]
      /\ UNCHANGED <<inode_counter, vfs_root>>
    BY DEF initrd_mount_child
<1>2. boot \in BootType /\ K \in Trees /\ Bound \in Nat /\ inode_counter \in Nat
    BY TypedTree
<1>3. boot'.pc = "vtable" /\ boot'.cinode = d
    BY <1>1, <1>2 DEF BootType
<1>4. Mounting /\ Reading /\ ~After
    BY <1>1 DEF Mounting, Reading, After
<1>5. NamesDiffer(K) /\ d < Bound /\ Named(K, d, CurName) = {}
    BY <1>1, <1>4 DEF TreeInv
<1>6. Linking(d, c, CurName) /\ CurName \in Text
    BY TypesMountChild DEF CurName
<1>7. /\ c \in Ids /\ c + 1 = inode_counter /\ Bound = c
      /\ N = IF has(inode_table, d) THEN Mount(K, d, c, CurName) ELSE K
      /\ has(inode_table, d) => d \in Ids
      /\ Linked(N, vfs_root, c + 1)
    BY <1>4, <1>5, <1>6, TreeMounted
<1>8. ~Mounting' /\ ~After' /\ Bound' = inode_counter /\ ~(boot'.pc \in {"create", "mount"})
    BY <1>1, <1>3 DEF Mounting, After, Bound
<1> HIDE DEF K
<1>9. NamesDiffer(N)
  <2>1. CASE has(inode_table, d)
      BY <1>2, <1>5, <1>6, <1>7, <2>1, MountDiffer
  <2>2. CASE ~has(inode_table, d)
      BY <1>5, <1>7, <2>2
  <2> QED BY <2>1, <2>2
<1>10. N \in Trees
  <2>1. CASE has(inode_table, d)
      BY <1>2, <1>6, <1>7, <2>1, MountIs
  <2>2. CASE ~has(inode_table, d)
      BY <1>2, <1>7, <2>2
  <2> QED BY <2>1, <2>2
<1>11. Hidden(N)
    BY <1>9, <1>10, DifferHidden
<1>12. d < inode_counter
  <2>1. d \in Int /\ c \in Nat
    <3>1. d \in AnyId /\ c \in Nat
        BY <1>2, <1>7, Invalid DEF BootType
    <3> HIDE DEF d, c
    <3> QED BY <3>1, Invalid DEF AnyId
  <2>2. d < c /\ c + 1 = inode_counter
      BY <1>5, <1>7
  <2> HIDE DEF c, d
  <2> QED BY <2>1, <2>2
<1>13. Linked(N, vfs_root', Bound') /\ boot'.cinode < Bound'
    BY <1>1, <1>3, <1>7, <1>8, <1>12
<1> QED BY <1>8, <1>9, <1>11, <1>13 DEF TreeInv

LEMMA TreePipeMount ==
    ASSUME TypeInv, TypeInv', TreeInv, pipe_mount
    PROVE  TreeInv'
<1> DEFINE K == Tree(inode_table)
           N == Tree(inode_table)'
           c == boot.ninode
           e == Front(Elements(PipePaths[boot.k]))
           d == Walk(e)
           name == Last(Elements(PipePaths[boot.k]))
           k1 == boot.k + 1
<1>1. /\ boot.pc = "pipe_mount" /\ boot' = [boot EXCEPT !.pc = "pipe", !.k = k1]
      /\ UNCHANGED <<inode_counter, vfs_root>>
    BY DEF pipe_mount
<1>2. /\ boot \in BootType /\ K \in Trees /\ Bound \in Nat /\ inode_counter \in Nat
      /\ vfs_root \in AnyId /\ Linked(K, vfs_root, Bound) /\ Hidden(K)
    BY TypedTree DEF TreeInv
<1> HIDE DEF k1
<1>3. boot'.pc = "pipe"
    BY <1>1, <1>2 DEF BootType
<1>4. Mounting /\ K[c] = <<>>
    BY <1>1 DEF Mounting, TreeInv
<1>5. /\ boot.k \in 1 .. Len(PipePaths) /\ name \in Text /\ c \in Ids
      /\ IF d = ID_INVALID THEN inode_table' = inode_table ELSE Linking(d, c, name)
    BY TypesPipeMount
<1>6. e \in Names /\ d = WalkIn(K, vfs_root, e)
    BY <1>5, PipeNames, WalkIs
<1> HIDE DEF K, e, d, name
<1>7. d < Bound
    BY <1>2, <1>6, WalkBelow
<1>8. ~Mounting' /\ After' /\ Bound' = inode_counter /\ ~Reading'
      /\ ~(boot'.pc \in {"create", "mount"})
    BY <1>1, <1>3 DEF Mounting, After, Bound, Reading
<1>9. Linked(N, vfs_root, inode_counter) /\ Hidden(N)
  <2>1. CASE d = ID_INVALID
    <3>1. N = K
        BY <1>5, <2>1, SameTree DEF K
    <3>2. Bound <= inode_counter
      <4>1. Bound = c /\ c + 1 = inode_counter /\ c \in Nat
          BY <1>4, <1>5, Invalid DEF Bound, TypeInv, Place, New, Mounting
      <4> HIDE DEF c
      <4> QED BY <4>1
    <3> QED BY <1>2, <3>1, <3>2, LinkedMore
  <2>2. CASE d # ID_INVALID
    <3>1. /\ c \in Ids /\ c + 1 = inode_counter /\ Bound = c
          /\ N = IF has(inode_table, d) THEN Mount(K, d, c, name) ELSE K
          /\ has(inode_table, d) => d \in Ids
          /\ Linked(N, vfs_root, c + 1)
        BY <1>4, <1>5, <1>7, <2>2, TreeMounted DEF K
    <3>2. ASSUME has(inode_table, d) PROVE Hidden(Mount(K, d, c, name))
      <4>1. d \in Ids /\ d # c
        <5>1. d \in Nat /\ c \in Nat
            BY <3>1, <3>2, Invalid
        <5> HIDE DEF c
        <5> QED BY <1>7, <3>1, <3>2, <5>1
      <4>2. \A id \in AnyId : \A n, m \in 1 .. Len(K[id]) :
                m < n /\ K[id][m].name = K[id][n].name => K[id][n].inode # d
          BY <1>2, <1>6, WalkOpen
      <4> QED BY <1>2, <1>4, <1>5, <4>1, <4>2, MountHidden DEF K
    <3>3. Hidden(N)
        BY <1>2, <3>1, <3>2
    <3> QED BY <3>1, <3>3
  <2> QED BY <2>1, <2>2
<1> QED BY <1>1, <1>8, <1>9 DEF TreeInv

LEMMA TreeDelete ==
    ASSUME TypeInv, TypeInv', TreeInv, NEW id \in Handles, delete_inode(id)
    PROVE  TreeInv'
<1> DEFINE K == Tree(inode_table)
<1>1. Exported /\ inode_counter' = inode_counter
    BY DEF delete_inode
<1>2. id \in Ids /\ id \in Nat
    BY VfsAssumption, Invalid DEF Ids
<1>3. Dropped(inode_table, inode_table', inode_counter, id)
    BY <1>2, TypesDelete
<1>4. boot.pc = "ready" /\ boot' = boot /\ vfs_root' = vfs_root
    BY <1>1, Ready
<1>5. Bound' = Bound /\ ~Mounting' /\ After' /\ ~Reading' /\ ~(boot'.pc \in {"create", "mount"})
    BY <1>1, <1>4 DEF Bound, Mounting, After, Reading
<1>6. K \in Trees /\ Linked(K, vfs_root, Bound) /\ Hidden(K) /\ Table(inode_table, inode_counter)
    BY TypedTree DEF TreeInv
<1>7. Tree(inode_table)' = Prune(K, id)
  <2>1. Tree(inode_table') = Prune(K, id)
      BY <1>2, <1>3, <1>6, TreeDropped
  <2> QED BY <2>1, SameTree
<1> HIDE DEF K
<1>8. Linked(Prune(K, id), vfs_root, Bound) /\ Hidden(Prune(K, id))
    BY <1>2, <1>6, PruneKeeps
<1> QED BY <1>4, <1>5, <1>7, <1>8 DEF TreeInv

LEMMA TreeStutter ==
    ASSUME TypeInv, TypeInv', TreeInv, UNCHANGED vars
    PROVE  TreeInv'
<1>1. UNCHANGED <<inode_table, inode_counter, vfs_root, boot, initrds>>
    BY DEF vars
<1>2. Tree(inode_table)' = Tree(inode_table)
    BY <1>1, SameTree
<1>3. (Mounting' <=> Mounting) /\ (Reading' <=> Reading) /\ (After' <=> After) /\ Bound' = Bound
    BY <1>1 DEF Mounting, Reading, After, Bound
<1>4. CurName' = CurName
    BY <1>1, SameHeader DEF CurName
<1> QED BY <1>1, <1>2, <1>3, <1>4 DEF TreeInv

LEMMA NextTree == TypeInv /\ TypeInv' /\ TreeInv /\ [Next]_vars => TreeInv'
<1> SUFFICES ASSUME TypeInv, TypeInv', TreeInv, [Next]_vars PROVE TreeInv'
    OBVIOUS
<1>1. CASE \/ \E a \in Archives : initrd_add(a)
           \/ initrd_init \/ boot_done \/ create_inode("NORMAL_FILE")
           \/ \E id \in Handles : change_type(id, "SYM_LINK")
           \/ \E id \in 0 .. fs_counter - 1 : change_fs(id, ID_INVALID, "none") \/ delete_fs(id)
    BY <1>1, TreeQuiet
<1>2. CASE initrd_descend \/ initrd_set_vtable \/ tar_next
    BY <1>2, TreeReading
<1>3. CASE initrd_create_inode \/ pipe_create \/ initrd_create
    BY <1>3, TreeMaking
<1>4. CASE initrd_mount_child
    BY <1>4, TreeMountChild
<1>5. CASE pipe_mount
    BY <1>5, TreePipeMount
<1>6. ASSUME NEW id \in Handles, delete_inode(id) PROVE TreeInv'
    BY <1>6, TreeDelete
<1>7. CASE UNCHANGED vars
    BY <1>7, TreeStutter
<1> QED BY <1>1, <1>2, <1>3, <1>4, <1>5, <1>6, <1>7 DEF Next

-----------------------------------------------------------------------------
(***************************************************************************)
(* What the command fs prints.                                             *)
(***************************************************************************)

Lines == Names \X AnyId

\* get_child_name is the name under which the child was mounted.
LEMMA NameOfChild ==
    ASSUME TypeInv, TreeInv, NEW id \in AnyId, NEW n \in 1 .. Len(Tree(inode_table)[id])
    PROVE  LET K == Tree(inode_table) IN
           /\ get_nth_child(id, n) = K[id][n].inode
           /\ get_child_name(id, K[id][n].inode) = K[id][n].name
<1> DEFINE K == Tree(inode_table)
           c == K[id][n].inode
           S == {i \in 1 .. Len(K[id]) : K[id][i].inode = c}
<1>1. K \in Trees /\ Table(inode_table, inode_counter) /\ Typed(inode_table)
      /\ Linked(K, vfs_root, Bound)
    BY TypedTree DEF TreeInv
<1>2. has(inode_table, id) /\ get(inode_table, id).children = K[id]
  <2>1. K[id] # <<>>
      OBVIOUS
  <2> QED BY <1>1, <2>1, TreeIn
<1> HIDE DEF K
<1>3. Len(K[id]) \in Nat /\ n \in 1 .. Len(K[id])
    BY <1>1, KidIn DEF K
<1>4. \A i \in S : i = n
  <2> SUFFICES ASSUME NEW i \in 1 .. Len(K[id]), K[id][i].inode = c PROVE i = n
      OBVIOUS
  <2> QED BY <1>1, <1>3, LinkUnique
<1>5. S = {n}
    BY <1>3, <1>4
<1>6. Min(S) = n
    BY <1>3, <1>5, MinIs
<1>7. get_child_name(id, c) = K[id][IF S = {} THEN 0 ELSE Min(S)].name
  <2>1. SelectInSeq(K[id], LAMBDA x : x.inode = c) = IF S = {} THEN 0 ELSE Min(S)
      BY Zenon DEF SelectInSeq
  <2>2. get_child_name(id, c) = K[id][SelectInSeq(K[id], LAMBDA x : x.inode = c)].name
      BY <1>2, Zenon DEF get_child_name
  <2> QED BY <2>1, <2>2
<1>8. get_child_name(id, c) = K[id][n].name
    BY <1>5, <1>6, <1>7
<1>9. get_nth_child(id, n) = c
    BY <1>2 DEF get_nth_child
<1> QED BY <1>8, <1>9 DEF K

LEMMA PrintIs ==
    ASSUME TypeInv, TreeInv, NEW e \in Names, NEW id \in AnyId
    PROVE  LET K == Tree(inode_table) IN
           /\ PrintChildren(<<e, id>>) =
                  {<<Append(e, K[id][n].name), K[id][n].inode>> : n \in 1 .. Len(K[id])}
           /\ PrintChildren(<<e, id>>) \subseteq Lines
<1> DEFINE K == Tree(inode_table)
           P == {<<Append(e, K[id][n].name), K[id][n].inode>> : n \in 1 .. Len(K[id])}
<1>1. K \in Trees /\ Table(inode_table, inode_counter) /\ Typed(inode_table)
    BY TypedTree
<1>2. get_children(id) = Len(K[id])
  <2>1. /\ has(inode_table, id) => K[id] = get(inode_table, id).children
        /\ ~has(inode_table, id) => K[id] = <<>>
      BY <1>1, TreeIn
  <2> HIDE DEF K
  <2> QED BY <2>1 DEF get_children
<1>3. \A n \in 1 .. Len(K[id]) :
          /\ get_nth_child(id, n) = K[id][n].inode
          /\ get_child_name(id, get_nth_child(id, n)) = K[id][n].name
    BY NameOfChild
<1>4. PrintChildren(<<e, id>>) =
          {<<Append(e, get_child_name(id, get_nth_child(id, n))), get_nth_child(id, n)>> :
             n \in 1 .. get_children(id)}
    BY DEF PrintChildren
<1> HIDE DEF K
<1>5. PrintChildren(<<e, id>>) = P
    BY <1>2, <1>3, <1>4
<1>6. P \subseteq Lines
  <2> SUFFICES ASSUME NEW n \in 1 .. Len(K[id])
               PROVE  <<Append(e, K[id][n].name), K[id][n].inode>> \in Lines
      OBVIOUS
  <2>1. K[id][n].name \in Text /\ K[id][n].inode \in AnyId
      BY <1>1, KidIn
  <2>2. Append(e, K[id][n].name) \in Names
      BY <2>1, AppendProperties DEF Names
  <2> QED BY <2>1, <2>2 DEF Lines
<1> QED BY <1>5, <1>6 DEF K

\* The lines of depth n.
PrintStep(S) == UNION {PrintChildren(p) : p \in S}
Depths(f) ==
    /\ f \in [0 .. MaxInodes -> SUBSET Lines]
    /\ f[0] = {<<<<>>, vfs_root>>} \ {<<<<>>, ID_INVALID>>}
    /\ \A n \in 1 .. MaxInodes : f[n] = PrintStep(f[n - 1])
    /\ display = UNION {f[n] : n \in 0 .. MaxInodes}

LEMMA DisplayIs ==
    ASSUME TypeInv, TreeInv
    PROVE  \E f : Depths(f)
<1> DEFINE N == MaxInodes
           V == SUBSET Lines
           base == {<<<<>>, vfs_root>>} \ {<<<<>>, ID_INVALID>>}
           g == [x \in (1 .. N) \X V |-> PrintStep(x[2])]
           Eq(f) == f = [n \in 0 .. N |-> IF n = 0 THEN base
                                          ELSE UNION {PrintChildren(p) : p \in f[n - 1]}]
           depth == CHOOSE f : Eq(f)
<1>1. N \in Nat
    BY VfsAssumption
<1>2. base \in V
  <2>1. <<>> \in Names /\ vfs_root \in AnyId
      BY TypedTree DEF Names
  <2> QED BY <2>1 DEF Lines
<1>3. ASSUME NEW S \in V PROVE PrintStep(S) \in V
  <2>1. ASSUME NEW p \in S PROVE PrintChildren(p) \subseteq Lines
    <3>1. PICK e \in Names, id \in AnyId : p = <<e, id>>
        BY <1>3 DEF Lines
    <3> QED BY <3>1, PrintIs
  <2> QED BY <2>1 DEF PrintStep
<1>4. g \in [(1 .. N) \X V -> V]
    BY <1>3
<1>5. PICK f \in [0 .. N -> V] : IsLoop(f, base, g, N)
  <2> HIDE DEF N, V, base, g
  <2> QED BY <1>1, <1>2, <1>4, LoopSolution
<1>6. \A n \in 0 .. N : f[n] = IF n = 0 THEN base ELSE g[<<n, f[n - 1]>>]
  <2> HIDE DEF g, base, V, N
  <2> QED BY <1>5 DEF IsLoop
<1>7. \A n \in 1 .. N : g[<<n, f[n - 1]>>] = PrintStep(f[n - 1])
  <2> SUFFICES ASSUME NEW n \in 1 .. N PROVE g[<<n, f[n - 1]>>] = PrintStep(f[n - 1])
      OBVIOUS
  <2>1. n - 1 \in 0 .. N
      BY <1>1
  <2>2. f[n - 1] \in V
      BY <2>1
  <2> QED BY <2>2
<1> HIDE DEF g
<1>8. Eq(f)
  <2> DEFINE R(n) == IF n = 0 THEN base ELSE UNION {PrintChildren(p) : p \in f[n - 1]}
  <2>1. \A n \in 0 .. N : f[n] = R(n)
    <3> SUFFICES ASSUME NEW n \in 0 .. N PROVE f[n] = R(n)
        OBVIOUS
    <3> HIDE DEF base
    <3>1. CASE n = 0
        BY <1>6, <3>1
    <3>2. CASE n # 0
      <4>1. n \in 1 .. N
          BY <1>1, <3>2
      <4>2. f[n] = PrintStep(f[n - 1])
          BY <1>6, <1>7, <3>2, <4>1
      <4> QED BY <3>2, <4>2 DEF PrintStep
    <3> QED BY <3>1, <3>2
  <2> HIDE DEF R, base
  <2>2. f = [n \in 0 .. N |-> R(n)]
      BY <2>1
  <2> QED BY <2>2 DEF R
<1>9. Eq(depth)
  <2> HIDE DEF Eq
  <2> QED BY <1>8
<1>10. display = UNION {depth[n] : n \in 0 .. N}
    BY Zenon DEF display
<1> HIDE DEF depth
<1>11. \A n \in 0 .. N :
           depth[n] = IF n = 0 THEN base ELSE UNION {PrintChildren(p) : p \in depth[n - 1]}
  <2> HIDE DEF base
  <2> QED BY <1>9
<1>12. \A n \in 1 .. N : depth[n] = PrintStep(depth[n - 1])
  <2> HIDE DEF base
  <2>1. \A n \in 1 .. N : n \in 0 .. N /\ n # 0
      BY <1>1
  <2> QED BY <1>11, <2>1 DEF PrintStep
<1>13. depth[0] = base
  <2> HIDE DEF base
  <2>1. 0 \in 0 .. N
      BY <1>1
  <2> QED BY <1>11, <2>1
<1>14. 0 .. N \subseteq {n \in 0 .. N : depth[n] \in V}
  <2> DEFINE T == {n \in 0 .. N : depth[n] \in V}
  <2>1. 0 \in T
      BY <1>1, <1>2, <1>13
  <2>2. ASSUME NEW n \in 0 .. N - 1, n \in T PROVE n + 1 \in T
    <3>1. n + 1 \in 1 .. N /\ n + 1 \in 0 .. N /\ (n + 1) - 1 = n
        BY <1>1
    <3>2. depth[n + 1] = PrintStep(depth[n])
        BY <1>12, <3>1
    <3> QED BY <1>3, <2>2, <3>1, <3>2
  <2> HIDE DEF T
  <2>3. 0 .. N \subseteq T
      BY <1>1, <2>1, <2>2, BoundedInduction
  <2> QED BY <2>3 DEF T
<1>15. depth = [n \in 0 .. N |-> depth[n]]
  <2> DEFINE R(n) == IF n = 0 THEN base ELSE UNION {PrintChildren(p) : p \in depth[n - 1]}
  <2>1. depth = [n \in 0 .. N |-> R(n)]
      BY <1>9
  <2> HIDE DEF R
  <2> QED BY <2>1
<1>16. depth \in [0 .. N -> V]
    BY <1>14, <1>15
<1> QED BY <1>10, <1>12, <1>13, <1>16 DEF Depths

\* A line is the inode its path leads to, or an inode without children that
\* an older one of the same name hides.
LineIs(e, id) ==
    /\ Walk(e) # ID_INVALID /\ <<e, Walk(e)>> \in display /\ Walk(e) <= id
    /\ id # Walk(e) => Tree(inode_table)[id] = <<>>

LEMMA LinesAre ==
    ASSUME TypeInv, TreeInv
    PROVE  \A p \in display : LineIs(p[1], p[2])
<1> DEFINE K == Tree(inode_table)
<1>1. PICK f : Depths(f)
    BY DisplayIs
<1>2. K \in Trees /\ Linked(K, vfs_root, Bound) /\ Hidden(K) /\ vfs_root \in AnyId
      /\ MaxInodes \in Nat
    BY TypedTree, VfsAssumption DEF TreeInv
<1>3. /\ f \in [0 .. MaxInodes -> SUBSET Lines]
      /\ f[0] = {<<<<>>, vfs_root>>} \ {<<<<>>, ID_INVALID>>}
      /\ \A n \in 1 .. MaxInodes : f[n] = PrintStep(f[n - 1])
      /\ display = UNION {f[n] : n \in 0 .. MaxInodes}
    BY <1>1 DEF Depths
<1> DEFINE T == {n \in 0 .. MaxInodes : \A p \in f[n] : LineIs(p[1], p[2])}
<1>4. 0 \in T
  <2> SUFFICES ASSUME NEW p \in f[0] PROVE LineIs(p[1], p[2])
      BY <1>2
  <2>1. p = <<<<>>, vfs_root>> /\ vfs_root # ID_INVALID /\ 0 \in 0 .. MaxInodes
      BY <1>2, <1>3
  <2>2. Walk(<<>>) = vfs_root
    <3>1. <<>> \in Names
        BY DEF Names
    <3> QED BY <1>2, <3>1, WalkIs, WalkEmpty
  <2>3. p \in display
      BY <1>3, <2>1
  <2>4. vfs_root <= vfs_root
      BY <1>2, <2>1, Invalid DEF AnyId
  <2> QED BY <2>1, <2>2, <2>3, <2>4 DEF LineIs
<1>5. ASSUME NEW n \in 0 .. MaxInodes - 1, n \in T PROVE n + 1 \in T
  <2>1. n + 1 \in 1 .. MaxInodes /\ n + 1 \in 0 .. MaxInodes /\ (n + 1) - 1 = n
        /\ n \in 0 .. MaxInodes
      BY <1>2
  <2> SUFFICES ASSUME NEW q \in f[n + 1] PROVE LineIs(q[1], q[2])
      BY <2>1
  <2>2. PICK p \in f[n] : q \in PrintChildren(p)
    <3>1. f[n + 1] = PrintStep(f[n])
        BY <1>3, <2>1
    <3> QED BY <3>1 DEF PrintStep
  <2>3. PICK e \in Names, id \in AnyId : p = <<e, id>>
    <3>1. f[n] \subseteq Lines
        BY <1>3, <2>1
    <3> QED BY <3>1 DEF Lines
  <2>4. LineIs(e, id)
      BY <1>5, <2>3
  <2>5. PICK i \in 1 .. Len(K[id]) : q = <<Append(e, K[id][i].name), K[id][i].inode>>
      BY <2>2, <2>3, PrintIs
  <2> DEFINE name == K[id][i].name
             c == K[id][i].inode
             w == Walk(Append(e, name))
  <2>6. K[id] # <<>> /\ name \in Text /\ c \in Ids /\ Len(K[id]) \in Nat
      BY <1>2, <2>5, KidIn
  <2>7. id = Walk(e)
      BY <2>4, <2>6 DEF LineIs
  <2>8. Named(K, id, name) # {}
      BY <2>5 DEF Named
  <2> DEFINE j == Min(Named(K, id, name))
  <2>9. /\ j \in 1 .. Len(K[id]) /\ K[id][j].name = name
        /\ \A m \in 1 .. Len(K[id]) : K[id][m].name = name => j <= m
        /\ ChildIn(K, id, name) = K[id][j].inode /\ ChildIn(K, id, name) # ID_INVALID
    <3> HIDE DEF K, name
    <3> QED BY <1>2, <2>8, FirstNamed
  <2>10. w = ChildIn(K, id, name)
    <3>1. Append(e, name) \in Names
          /\ WalkIn(K, vfs_root, Append(e, name)) = ChildIn(K, WalkIn(K, vfs_root, e), name)
        BY <1>2, <2>6, WalkNext
    <3>2. Walk(Append(e, name)) = WalkIn(K, vfs_root, Append(e, name))
          /\ Walk(e) = WalkIn(K, vfs_root, e)
        BY <3>1, WalkIs
    <3> QED BY <2>7, <3>1, <3>2
  <2> HIDE DEF K, j, w
  <2>11. <<Append(e, name), w>> \in display
    <3>1. <<Append(e, name), w>> \in PrintChildren(p)
      <4>1. <<Append(e, K[id][j].name), K[id][j].inode>> \in PrintChildren(<<e, id>>)
          BY <2>9, PrintIs DEF K
      <4> QED BY <2>3, <2>9, <2>10, <4>1
    <3>2. <<Append(e, name), w>> \in f[n + 1]
        BY <1>3, <2>1, <3>1 DEF PrintStep
    <3> QED BY <1>3, <2>1, <3>2
  <2>12. w <= c /\ (c # w => K[c] = <<>>)
    <3>1. j <= i /\ j \in Nat /\ i \in Nat /\ w = K[id][j].inode
        BY <2>5, <2>6, <2>9, <2>10
    <3>2. c \in Nat
        BY <2>6, Invalid
    <3>3. CASE j = i
        BY <3>1, <3>2, <3>3
    <3>4. CASE j < i
      <4>1. K[id][j].inode < K[id][i].inode
        <5>1. j \in 1 .. i - 1
            BY <2>9, <3>1, <3>4
        <5> QED BY <1>2, <2>5, <5>1 DEF Linked
      <4>2. K[K[id][i].inode] = <<>>
          BY <1>2, <2>5, <2>9, <3>4 DEF Hidden
      <4>3. w \in Nat
          BY <1>2, <2>9, <3>1, KidIn, Invalid
      <4> QED BY <3>1, <3>2, <4>1, <4>2, <4>3
    <3> QED BY <3>1, <3>3, <3>4
  <2>13. q[1] = Append(e, name) /\ q[2] = c /\ w # ID_INVALID
      BY <2>5, <2>9, <2>10
  <2> HIDE DEF c, name
  <2> QED BY <2>11, <2>12, <2>13 DEF LineIs, w, K
<1>6. 0 .. MaxInodes \subseteq T
  <2> HIDE DEF T
  <2> QED BY <1>2, <1>4, <1>5, BoundedInduction
<1> QED BY <1>3, <1>6

\* Every path that leads to an inode is printed.
LEMMA PathsPrinted ==
    ASSUME TypeInv, TreeInv, NEW e \in Names, Walk(e) # ID_INVALID
    PROVE  <<e, Walk(e)>> \in display
<1> DEFINE K == Tree(inode_table)
           W(d) == WalkIn(K, vfs_root, d)
<1>1. PICK f : Depths(f)
    BY DisplayIs
<1>2. /\ K \in Trees /\ Linked(K, vfs_root, Bound) /\ vfs_root \in AnyId /\ Bound \in Nat
      /\ MaxInodes \in Nat
    BY TypedTree, VfsAssumption DEF TreeInv
<1>3. /\ f[0] = {<<<<>>, vfs_root>>} \ {<<<<>>, ID_INVALID>>}
      /\ \A n \in 1 .. MaxInodes : f[n] = PrintStep(f[n - 1])
      /\ display = UNION {f[n] : n \in 0 .. MaxInodes}
    BY <1>1 DEF Depths
<1> DEFINE S == {d \in Seq(Text) : W(d) # ID_INVALID => <<d, W(d)>> \in f[Len(d)]}
<1>4. <<>> \in S
  <2>1. W(<<>>) = vfs_root /\ <<>> \in Seq(Text) /\ Len(<<>>) = 0
      BY <1>2, WalkEmpty
  <2> HIDE DEF W
  <2> QED BY <1>3, <2>1
<1>5. ASSUME NEW d \in Seq(Text), d \in S, NEW x \in Text PROVE Append(d, x) \in S
  <2> DEFINE c == W(Append(d, x))
             id == W(d)
  <2>1. /\ d \in Names /\ id \in AnyId /\ c = ChildIn(K, id, x) /\ Append(d, x) \in Seq(Text)
        /\ Len(Append(d, x)) = Len(d) + 1 /\ Len(d) \in Nat
      BY <1>2, WalkFolded, WalkNext, AppendProperties DEF Names
  <2>2. /\ c # ID_INVALID => Len(d) + 1 <= c
        /\ c \in AnyId
    <3>1. Append(d, x) \in Names
        BY <2>1 DEF Names
    <3> QED BY <1>2, <2>1, <3>1, WalkBelow, WalkFolded
  <2> SUFFICES ASSUME c # ID_INVALID PROVE <<Append(d, x), c>> \in f[Len(d) + 1]
      BY <2>1
  <2> HIDE DEF c, W, K
  <2>3. Named(K, id, x) # {} /\ id # ID_INVALID
      BY <1>2, <2>1, ChildType
  <2>4. <<d, id>> \in f[Len(d)]
      BY <1>5, <2>3
  <2> DEFINE n == Min(Named(K, id, x))
  <2>5. n \in 1 .. Len(K[id]) /\ K[id][n].name = x /\ c = K[id][n].inode
      BY <1>2, <2>1, <2>3, FirstNamed
  <2> HIDE DEF n, id
  <2>6. <<Append(d, x), c>> \in PrintChildren(<<d, id>>)
    <3>1. <<Append(d, K[id][n].name), K[id][n].inode>> \in PrintChildren(<<d, id>>)
        BY <2>1, <2>5, PrintIs DEF K
    <3> QED BY <2>5, <3>1
  <2>7. Len(d) + 1 \in 1 .. MaxInodes /\ (Len(d) + 1) - 1 = Len(d)
    <3>1. c \in 0 .. MaxInodes - 1 /\ Len(d) + 1 <= c
        BY <2>2 DEF AnyId, Ids
    <3> QED BY <1>2, <2>1, <3>1
  <2>8. f[Len(d) + 1] = PrintStep(f[Len(d)])
      BY <1>3, <2>7
  <2> QED BY <2>4, <2>6, <2>8 DEF PrintStep
<1>6. Seq(Text) \subseteq S
  <2> HIDE DEF S
  <2> QED BY <1>4, <1>5, SeqInduction
<1>7. Walk(e) = W(e)
    BY WalkIs
<1>8. <<e, Walk(e)>> \in f[Len(e)] /\ Len(e) \in Nat /\ Len(e) <= Walk(e) /\ Walk(e) \in AnyId
  <2>1. e \in S /\ Len(e) \in Nat
      BY <1>6 DEF Names
  <2>2. Len(e) <= W(e)
      BY <1>2, <1>7, WalkBelow
  <2> QED BY <1>7, <2>1, <2>2, WalkIs
<1>9. Len(e) \in 0 .. MaxInodes
  <2> DEFINE w == Walk(e)
             l == Len(e)
  <2>1. w \in 0 .. MaxInodes - 1 /\ l <= w /\ l \in Nat
      BY <1>8 DEF AnyId, Ids
  <2> HIDE DEF w, l
  <2> QED BY <1>2, <2>1 DEF l
<1> QED BY <1>3, <1>8, <1>9

LEMMA AnyIdInt ==
    ASSUME NEW x \in AnyId
    PROVE  x \in Int
<1>1. CASE x \in Ids
    BY <1>1, Invalid
<1>2. CASE x = ID_INVALID
    BY <1>2 DEF ID_INVALID
<1> QED BY <1>1, <1>2 DEF AnyId

LEMMA GreatestIn ==
    ASSUME NEW S, S \subseteq Disk, S # {}
    PROVE  Max(S) \in S /\ \A k \in S : k <= Max(S)
<1> DEFINE N == INITRD_MAX
           T == {N - 1 - k : k \in S}
<1>1. N \in Nat /\ S \subseteq 0 .. N - 1
    BY VfsAssumption, CapacityAssumption DEF Disk
<1> HIDE DEF N
<1>2. T \subseteq Nat /\ T # {}
  <2>1. ASSUME NEW k \in S PROVE k \in Int /\ N - 1 - k \in Nat
    <3>1. k \in 0 .. N - 1
        BY <1>1
    <3> QED BY <1>1, <3>1
  <2>2. T # {}
      OBVIOUS
  <2>3. ASSUME NEW x \in T PROVE x \in Nat
    <3>1. PICK k \in S : x = N - 1 - k
        OBVIOUS
    <3> QED BY <2>1, <3>1
  <2> QED BY <2>2, <2>3
<1>3. Min(T) \in T /\ \A x \in T : Min(T) <= x
    BY <1>2, MinIn
<1>4. PICK m \in S : Min(T) = N - 1 - m
    BY <1>3
<1>5. \A k \in S : k <= m
  <2> SUFFICES ASSUME NEW k \in S PROVE k <= m
      OBVIOUS
  <2>1. N - 1 - k \in T
      OBVIOUS
  <2>2. N - 1 - m <= N - 1 - k
      BY <1>3, <1>4, <2>1
  <2>3. k \in 0 .. N - 1 /\ m \in 0 .. N - 1
      BY <1>1
  <2> HIDE DEF T
  <2> QED BY <1>1, <2>2, <2>3
<1>6. S \subseteq Int
  <2> SUFFICES ASSUME NEW k \in S PROVE k \in Int
      OBVIOUS
  <2>1. k \in 0 .. N - 1
      BY <1>1
  <2> QED BY <1>1, <2>1
<1>7. Max(S) = m
    BY <1>5, <1>6, MaxIs
<1> QED BY <1>5, <1>7

\* The archive that paths start from, and its paths.
LEMMA FilesIn ==
    ASSUME TypeInv
    PROVE  /\ Files \in Seq(File) /\ KnownPaths \subseteq Names
           /\ Disks = {k \in Disk : initrds[k] # <<>>}
           /\ Disks # {} => Max(Disks) \in Disk /\ Files = archives[Max(Disks)]
<1>1. initrds \in [Disk -> Memory] /\ archives \in [Disk -> Archives \cup {<<>>}]
    BY DEF TypeInv, VfsTypes
<1>2. Disks = {k \in Disk : initrds[k] # <<>>}
    BY <1>1 DEF Disks
<1>3. Disks # {} => Max(Disks) \in Disk /\ Files = archives[Max(Disks)]
  <2> SUFFICES ASSUME Disks # {} PROVE Max(Disks) \in Disk /\ Files = archives[Max(Disks)]
      OBVIOUS
  <2>1. Max(Disks) \in Disk
      BY <1>2, GreatestIn
  <2> QED BY <2>1 DEF Files
<1>4. Files \in Seq(File)
  <2>1. CASE Disks = {}
      BY <2>1 DEF Files
  <2>2. CASE Disks # {}
      BY <1>1, <1>3, <2>2, ArchiveIn
  <2> QED BY <2>1, <2>2
<1>5. ASSUME NEW f \in ToSet(Files), NEW n \in 1 .. Len(f.elements)
      PROVE  SubSeq(f.elements, 1, n) \in Names
  <2>1. f \in File
      BY <1>4, ElementOfSeq DEF ToSet
  <2>2. f.elements \in Seq(Text)
      BY <2>1 DEF File, Names
  <2>3. n \in 0 .. Len(f.elements)
      OBVIOUS
  <2> QED BY <2>2, <2>3, FirstPart DEF Names
<1>6. \A p \in 1 .. Len(PipePaths) : Elements(PipePaths[p]) \in Names
    BY PipeNames
<1>7. KnownPaths \subseteq Names
  <2> DEFINE A == UNION {{SubSeq(f.elements, 1, n) : n \in 1 .. Len(f.elements)} : f \in ToSet(Files)}
             B == {Elements(PipePaths[p]) : p \in 1 .. Len(PipePaths)}
  <2>1. ASSUME NEW e \in A PROVE e \in Names
    <3>1. PICK f \in ToSet(Files) : e \in {SubSeq(f.elements, 1, n) : n \in 1 .. Len(f.elements)}
        BY <2>1
    <3>2. PICK n \in 1 .. Len(f.elements) : e = SubSeq(f.elements, 1, n)
        BY <3>1
    <3> QED BY <1>5, <3>2
  <2>2. ASSUME NEW e \in B PROVE e \in Names
      BY <1>6, <2>2
  <2>3. KnownPaths = A \cup B
      BY DEF KnownPaths
  <2> HIDE DEF A, B
  <2> QED BY <2>1, <2>2, <2>3
<1> QED BY <1>2, <1>3, <1>4, <1>7

LEMMA TreeIsShaped ==
    ASSUME TypeInv, TreeInv
    PROVE  TreeShape
<1> DEFINE K == Tree(inode_table)
           links == {l \in Ids \X (1 .. MaxInodes) :
                       has(inode_table, l[1]) /\ l[2] <= Len(get(inode_table, l[1]).children)}
           child(l) == get(inode_table, l[1]).children[l[2]].inode
<1>1. K \in Trees /\ Linked(K, vfs_root, Bound) /\ Table(inode_table, inode_counter)
      /\ Typed(inode_table)
    BY TypedTree DEF TreeInv
<1>2. ASSUME NEW l \in links
      PROVE  l[1] \in AnyId /\ l[2] \in 1 .. Len(K[l[1]]) /\ child(l) = K[l[1]][l[2]].inode
             /\ l = <<l[1], l[2]>>
  <2>1. l[1] \in Ids /\ l[1] \in AnyId /\ l[2] \in 1 .. MaxInodes /\ l = <<l[1], l[2]>>
      BY DEF AnyId
  <2>2. K[l[1]] = get(inode_table, l[1]).children
      BY <1>1, <2>1, TreeIn
  <2> HIDE DEF K
  <2>3. Len(K[l[1]]) \in Nat /\ l[2] <= Len(K[l[1]])
      BY <1>1, <2>1, <2>2, KidIn
  <2> QED BY <2>1, <2>2, <2>3
<1> HIDE DEF K, links, child
<1>3. ASSUME NEW l \in links PROVE child(l) > l[1]
  <2>1. l[1] < K[l[1]][l[2]].inode
      BY <1>1, <1>2 DEF Linked
  <2>2. l[1] \in Int /\ K[l[1]][l[2]].inode \in Int
    <3>1. l[1] \in AnyId /\ K[l[1]][l[2]].inode \in AnyId
        BY <1>1, <1>2, KidIn
    <3> QED BY <3>1, AnyIdInt
  <2> QED BY <1>2, <2>1, <2>2
<1>4. ASSUME NEW l \in links, NEW m \in links, child(l) = child(m) PROVE l = m
  <2>1. l[1] = m[1] /\ l[2] = m[2]
      BY <1>1, <1>2, <1>4, LinkUnique
  <2> QED BY <1>2, <2>1
<1> QED BY <1>3, <1>4 DEF TreeShape, links, child

LEMMA DisplayIsFaithful ==
    ASSUME TypeInv, TreeInv
    PROVE  DisplayFaithful
<1>1. ASSUME NEW p \in display
      PROVE  p[2] = Walk(p[1]) \/ \E q \in display : q[1] = p[1] /\ q[2] < p[2]
  <2>1. LineIs(p[1], p[2])
      BY LinesAre
  <2>2. PICK f : Depths(f)
      BY DisplayIs
  <2>3. p \in Lines
      BY <2>2 DEF Depths
  <2>4. p[1] \in Names /\ p[2] \in AnyId
      BY <2>3 DEF Lines
  <2>5. Walk(p[1]) \in AnyId
      BY <2>4, WalkIs
  <2> DEFINE w == Walk(p[1])
             q == <<p[1], w>>
  <2>6. q \in display /\ w <= p[2]
      BY <2>1 DEF LineIs
  <2>7. q[1] = p[1] /\ q[2] = w
      OBVIOUS
  <2> HIDE DEF w, q
  <2>8. w \in Int /\ p[2] \in Int
    <3>1. w \in AnyId
        BY <2>5 DEF w
    <3> QED BY <2>4, <3>1, AnyIdInt
  <2>9. p[2] = w \/ w < p[2]
      BY <2>6, <2>8
  <2> QED BY <2>6, <2>7, <2>9 DEF w
<1>2. ASSUME NEW e \in KnownPaths, Walk(e) # ID_INVALID PROVE <<e, Walk(e)>> \in display
    BY <1>2, FilesIn, PathsPrinted
<1> QED BY <1>1, <1>2, TreeIsShaped DEF DisplayFaithful

\* The lines of the command fs: the tree under every root has no cycle, so
\* that vfs_print_inode comes to an end; each line is the inode that get_inode
\* finds under the printed path, or an inode that an older one of the same
\* name hides; and every path of the archive and of the pipes that leads to
\* an inode is printed.
THEOREM VfsDisplayFaithful == Spec => []DisplayFaithful
<1>1. TypeInv /\ [Next]_vars => TypeInv'
    BY NextTypes
<1>2. TypeInv /\ TypeInv' /\ TreeInv /\ [Next]_vars => TreeInv'
    BY NextTree
<1>3. TypeInv /\ TreeInv => DisplayFaithful
    BY DisplayIsFaithful
<1> QED BY InitTypes, TreeInit, <1>1, <1>2, <1>3, PTL DEF Spec

-----------------------------------------------------------------------------
(***************************************************************************)
(* The names in an archive are the paths of its files.                     *)
(***************************************************************************)

\* As many elements as starts, and no two starts with as many before them.
LEMMA CountStarts ==
    ASSUME NEW S, NEW p \in Seq(S)
    PROVE  path_element_count(p) = Cardinality(Starts(p)) /\ UpTo(p, Len(p)) = Starts(p)
<1>1. PICK f : IsScanned(f, p)
    BY ScanRounds
<1>2. Len(p) \in Nat /\ Len(p) \in 0 .. Len(p)
    OBVIOUS
<1>3. f[Len(p)].count = Cardinality(UpTo(p, Len(p)))
    BY <1>1, <1>2, ScanCounts
<1>4. UpTo(p, Len(p)) = Starts(p)
    BY <1>2 DEF UpTo, Starts
<1> QED BY <1>1, <1>3, <1>4 DEF path_element_count, IsScanned

LEMMA FewerBefore ==
    ASSUME NEW S, NEW p \in Seq(S), NEW x \in Starts(p), NEW y \in Starts(p), x < y
    PROVE  Cardinality(UpTo(p, x - 1)) # Cardinality(UpTo(p, y - 1))
<1>1. x \in Nat /\ y \in Nat
    BY DEF Starts
<1>2. UpTo(p, x - 1) \in SUBSET UpTo(p, y - 1)
    BY <1>1 DEF UpTo, Starts
<1>3. x \in UpTo(p, y - 1) /\ x \notin UpTo(p, x - 1)
    BY <1>1 DEF UpTo
<1>4. IsFiniteSet(UpTo(p, y - 1))
    BY StartsFinite DEF UpTo
<1>5. UpTo(p, x - 1) # UpTo(p, y - 1)
    BY <1>3
<1> QED BY <1>2, <1>4, <1>5, FS_Subset

LEMMA StartsDiffer ==
    ASSUME NEW S, NEW p \in Seq(S), NEW x \in Starts(p), NEW y \in Starts(p),
           Cardinality(UpTo(p, x - 1)) = Cardinality(UpTo(p, y - 1))
    PROVE  x = y
<1>1. x \in Nat /\ y \in Nat
    BY DEF Starts
<1>2. x < y \/ y < x \/ x = y
    BY <1>1
<1> QED BY <1>2, FewerBefore

\* q is p and more, and no element of p goes on in it.
Extends(p, q) ==
    /\ Len(p) <= Len(q) /\ \A k \in 1 .. Len(p) : q[k] = p[k]
    /\ Len(q) = Len(p) \/ q[Len(p) + 1] = Separator \/ p = <<>> \/ p[Len(p)] = Separator

LEMMA ExtendsCopy ==
    ASSUME NEW S, NEW p \in Seq(S), NEW q \in Seq(S), Extends(p, q), NEW i \in Starts(p)
    PROVE  i \in Starts(q) /\ CopyElement(q, i) = CopyElement(p, i)
<1> DEFINE M == Len(p)
           N == Len(q)
           cut == i + FILENAME_MAX - 1
<1>1. /\ M \in Nat /\ N \in Nat /\ M <= N /\ i \in 1 .. M /\ cut \in Nat
      /\ \A k \in 1 .. M : q[k] = p[k]
    BY FilenameAssumption DEF Extends, Starts
<1>2. i \in Starts(q)
  <2>1. p[i] # Separator /\ (i = 1 \/ p[i - 1] = Separator) /\ (i # 1 => i - 1 \in 1 .. M)
      BY <1>1 DEF Starts
  <2>2. q[i] = p[i] /\ (i # 1 => q[i - 1] = p[i - 1]) /\ i \in 1 .. N
      BY <1>1, <2>1
  <2> QED BY <2>1, <2>2 DEF Starts
<1> DEFINE c == CopyElement(p, i)
           d == CopyElement(q, i)
<1>3. PICK j \in i .. M + 1 :
          /\ c \in Seq(S) /\ Len(c) = j - i /\ j - i <= FILENAME_MAX - 1
          /\ \A k \in 1 .. j - i : c[k] = p[i + k - 1]
          /\ \A k \in i .. j - 1 : p[k] # Separator
          /\ j = M + 1 \/ j = cut \/ p[j] = Separator
    BY CopyIs
<1>4. PICK m \in i .. N + 1 :
          /\ d = SubSeq(q, i, m - 1) /\ d \in Seq(S)
          /\ Len(d) = m - i /\ m - i <= FILENAME_MAX - 1
          /\ \A k \in 1 .. m - i : d[k] = q[i + k - 1]
          /\ \A k \in i .. m - 1 : q[k] # Separator
          /\ m = N + 1 \/ m = cut \/ q[m] = Separator
    BY <1>2, CopyIs, Zenon
<1> HIDE DEF c, d
<1>5. j \in Nat /\ m \in Nat /\ j <= cut /\ m <= cut /\ i <= j /\ i <= m /\ j <= M + 1 /\ m <= N + 1
    BY <1>1, <1>3, <1>4, FilenameAssumption
<1>6. M \in Nat /\ (p = <<>> => M = 0)
    OBVIOUS
<1>7. N = M \/ q[M + 1] = Separator \/ p[M] = Separator
    BY <1>1, <1>6 DEF Extends
<1> HIDE DEF M, N, cut
<1>8. ~(j < m)
  <2> SUFFICES ASSUME j < m PROVE FALSE
      OBVIOUS
  <2>1. j \in i .. m - 1 /\ j # cut
      BY <1>5
  <2>2. q[j] # Separator
      BY <1>4, <2>1
  <2>3. CASE j = M + 1
    <3>1. N # M
        BY <1>1, <1>5, <2>3
    <3>2. M \in i .. j - 1
        BY <1>1, <2>3
    <3>3. p[M] # Separator
        BY <1>3, <3>2
    <3> QED BY <1>7, <2>2, <2>3, <3>1, <3>3
  <2>4. CASE j # M + 1
    <3>1. j \in 1 .. M
        BY <1>1, <1>5, <2>4
    <3> QED BY <1>1, <1>3, <2>1, <2>2, <2>4, <3>1
  <2> QED BY <2>3, <2>4
<1>9. ~(m < j)
  <2> SUFFICES ASSUME m < j PROVE FALSE
      OBVIOUS
  <2>1. m \in i .. j - 1 /\ m # cut /\ m # N + 1 /\ m \in 1 .. M
      BY <1>1, <1>5
  <2> QED BY <1>1, <1>3, <1>4, <2>1
<1>10. j = m
    BY <1>5, <1>8, <1>9
<1>11. Len(c) = Len(d) /\ \A k \in 1 .. Len(c) : c[k] = d[k]
  <2> SUFFICES ASSUME NEW k \in 1 .. j - i PROVE c[k] = d[k]
      BY <1>3, <1>4, <1>10
  <2>1. i + k - 1 \in 1 .. M
      BY <1>1, <1>5
  <2> QED BY <1>1, <1>3, <1>4, <1>10, <2>1
<1>12. c = d
    BY <1>3, <1>4, <1>11, SeqEqual
<1> QED BY <1>2, <1>12 DEF c, d

LEMMA ExtendsUpTo ==
    ASSUME NEW S, NEW p \in Seq(S), NEW q \in Seq(S), Extends(p, q), NEW n \in Int, n <= Len(p)
    PROVE  UpTo(q, n) = UpTo(p, n)
<1>1. /\ Len(p) \in Nat /\ Len(q) \in Nat /\ Len(p) <= Len(q)
      /\ \A k \in 1 .. Len(p) : q[k] = p[k]
    BY DEF Extends
<1>2. ASSUME NEW k \in 1 .. Len(p) PROVE k \in Starts(q) <=> k \in Starts(p)
  <2>1. k \in 1 .. Len(q) /\ q[k] = p[k] /\ (k # 1 => k - 1 \in 1 .. Len(p))
      BY <1>1
  <2>2. k # 1 => q[k - 1] = p[k - 1]
      BY <1>1, <2>1
  <2> QED BY <2>1, <2>2 DEF Starts
<1>3. \A k \in Starts(q) : k <= n => k \in 1 .. Len(p)
    BY <1>1 DEF Starts
<1>4. \A k \in Starts(p) : k \in 1 .. Len(p)
    BY DEF Starts
<1> QED BY <1>2, <1>3, <1>4 DEF UpTo

\* The elements of p are the first ones of q.
LEMMA ExtendsElement ==
    ASSUME NEW S, NEW p \in Seq(S), NEW q \in Seq(S), Extends(p, q),
           NEW n \in 0 .. path_element_count(p) - 1, n \in 0 .. path_element_count(q) - 1
    PROVE  path_element_get(q, n) = path_element_get(p, n)
<1>1. PICK i \in Starts(p) : /\ Cardinality(UpTo(p, i - 1)) = n
                             /\ path_element_get(p, n) = CopyElement(p, i)
    BY ElementFound
<1>2. PICK j \in Starts(q) : /\ Cardinality(UpTo(q, j - 1)) = n
                             /\ path_element_get(q, n) = CopyElement(q, j)
    BY ElementFound
<1>3. i - 1 \in Int /\ i - 1 <= Len(p)
    BY DEF Starts
<1>4. UpTo(q, i - 1) = UpTo(p, i - 1)
    BY <1>3, ExtendsUpTo
<1>5. i \in Starts(q) /\ CopyElement(q, i) = CopyElement(p, i)
    BY ExtendsCopy
<1>6. i = j
    BY <1>1, <1>2, <1>4, <1>5, StartsDiffer
<1> QED BY <1>1, <1>2, <1>5, <1>6

\* A separator at the end adds no element.
LEMMA SeparatorEnds ==
    ASSUME NEW S, NEW p \in Seq(S), Separator \in S
    PROVE  Elements(Append(p, Separator)) = Elements(p)
<1> DEFINE q == Append(p, Separator)
           M == Len(p)
<1>1. /\ q \in Seq(S) /\ Len(q) = M + 1 /\ q[M + 1] = Separator /\ M \in Nat
      /\ \A k \in 1 .. M : q[k] = p[k]
    BY AppendProperties
<1> HIDE DEF q
<1>2. Extends(p, q)
    BY <1>1 DEF Extends
<1>3. Starts(q) = Starts(p)
  <2>1. UpTo(q, M) = UpTo(p, M)
      BY <1>1, <1>2, ExtendsUpTo
  <2>2. UpTo(p, M) = Starts(p)
      BY CountStarts
  <2>3. \A k \in Starts(q) : k \in 1 .. M + 1 /\ k # M + 1
      BY <1>1 DEF Starts
  <2>4. UpTo(q, M) = Starts(q)
      BY <1>1, <2>3 DEF UpTo
  <2> QED BY <2>1, <2>2, <2>4
<1>4. path_element_count(q) = path_element_count(p) /\ path_element_count(p) \in Nat
    BY <1>1, <1>3, CountStarts, CountType
<1> DEFINE n == path_element_count(p)
<1>5. /\ Elements(p) \in Seq(Seq(S)) /\ Len(Elements(p)) = n
      /\ \A k \in 1 .. n : Elements(p)[k] = path_element_get(p, k - 1)
    BY ElementsAre
<1>6. /\ Elements(q) \in Seq(Seq(S)) /\ Len(Elements(q)) = n
      /\ \A k \in 1 .. n : Elements(q)[k] = path_element_get(q, k - 1)
    BY <1>1, <1>4, ElementsAre
<1>7. \A k \in 1 .. n : Elements(q)[k] = Elements(p)[k]
  <2> SUFFICES ASSUME NEW k \in 1 .. n PROVE Elements(q)[k] = Elements(p)[k]
      OBVIOUS
  <2>1. k - 1 \in 0 .. n - 1
      BY <1>4
  <2>2. path_element_get(q, k - 1) = path_element_get(p, k - 1)
      BY <1>1, <1>2, <1>4, <2>1, ExtendsElement
  <2> QED BY <1>5, <1>6, <2>2
<1>8. Elements(q) = Elements(p)
  <2> DEFINE a == Elements(q)
             b == Elements(p)
  <2> HIDE DEF a, b, n
  <2>1. a \in Seq(Seq(S)) /\ b \in Seq(Seq(S)) /\ Len(a) = Len(b) /\ \A k \in 1 .. Len(a) : a[k] = b[k]
      BY <1>5, <1>6, <1>7 DEF a, b
  <2>2. a = b
      BY <2>1, SeqEqual
  <2> QED BY <2>2 DEF a, b
<1> QED BY <1>8 DEF q

\* A word behind a separator, or at the beginning, is an element.
IsWord(w) == Len(w) \in 1 .. FILENAME_MAX - 1 /\ \A n \in 1 .. Len(w) : w[n] # Separator

LEMMA WordStarts ==
    ASSUME NEW S, NEW p \in Seq(S), NEW w \in Seq(S), IsWord(w),
           p = <<>> \/ p[Len(p)] = Separator
    PROVE  LET q == p \o w
           IN  /\ q \in Seq(S) /\ Len(q) = Len(p) + Len(w) /\ Extends(p, q)
               /\ \A k \in 1 .. Len(w) : q[Len(p) + k] = w[k]
               /\ Starts(q) = Starts(p) \cup {Len(p) + 1} /\ Len(p) + 1 \notin Starts(p)
<1> DEFINE q == p \o w
           M == Len(p)
           L == Len(w)
<1>1. /\ q \in Seq(S) /\ Len(q) = M + L
      /\ \A k \in 1 .. M + L : q[k] = IF k <= M THEN p[k] ELSE w[k - M]
    BY ConcatProperties
<1>2. M \in Nat /\ L \in Nat /\ 1 <= L /\ \A k \in 1 .. L : w[k] # Separator
    BY DEF IsWord
<1>3. M = 0 \/ p[M] = Separator
    OBVIOUS
<1> HIDE DEF q
<1>4. \A k \in 1 .. M : q[k] = p[k]
    BY <1>1, <1>2
<1>5. \A k \in 1 .. L : q[M + k] = w[k]
  <2> SUFFICES ASSUME NEW k \in 1 .. L PROVE q[M + k] = w[k]
      OBVIOUS
  <2>1. M + k \in 1 .. M + L /\ ~(M + k <= M) /\ (M + k) - M = k
      BY <1>2
  <2> QED BY <1>1, <2>1
<1>6. Extends(p, q)
    BY <1>1, <1>2, <1>4 DEF Extends
<1>7. Starts(p) \subseteq 1 .. M
    BY DEF Starts
<1>8. Starts(q) = UpTo(q, M) \cup {M + 1}
  <2>1. M + 1 \in Starts(q)
    <3>1. 1 \in 1 .. L /\ M + 1 \in 1 .. M + L
        BY <1>2
    <3>2. q[M + 1] # Separator
        BY <1>2, <1>5, <3>1
    <3>3. M # 0 => q[M] = Separator /\ (M + 1) - 1 = M
        BY <1>2, <1>3, <1>4
    <3>4. M = 0 => M + 1 = 1
        OBVIOUS
    <3> QED BY <1>1, <3>1, <3>2, <3>3, <3>4 DEF Starts
  <2>2. ASSUME NEW k \in Starts(q), k > M + 1 PROVE FALSE
    <3>1. k \in 1 .. M + L /\ (k = 1 \/ q[k - 1] = Separator)
        BY <1>1 DEF Starts
    <3> DEFINE n == (k - 1) - M
    <3>2. n \in 1 .. L /\ M + n = k - 1 /\ k # 1
        BY <1>2, <2>2, <3>1
    <3> HIDE DEF n
    <3>3. q[M + n] # Separator
        BY <1>2, <1>5, <3>2
    <3> QED BY <3>1, <3>2, <3>3
  <2>3. \A k \in Starts(q) : k \in Nat
      BY <1>1, <1>2 DEF Starts
  <2>4. \A k \in Starts(q) : k <= M \/ k = M + 1
      BY <1>2, <2>2, <2>3
  <2> QED BY <2>1, <2>4 DEF UpTo
<1>9. UpTo(q, M) = Starts(p)
    BY <1>1, <1>2, <1>6, ExtendsUpTo, CountStarts
<1>10. M + 1 \notin Starts(p)
    BY <1>2, <1>7
<1> QED BY <1>1, <1>5, <1>6, <1>8, <1>9, <1>10 DEF q

\* q ends in w, from position i on.
EndsIn(q, i, w) == Len(q) = i - 1 + Len(w) /\ \A k \in 1 .. Len(w) : q[i + k - 1] = w[k]

LEMMA WordCopied ==
    ASSUME NEW S, NEW q \in Seq(S), NEW w \in Seq(S), IsWord(w), NEW i \in Starts(q),
           EndsIn(q, i, w)
    PROVE  CopyElement(q, i) = w
<1> DEFINE c == CopyElement(q, i)
           L == Len(w)
           N == Len(q)
           room == FILENAME_MAX - 1
<1>1. PICK j \in i .. N + 1 :
          /\ c \in Seq(S) /\ Len(c) = j - i /\ j - i <= room
          /\ \A k \in 1 .. j - i : c[k] = q[i + k - 1]
          /\ \A k \in i .. j - 1 : q[k] # Separator
          /\ j = N + 1 \/ j = i + FILENAME_MAX - 1 \/ q[j] = Separator
    BY CopyIs
<1> HIDE DEF c
<1>2. /\ i \in Nat /\ L \in Nat /\ N \in Nat /\ N = i - 1 + L
      /\ room \in Nat /\ L <= room /\ i + FILENAME_MAX - 1 = i + room
  <2>1. i \in Nat /\ FILENAME_MAX \in Nat \ {0}
      BY FilenameAssumption DEF Starts
  <2>2. L \in 1 .. room
      BY DEF IsWord
  <2>3. N = i - 1 + L
      BY DEF EndsIn
  <2> QED BY <2>1, <2>2, <2>3
<1>3. \A k \in 1 .. L : w[k] # Separator /\ q[i + k - 1] = w[k]
    BY DEF IsWord, EndsIn
<1> HIDE DEF L, N, room
<1>4. j = N + 1
  <2> SUFFICES ASSUME j # N + 1 PROVE FALSE
      OBVIOUS
  <2> DEFINE k == j - i + 1
  <2>1. k \in 1 .. L /\ i + k - 1 = j
      BY <1>2
  <2>2. j = i + room => j = N + 1
      BY <1>2
  <2> HIDE DEF k
  <2>3. q[j] # Separator
      BY <1>3, <2>1
  <2> QED BY <1>1, <1>2, <2>2, <2>3
<1>5. j - i = L
    BY <1>2, <1>4
<1>6. Len(c) = L /\ \A k \in 1 .. L : c[k] = w[k]
  <2>1. Len(c) = L /\ 1 .. j - i = 1 .. L
      BY <1>1, <1>5
  <2>2. \A k \in 1 .. L : c[k] = q[i + k - 1]
      BY <1>1, <2>1
  <2> QED BY <1>3, <2>1, <2>2
<1>7. c = w
  <2>1. c \in Seq(S) /\ Len(c) = Len(w) /\ \A k \in 1 .. Len(c) : c[k] = w[k]
      BY <1>1, <1>6 DEF L
  <2> QED BY <2>1, SeqEqual
<1> QED BY <1>7 DEF c

LEMMA WordAdds ==
    ASSUME NEW S, NEW p \in Seq(S), NEW w \in Seq(S), IsWord(w),
           p = <<>> \/ p[Len(p)] = Separator
    PROVE  Elements(p \o w) = Append(Elements(p), w)
<1> DEFINE q == p \o w
           M == Len(p)
           L == Len(w)
           n == path_element_count(p)
<1>1. /\ q \in Seq(S) /\ Len(q) = M + L /\ Extends(p, q)
      /\ \A k \in 1 .. L : q[M + k] = w[k]
      /\ Starts(q) = Starts(p) \cup {M + 1} /\ M + 1 \notin Starts(p)
    BY WordStarts
<1>2. M \in Nat /\ L \in Nat /\ 1 <= L /\ L <= FILENAME_MAX - 1 /\ FILENAME_MAX \in Nat
      /\ \A k \in 1 .. L : w[k] # Separator
    BY FilenameAssumption DEF IsWord
<1> HIDE DEF q
<1>3. n = Cardinality(Starts(p)) /\ UpTo(p, M) = Starts(p) /\ n \in Nat
    BY CountStarts, CountType
<1>4. UpTo(q, M) = Starts(p)
    BY <1>1, <1>2, <1>3, ExtendsUpTo
<1>5. path_element_count(q) = n + 1
  <2>1. IsFiniteSet(Starts(p))
      BY StartsFinite
  <2>2. Cardinality(Starts(q)) = Cardinality(Starts(p)) + 1
      BY <1>1, <2>1, FS_AddElement
  <2> QED BY <1>1, <1>3, <2>2, CountStarts
<1> HIDE DEF n
<1>6. path_element_get(q, n) = w
  <2>1. n \in 0 .. path_element_count(q) - 1
      BY <1>3, <1>5
  <2>2. PICK i \in Starts(q) : /\ Cardinality(UpTo(q, i - 1)) = n
                               /\ path_element_get(q, n) = CopyElement(q, i)
      BY <1>1, <2>1, ElementFound
  <2>3. M + 1 \in Starts(q) /\ (M + 1) - 1 = M
      BY <1>1, <1>2
  <2>4. i = M + 1
      BY <1>1, <1>3, <1>4, <2>2, <2>3, StartsDiffer
  <2>5. Len(q) = M + 1 - 1 + L /\ \A k \in 1 .. L : q[M + 1 + k - 1] = w[k]
    <3>1. \A k \in 1 .. L : M + 1 + k - 1 = M + k
        BY <1>2
    <3>2. M + 1 - 1 + L = M + L
        BY <1>2
    <3> QED BY <1>1, <3>1, <3>2
  <2>6. CopyElement(q, M + 1) = w
    <3> DEFINE i0 == M + 1
    <3>1. i0 \in Starts(q)
        BY <2>3
    <3>2. EndsIn(q, i0, w)
      <4>1. Len(q) = i0 - 1 + L /\ \A k \in 1 .. L : q[i0 + k - 1] = w[k]
          BY <2>5
      <4> HIDE DEF i0
      <4> QED BY <4>1 DEF EndsIn
    <3> HIDE DEF i0
    <3>3. CopyElement(q, i0) = w
        BY <1>1, <3>1, <3>2, WordCopied
    <3> QED BY <3>3 DEF i0
  <2> QED BY <2>2, <2>4, <2>6
<1> DEFINE a == Elements(q)
           b == Elements(p)
<1>7. /\ b \in Seq(Seq(S)) /\ Len(b) = n
      /\ \A k \in 1 .. n : b[k] = path_element_get(p, k - 1)
    BY ElementsAre DEF n
<1>8. /\ a \in Seq(Seq(S)) /\ Len(a) = n + 1
      /\ \A k \in 1 .. n + 1 : a[k] = path_element_get(q, k - 1)
    BY <1>1, <1>5, ElementsAre
<1> HIDE DEF a, b
<1>9. \A k \in 1 .. n : a[k] = b[k]
  <2> SUFFICES ASSUME NEW k \in 1 .. n PROVE a[k] = b[k]
      OBVIOUS
  <2>1. k - 1 \in 0 .. n - 1 /\ k - 1 \in 0 .. (n + 1) - 1 /\ k \in 1 .. n + 1
      BY <1>3
  <2>2. path_element_get(q, k - 1) = path_element_get(p, k - 1)
      BY <1>1, <1>5, <2>1, ExtendsElement DEF n
  <2> QED BY <1>7, <1>8, <2>1, <2>2
<1>10. a[n + 1] = w
  <2>1. n + 1 \in 1 .. n + 1 /\ (n + 1) - 1 = n
      BY <1>3
  <2> QED BY <1>6, <1>8, <2>1
<1>11. /\ Append(b, w) \in Seq(Seq(S)) /\ Len(Append(b, w)) = n + 1 /\ Append(b, w)[n + 1] = w
       /\ \A k \in 1 .. n : Append(b, w)[k] = b[k]
    BY <1>7, AppendProperties
<1>12. \A k \in 1 .. n + 1 : a[k] = Append(b, w)[k]
  <2>1. \A k \in 1 .. n + 1 : k \in 1 .. n \/ k = n + 1
      BY <1>3
  <2> QED BY <1>9, <1>10, <1>11, <2>1
<1>13. a = Append(b, w)
    BY <1>8, <1>11, <1>12, SeqEqual
<1> QED BY <1>13 DEF a, b, q

LEMMA JoinOne ==
    ASSUME NEW S, Separator \in S, NEW s \in Seq(S), NEW x \in Seq(S), IsWord(x)
    PROVE  /\ s \o <<Separator>> \o x \in Seq(S) /\ s \o <<Separator>> \o x # <<>>
           /\ Elements(s \o <<Separator>> \o x) = Append(Elements(s), x)
<1> DEFINE t == Append(s, Separator)
<1>1. s \o <<Separator>> = t
    BY AppendIsConcat
<1>2. t \in Seq(S) /\ Len(t) = Len(s) + 1 /\ t[Len(s) + 1] = Separator /\ Elements(t) = Elements(s)
    BY AppendProperties, SeparatorEnds
<1>3. t[Len(t)] = Separator
    BY <1>2
<1> HIDE DEF t
<1>4. t \o x \in Seq(S) /\ Elements(t \o x) = Append(Elements(t), x)
    BY <1>2, <1>3, WordStarts, WordAdds
<1>5. t \o x # <<>>
  <2> HIDE DEF t
  <2>1. t \in Seq(S) /\ x \in Seq(S)
      BY <1>2
  <2>2. Len(t \o x) = Len(t) + Len(x)
      BY <2>1, ConcatProperties
  <2>3. Len(t) \in Nat /\ Len(x) \in Nat
      BY <2>1
  <2>4. Len(x) \in 1 .. FILENAME_MAX - 1
      BY DEF IsWord
  <2>5. Len(t \o x) # 0
      BY <2>2, <2>3, <2>4
  <2>6. Len(<<>>) = 0
      OBVIOUS
  <2> QED BY <2>5, <2>6
<1> QED BY <1>1, <1>2, <1>4, <1>5

LEMMA WordAlone ==
    ASSUME NEW S, NEW w \in Seq(S), IsWord(w)
    PROVE  Elements(w) = <<w>> /\ w # <<>>
<1>1. Elements(<<>>) = <<>>
  <2>1. <<>> \in Seq(S) /\ Starts(<<>>) = {}
      BY DEF Starts
  <2>2. path_element_count(<<>>) = 0
      BY <2>1, CountStarts, FS_EmptySet
  <2>3. Elements(<<>>) \in Seq(Seq(S)) /\ Len(Elements(<<>>)) = 0
      BY <2>1, <2>2, ElementsAre
  <2> QED BY <2>3, EmptySeq
<1>2. <<>> \o w = w
    BY ConcatEmptySeq
<1>3. Elements(<<>> \o w) = Append(<<>>, w)
  <2> DEFINE p == <<>>
  <2>1. p \in Seq(S) /\ p = <<>>
      OBVIOUS
  <2> HIDE DEF p
  <2>2. Elements(p \o w) = Append(Elements(p), w)
      BY <2>1, WordAdds
  <2> QED BY <1>1, <2>1, <2>2
<1>4. w # <<>>
    BY DEF IsWord
<1> QED BY <1>2, <1>3, <1>4

\* Elements joined by separators.
JoinAll(first, e) == FoldLeft(LAMBDA s, x : s \o <<Separator>> \o x, first, e)

LEMMA JoinAllSplits ==
    ASSUME NEW first \in Text, IsWord(first), NEW e \in Names, \A n \in 1 .. Len(e) : IsWord(e[n])
    PROVE  /\ JoinAll(first, e) \in Text /\ JoinAll(first, e) # <<>>
           /\ Elements(JoinAll(first, e)) = <<first>> \o e
<1> DEFINE W == {w \in Text : IsWord(w)}
           Right(r) == /\ JoinAll(first, r) \in Text /\ JoinAll(first, r) # <<>>
                       /\ Elements(JoinAll(first, r)) = <<first>> \o r
           T == {r \in Seq(W) : Right(r)}
           S == STRING
<1>0. Text = Seq(S) /\ Separator \in S
    BY TextJoin, Zenon DEF Text
<1> HIDE DEF S
<1>1. \A r \in Seq(W) : r \in Names /\ r \in Seq(Text)
    BY DEF Names
<1>2. ASSUME NEW r \in Seq(W)
      PROVE  /\ Foldable(Text, Text, first, JoinStep, r)
             /\ Folded(JoinAll(first, r), Text, first, JoinStep, r)
  <2>1. r \in Names /\ r \in Seq(Text)
      BY <1>1
  <2>2. Folded(JoinAll(first, r), Text, first, JoinStep, r)
      BY <2>1, JoinFold, Zenon DEF JoinAll
  <2>3. \A s, x \in Text : s \o <<Separator>> \o x \in Text
      BY TextJoin
  <2> QED BY <2>1, <2>2, <2>3 DEF Foldable, JoinStep
<1>3. <<>> \in T
  <2>1. <<>> \in Seq(W)
      OBVIOUS
  <2>2. JoinAll(first, <<>>) = first
      BY <1>2, <2>1, FoldedEmpty
  <2>3. Elements(first) = <<first>> /\ first # <<>>
      BY <1>0, WordAlone
  <2>4. <<first>> \o <<>> = <<first>>
    <3>1. <<first>> \in Seq(Text)
        OBVIOUS
    <3> DEFINE one == <<first>>
    <3> HIDE DEF one
    <3>2. one \o <<>> = one
        BY <3>1, ConcatEmptySeq DEF one
    <3> QED BY <3>2 DEF one
  <2>5. Right(<<>>)
    <3> DEFINE v == JoinAll(first, <<>>)
               w == <<first>> \o <<>>
    <3> HIDE DEF v, w
    <3>1. v = first /\ w = <<first>>
        BY <2>2, <2>4 DEF v, w
    <3>2. v \in Text /\ v # <<>> /\ Elements(v) = w
        BY <2>3, <3>1
    <3> QED BY <3>2 DEF v, w
  <2> DEFINE z == <<>>
  <2>6. z \in Seq(W) /\ Right(z)
      BY <2>1, <2>5
  <2> HIDE DEF z, W, Right
  <2>7. z \in T
      BY <2>6
  <2> QED BY <2>7 DEF z
<1>4. ASSUME NEW r \in Seq(W), r \in T, NEW x \in W PROVE Append(r, x) \in T
  <2> DEFINE v == JoinAll(first, r)
             w == JoinAll(first, Append(r, x))
  <2>1. Append(r, x) \in Seq(W) /\ x \in Text /\ IsWord(x) /\ Right(r)
      BY <1>4, AppendProperties
  <2>2. w = JoinStep[<<v, x>>] /\ v \in Text
    <3>1. /\ Foldable(Text, Text, first, JoinStep, r)
          /\ Folded(v, Text, first, JoinStep, r)
          /\ Folded(w, Text, first, JoinStep, Append(r, x))
        BY <1>2, <2>1
    <3> HIDE DEF v, w
    <3> QED BY <2>1, <3>1, FoldedAppend
  <2>3. w = v \o <<Separator>> \o x
      BY <2>1, <2>2 DEF JoinStep
  <2>4. Elements(v) = <<first>> \o r
      BY <2>1
  <2> HIDE DEF v, w
  <2>5. w \in Text /\ w # <<>> /\ Elements(w) = Append(Elements(v), x)
    <3>1. v \in Seq(S) /\ x \in Seq(S) /\ IsWord(x)
        BY <1>0, <2>1, <2>2
    <3>2. /\ v \o <<Separator>> \o x \in Seq(S) /\ v \o <<Separator>> \o x # <<>>
          /\ Elements(v \o <<Separator>> \o x) = Append(Elements(v), x)
        BY <1>0, <3>1, JoinOne
    <3> QED BY <1>0, <2>3, <3>2
  <2>6. Append(<<first>> \o r, x) = <<first>> \o Append(r, x)
    <3> DEFINE one == <<first>>
    <3>1. one \in Seq(Text) /\ r \in Seq(Text) /\ <<x>> \in Seq(Text)
        BY <1>1, <2>1
    <3> HIDE DEF one
    <3>2. one \o r \in Seq(Text)
        BY <3>1, ConcatProperties
    <3>4. Append(one \o r, x) = (one \o r) \o <<x>>
        BY <2>1, <3>2, AppendIsConcat
    <3>5. Append(r, x) = r \o <<x>>
        BY <2>1, <3>1, AppendIsConcat
    <3>3. (one \o r) \o <<x>> = one \o (r \o <<x>>)
        BY <3>1, ConcatAssociative
    <3> QED BY <3>3, <3>4, <3>5 DEF one
  <2> QED BY <2>1, <2>4, <2>5, <2>6 DEF w
<1>5. Seq(W) \subseteq T
  <2> HIDE DEF W, T
  <2> QED BY <1>3, <1>4, SeqInduction
<1>6. e \in Seq(W)
  <2>1. e \in Seq(Text)
      BY DEF Names
  <2>2. \A n \in 1 .. Len(e) : e[n] \in W
      BY <2>1, ElementOfSeq
  <2> HIDE DEF W
  <2> QED BY <2>1, <2>2
<1> QED BY <1>5, <1>6

\* The elements of the name in a header are the elements of its file.
LEMMA JoinSplits ==
    ASSUME NEW f \in File
    PROVE  Elements(Join(f)) = f.elements /\ Join(f) # <<>>
<1> DEFINE e == f.elements
           j == JoinAll(e[1], Tail(e))
           S == STRING
<1>1. e \in Names /\ e # <<>> /\ e[1] \in Text /\ Tail(e) \in Names
    BY JoinIn
<1>2. \A n \in 1 .. Len(e) : IsWord(e[n])
    BY DEF File, IsName, IsWord
<1>3. Text = Seq(S) /\ Separator \in S
    BY TextJoin, Zenon DEF Text
<1> HIDE DEF S
<1>4. Join(f) = IF f.flag = "5" THEN Append(j, Separator) ELSE j
    BY Zenon DEF Join, JoinAll
<1> HIDE DEF e
<1>5. e \in Seq(Text) /\ Len(e) \in Nat \ {0}
    BY <1>1, EmptySeq DEF Names
<1>6. Tail(e) \in Seq(Text) /\ Len(Tail(e)) = Len(e) - 1
      /\ \A n \in 1 .. Len(Tail(e)) : Tail(e)[n] = e[n + 1]
    BY <1>1, <1>5, HeadTailProperties
<1>7. IsWord(e[1]) /\ \A n \in 1 .. Len(Tail(e)) : IsWord(Tail(e)[n])
  <2>1. 1 \in 1 .. Len(e) /\ \A n \in 1 .. Len(Tail(e)) : n + 1 \in 1 .. Len(e)
      BY <1>5, <1>6
  <2> QED BY <1>2, <1>6, <2>1
<1>8. j \in Text /\ j # <<>> /\ Elements(j) = <<e[1]>> \o Tail(e)
    BY <1>1, <1>7, JoinAllSplits
<1>9. <<e[1]>> \o Tail(e) = e
  <2> DEFINE one == <<e[1]>>
             t == Tail(e)
  <2>1. one \in Seq(Text) /\ Len(one) = 1 /\ one[1] = e[1]
      BY <1>1
  <2> HIDE DEF one, t
  <2>6. t \in Seq(Text)
      BY <1>6 DEF t
  <2>7. /\ one \o t \in Seq(Text) /\ Len(one \o t) = Len(one) + Len(t)
        /\ \A n \in 1 .. Len(one) + Len(t) : (one \o t)[n] = IF n <= Len(one) THEN one[n] ELSE t[n - Len(one)]
      BY <2>1, <2>6, ConcatProperties
  <2>2. /\ one \o t \in Seq(Text) /\ Len(one \o t) = 1 + Len(t)
        /\ \A n \in 1 .. 1 + Len(t) : (one \o t)[n] = IF n <= 1 THEN one[n] ELSE t[n - 1]
      BY <2>1, <2>7
  <2>3. Len(t) \in Nat /\ 1 + Len(t) = Len(e)
      BY <1>5, <1>6 DEF t
  <2>4. ASSUME NEW n \in 1 .. Len(e) PROVE (one \o t)[n] = e[n]
    <3>1. CASE n = 1
        BY <2>1, <2>2, <2>3, <3>1
    <3>2. CASE n # 1
      <4>1. n - 1 \in 1 .. Len(t) /\ (n - 1) + 1 = n /\ ~(n <= 1)
          BY <2>3, <3>2
      <4>2. t[n - 1] = e[n]
          BY <1>6, <4>1 DEF t
      <4> QED BY <2>2, <2>3, <4>1, <4>2
    <3> QED BY <3>1, <3>2
  <2>5. one \o t = e
      BY <1>5, <2>2, <2>3, <2>4, SeqEqual
  <2> QED BY <2>5 DEF one, t
<1> HIDE DEF j
<1>10. Elements(Append(j, Separator)) = Elements(j) /\ Append(j, Separator) # <<>>
    BY <1>3, <1>8, SeparatorEnds, AppendProperties
<1> QED BY <1>4, <1>8, <1>9, <1>10 DEF e

-----------------------------------------------------------------------------
(***************************************************************************)
(* Where the headers of an archive are.                                    *)
(***************************************************************************)

\* The blocks of the files of F, and the block of the n-th header.
Total(F) == FoldLeft(LAMBDA b, f : b + 1 + Blocks(f), 0, F)
Pos(F, n) == 1 + Total(SubSeq(F, 1, n - 1))
TotalStep == [x \in Nat \X File |-> x[1] + 1 + Blocks(x[2])]

LEMMA TotalFold ==
    ASSUME NEW F \in Seq(File)
    PROVE  /\ Foldable(Nat, File, 0, TotalStep, F)
           /\ Folded(Total(F), Nat, 0, TotalStep, F) /\ Total(F) \in Nat
<1> DEFINE N == Len(F)
           D == SUBSET (1 .. N)
           Eq(it) == it = [d \in D |-> IF d = {} THEN 0
                                       ELSE it[d \ {Max(d)}] + 1 + Blocks(F[Max(d)])]
           it0 == CHOOSE it : Eq(it)
<1>1. N \in Nat /\ DOMAIN F = 1 .. N
    OBVIOUS
<1>2. Total(F) = it0[1 .. N]
    BY <1>1, Zenon DEF Total, FoldLeft, MapThenFoldSet
<1>3. Foldable(Nat, File, 0, TotalStep, F)
  <2>1. \A b \in Nat, f \in File : b + 1 + Blocks(f) \in Nat
    <3> SUFFICES ASSUME NEW b \in Nat, NEW f \in File PROVE b + 1 + Blocks(f) \in Nat
        OBVIOUS
    <3> DEFINE n == Blocks(f)
    <3>1. n \in Nat
        BY FileBlocksIn
    <3> HIDE DEF n
    <3>2. b + 1 + n \in Nat
        BY <3>1
    <3> QED BY <3>2 DEF n
  <2> QED BY <2>1 DEF Foldable, TotalStep
<1>4. PICK it \in [D -> Nat] :
          /\ FoldsOver(it, 0, TotalStep, F)
          /\ \A d \in D : d # {} => it[d \ {Max(d)}] \in Nat /\ F[Max(d)] \in File
  <2>1. HasFold(Nat, File, 0, TotalStep, F)
      BY <1>3, FoldExists
  <2> QED BY <2>1 DEF HasFold
<1>5. Eq(it)
  <2> DEFINE R(d) == IF d = {} THEN 0 ELSE it[d \ {Max(d)}] + 1 + Blocks(F[Max(d)])
  <2>1. \A d \in D : it[d] = R(d)
      BY <1>4 DEF FoldsOver, TotalStep
  <2> HIDE DEF R, D
  <2>2. it = [d \in D |-> R(d)]
      BY <2>1
  <2> QED BY <2>2 DEF R
<1>6. Eq(it0)
  <2> HIDE DEF Eq
  <2> QED BY <1>5
<1> HIDE DEF it0
<1>7. it0[{}] = 0
    BY <1>6
<1>8. ASSUME NEW d \in D, d # {}, it0[d \ {Max(d)}] \in Nat
      PROVE  it0[d] = TotalStep[<<it0[d \ {Max(d)}], F[Max(d)]>>]
  <2>1. it0[d] = it0[d \ {Max(d)}] + 1 + Blocks(F[Max(d)])
      BY <1>6, <1>8
  <2>2. F[Max(d)] \in File
      BY <1>4, <1>8
  <2> QED BY <1>8, <2>1, <2>2 DEF TotalStep
<1>9. Unrolls(it0, Nat, 0, TotalStep, F)
    BY <1>7, <1>8 DEF Unrolls
<1>10. Folded(Total(F), Nat, 0, TotalStep, F)
    BY <1>2, <1>3, <1>9, FoldUnroll
<1> QED BY <1>3, <1>10, FoldedIn

LEMMA BodyNext ==
    ASSUME NEW F \in Seq(File), NEW f \in File
    PROVE  /\ Append(F, f) \in Seq(File)
           /\ Total(Append(F, f)) = Total(F) + 1 + Blocks(f)
           /\ Body(Append(F, f)) = Body(F) \o FileBlocks(f)
<1>1. Append(F, f) \in Seq(File)
    BY AppendProperties
<1>2. Total(Append(F, f)) = Total(F) + 1 + Blocks(f)
  <2> DEFINE v == Total(F)
             w == Total(Append(F, f))
  <2>1. /\ Foldable(Nat, File, 0, TotalStep, F) /\ Folded(v, Nat, 0, TotalStep, F)
        /\ Folded(w, Nat, 0, TotalStep, Append(F, f))
      BY <1>1, TotalFold
  <2> HIDE DEF v, w
  <2>2. w = TotalStep[<<v, f>>] /\ v \in Nat
      BY <2>1, FoldedAppend
  <2>3. w = v + 1 + Blocks(f)
      BY <2>2 DEF TotalStep
  <2> QED BY <2>3 DEF v, w
<1>3. Body(Append(F, f)) = Body(F) \o FileBlocks(f)
  <2> DEFINE v == Body(F)
             w == Body(Append(F, f))
  <2>1. /\ Foldable(Memory, File, <<>>, TarStep, F) /\ Folded(v, Memory, <<>>, TarStep, F)
        /\ Folded(w, Memory, <<>>, TarStep, Append(F, f))
      BY <1>1, TarFold
  <2> HIDE DEF v, w
  <2>2. w = TarStep[<<v, f>>] /\ v \in Memory
      BY <2>1, FoldedAppend
  <2>3. w = v \o FileBlocks(f)
      BY <2>2 DEF TarStep
  <2> QED BY <2>3 DEF v, w
<1> QED BY <1>1, <1>2, <1>3

LEMMA BodyEmpty == Total(<<>>) = 0 /\ Body(<<>>) = <<>>
<1> DEFINE F == <<>>
<1>1. F \in Seq(File) /\ F = <<>>
    OBVIOUS
<1> HIDE DEF F
<1>2. Total(F) = 0
    BY <1>1, TotalFold, FoldedEmpty
<1>3. Body(F) = <<>>
    BY <1>1, TarFold, FoldedEmpty
<1> QED BY <1>1, <1>2, <1>3

\* The n-th header is where the walk over the sizes expects it.
HeaderOf(f) == Header(Join(f), f.size, f.flag)
Laid(F) ==
    /\ Len(Body(F)) = Total(F)
    /\ \A n \in 1 .. Len(F) : /\ Pos(F, n) \in 1 .. Total(F)
                              /\ Body(F)[Pos(F, n)] = HeaderOf(F[n])

LEMMA LaidNext ==
    ASSUME NEW F \in Seq(File), Laid(F), NEW f \in File
    PROVE  Laid(Append(F, f))
<1> DEFINE G == Append(F, f)
           m == Body(F)
           x == FileBlocks(f)
           N == Len(F)
<1>1. /\ G \in Seq(File) /\ Total(G) = Total(F) + 1 + Blocks(f) /\ Body(G) = m \o x
      /\ Total(F) \in Nat /\ Blocks(f) \in Nat
    BY BodyNext, TotalFold, FileBlocksIn
<1>2. /\ m \in Seq(HeaderType) /\ x \in Seq(HeaderType) /\ Len(m) = Total(F)
      /\ Len(x) = 1 + Blocks(f) /\ x[1] = HeaderOf(f)
    BY TarIn, FileBlocksIn DEF Memory, Laid, HeaderOf
<1>3. N \in Nat /\ Len(G) = N + 1 /\ G[N + 1] = f /\ \A n \in 1 .. N : G[n] = F[n]
    BY AppendProperties
<1> HIDE DEF m, x
<1>4. /\ Len(m \o x) = Len(m) + Len(x)
      /\ \A i \in 1 .. Len(m) + Len(x) : (m \o x)[i] = IF i <= Len(m) THEN m[i] ELSE x[i - Len(m)]
    BY <1>2, ConcatProperties
<1> HIDE DEF G
<1>5. Len(Body(G)) = Total(G)
    BY <1>1, <1>2, <1>4
<1>6. ASSUME NEW n \in 1 .. N + 1
      PROVE  SubSeq(G, 1, n - 1) = SubSeq(F, 1, n - 1)
  <2>1. n - 1 \in 0 .. N /\ n - 1 \in 0 .. Len(G)
      BY <1>3
  <2> DEFINE a == SubSeq(G, 1, n - 1)
             b == SubSeq(F, 1, n - 1)
  <2>2. a \in Seq(File) /\ Len(a) = n - 1 /\ \A k \in 1 .. n - 1 : a[k] = G[k]
      BY <1>1, <2>1, FirstPart
  <2>3. b \in Seq(File) /\ Len(b) = n - 1 /\ \A k \in 1 .. n - 1 : b[k] = F[k]
      BY <2>1, FirstPart
  <2> HIDE DEF a, b
  <2>4. \A k \in 1 .. n - 1 : k \in 1 .. N
      BY <1>3, <2>1
  <2>5. a = b
      BY <1>3, <2>2, <2>3, <2>4, SeqEqual
  <2> QED BY <2>5 DEF a, b
<1>7. ASSUME NEW n \in 1 .. N
      PROVE  Pos(G, n) \in 1 .. Total(G) /\ Body(G)[Pos(G, n)] = HeaderOf(G[n])
  <2>1. n \in 1 .. N + 1
      BY <1>3
  <2>2. Pos(G, n) = Pos(F, n)
      BY <1>6, <2>1 DEF Pos
  <2>3. Pos(F, n) \in 1 .. Total(F) /\ m[Pos(F, n)] = HeaderOf(F[n])
      BY DEF Laid, m
  <2>4. Pos(F, n) \in 1 .. Total(G) /\ Pos(F, n) <= Len(m) /\ Pos(F, n) \in 1 .. Len(m) + Len(x)
      BY <1>1, <1>2, <2>3
  <2> QED BY <1>1, <1>3, <1>4, <2>2, <2>3, <2>4
<1>8. Pos(G, N + 1) \in 1 .. Total(G) /\ Body(G)[Pos(G, N + 1)] = HeaderOf(G[N + 1])
  <2>1. SubSeq(G, 1, N) = F
    <3>1. N + 1 \in 1 .. N + 1 /\ (N + 1) - 1 = N
        BY <1>3
    <3>2. SubSeq(G, 1, N) = SubSeq(F, 1, N)
        BY <1>6, <3>1
    <3> QED BY <3>2, FirstPartEnds
  <2>2. (N + 1) - 1 = N
      BY <1>3
  <2>3. Pos(G, N + 1) = 1 + Total(F)
      BY <2>1, <2>2 DEF Pos
  <2>4. /\ 1 + Total(F) \in 1 .. Total(G) /\ 1 + Total(F) \in 1 .. Len(m) + Len(x)
        /\ ~(1 + Total(F) <= Len(m)) /\ (1 + Total(F)) - Len(m) = 1
      BY <1>1, <1>2
  <2> QED BY <1>1, <1>2, <1>3, <1>4, <2>3, <2>4
<1>9. \A n \in 1 .. Len(G) : n \in 1 .. N \/ n = N + 1
    BY <1>3
<1> QED BY <1>5, <1>7, <1>8, <1>9 DEF Laid, G

LEMMA AllLaid ==
    ASSUME NEW F \in Seq(File)
    PROVE  Laid(F)
<1> DEFINE T == {d \in Seq(File) : Laid(d)}
<1>1. <<>> \in T
  <2> DEFINE z == <<>>
  <2>1. z \in Seq(File) /\ Len(z) = 0 /\ Total(z) = 0 /\ Body(z) = z /\ \A n \in 1 .. Len(z) : FALSE
      BY BodyEmpty
  <2> HIDE DEF z
  <2>2. Laid(z)
      BY <2>1 DEF Laid
  <2> QED BY <2>1, <2>2 DEF z
<1>2. \A d \in Seq(File) : d \in T => \A f \in File : Append(d, f) \in T
    BY LaidNext, BodyNext
<1>3. Seq(File) \subseteq T
  <2> HIDE DEF T
  <2> QED BY <1>1, <1>2, SeqInduction
<1> QED BY <1>3

LEMMA PosIs ==
    ASSUME NEW F \in Seq(File)
    PROVE  /\ Pos(F, 1) = 1
           /\ \A n \in 1 .. Len(F) : /\ Pos(F, n) \in Nat
                                     /\ Pos(F, n + 1) = Pos(F, n) + 1 + Blocks(F[n])
           /\ Pos(F, Len(F) + 1) = Total(F) + 1
<1>1. Pos(F, 1) = 1
  <2> DEFINE n == 1
             z == <<>>
  <2>1. n - 1 = 0 /\ SubSeq(F, 1, 0) = z /\ Total(z) = 0
      BY FirstPartEnds, BodyEmpty
  <2> HIDE DEF n, z
  <2>2. Pos(F, n) = 1 + 0
      BY <2>1 DEF Pos
  <2> QED BY <2>2 DEF n
<1>2. ASSUME NEW n \in 1 .. Len(F)
      PROVE  Pos(F, n) \in Nat /\ Pos(F, n + 1) = Pos(F, n) + 1 + Blocks(F[n])
  <2> DEFINE d == SubSeq(F, 1, n - 1)
             c == SubSeq(F, 1, n)
  <2>1. n - 1 \in 0 .. Len(F) - 1 /\ n - 1 \in 0 .. Len(F) /\ (n - 1) + 1 = n /\ (n + 1) - 1 = n
      OBVIOUS
  <2>2. d \in Seq(File) /\ F[n] \in File /\ c = Append(d, F[n])
      BY <2>1, FirstPart, FirstPartNext
  <2> HIDE DEF c, d
  <2>3. Total(d) \in Nat /\ Total(c) = Total(d) + 1 + Blocks(F[n]) /\ Blocks(F[n]) \in Nat
      BY <2>2, BodyNext, TotalFold, FileBlocksIn
  <2>4. Pos(F, n) = 1 + Total(d) /\ Pos(F, n + 1) = 1 + Total(c)
      BY <2>1 DEF Pos, c, d
  <2> DEFINE a == Total(d)
             b == Blocks(F[n])
  <2>5. a \in Nat /\ b \in Nat /\ Pos(F, n) = 1 + a /\ Pos(F, n + 1) = 1 + (a + 1 + b)
      BY <2>3, <2>4
  <2> HIDE DEF a, b
  <2>6. Pos(F, n) \in Nat /\ Pos(F, n + 1) = Pos(F, n) + 1 + b
      BY <2>5
  <2> QED BY <2>6 DEF b
<1>3. Pos(F, Len(F) + 1) = Total(F) + 1
  <2> DEFINE n == Len(F)
  <2>1. n \in Nat /\ SubSeq(F, 1, n) = F /\ Total(F) \in Nat
      BY FirstPartEnds, TotalFold
  <2> HIDE DEF n
  <2>2. (n + 1) - 1 = n
      BY <2>1
  <2>3. Pos(F, n + 1) = 1 + Total(F)
      BY <2>1, <2>2 DEF Pos
  <2> QED BY <2>1, <2>3 DEF n
<1> QED BY <1>1, <1>2, <1>3

\* What is read of an archive in memory.
LEMMA TarAt ==
    ASSUME NEW F \in Seq(File)
    PROVE  /\ \A n \in 1 .. Len(F) : MemAt(Tar(F), Pos(F, n)) = HeaderOf(F[n])
           /\ MemAt(Tar(F), Pos(F, Len(F) + 1)) = ZeroBlock
           /\ F = <<>> => \A b : MemAt(Tar(F), b) = ZeroBlock
<1> DEFINE m == Body(F)
           z == ZeroBlock
           t == m \o <<z>>
<1>1. /\ m \in Seq(HeaderType) /\ z \in HeaderType /\ Tar(F) = t
      /\ Len(m) = Total(F) /\ Total(F) \in Nat
      /\ \A n \in 1 .. Len(F) : Pos(F, n) \in 1 .. Total(F) /\ m[Pos(F, n)] = HeaderOf(F[n])
    BY TarIn, TarFold, TotalFold, ZeroIn, AllLaid DEF Memory, Laid
<1>2. Pos(F, Len(F) + 1) = Total(F) + 1 /\ (F = <<>> => Total(F) = 0)
    BY PosIs, BodyEmpty
<1>3. /\ t = Append(m, z) /\ t \in Seq(HeaderType) /\ Len(t) = Total(F) + 1 /\ t[Total(F) + 1] = z
      /\ \A i \in 1 .. Total(F) : t[i] = m[i]
  <2> HIDE DEF m, z
  <2>1. t = Append(m, z)
      BY <1>1, AppendIsConcat
  <2> HIDE DEF t
  <2> QED BY <1>1, <2>1, AppendProperties
<1> HIDE DEF m, t
<1>4. DOMAIN t = 1 .. Total(F) + 1
    BY <1>3
<1>5. ASSUME NEW n \in 1 .. Len(F) PROVE MemAt(t, Pos(F, n)) = HeaderOf(F[n])
  <2>1. Pos(F, n) \in 1 .. Total(F) /\ Pos(F, n) \in DOMAIN t
      BY <1>1, <1>4
  <2> QED BY <1>1, <1>3, <2>1 DEF MemAt
<1>6. MemAt(t, Total(F) + 1) = z
    BY <1>1, <1>3, <1>4 DEF MemAt
<1>7. ASSUME F = <<>>, NEW b PROVE MemAt(t, b) = z
  <2>1. b \in DOMAIN t => b = Total(F) + 1
      BY <1>2, <1>4, <1>7
  <2> QED BY <1>3, <2>1 DEF MemAt
<1> QED BY <1>1, <1>2, <1>5, <1>6, <1>7

\* tar_next goes from header to header.
LEMMA NextHeaderIs ==
    ASSUME NEW k, NEW b \in Nat, NEW f \in File, Block(k, b) = HeaderOf(f)
    PROVE  NextHeader(k, b) = b + 1 + Blocks(f)
<1> DEFINE n == Octal(f.size)
           q == (BLOCK + n - 1) \div BLOCK
<1>1. tar_size(Block(k, b)) = n
    BY DEF tar_size, HeaderOf, Header
<1>2. n \in Nat /\ BLOCK \in Nat \ {0}
    BY JoinIn, OctalFold, VfsAssumption
<1>3. NextHeader(k, b) = b + align_ceiling(BLOCK + n, BLOCK) \div BLOCK
    BY <1>1 DEF NextHeader
<1>4. n + BLOCK - 1 = BLOCK + n - 1
    BY <1>2
<1>5. Blocks(f) = q
    BY <1>4 DEF Blocks
<1> HIDE DEF n
<1>6. BLOCK + n # 0 /\ q \in Nat
    BY <1>2
<1>7. align_ceiling(BLOCK + n, BLOCK) = BLOCK + BLOCK * q
    BY <1>2, <1>6 DEF align_ceiling
<1> HIDE DEF q
<1>8. (BLOCK + BLOCK * q) \div BLOCK = q + 1
    BY <1>2, <1>6, WholeBlocks
<1>9. NextHeader(k, b) = b + (q + 1)
    BY <1>3, <1>7, <1>8
<1>10. NextHeader(k, b) = b + 1 + q
    BY <1>6, <1>9
<1> QED BY <1>5, <1>10

\* A header has the elements and the flag of its file; a name that is empty
\* ends an archive.
LEMMA HeaderNames ==
    /\ \A f \in File : /\ Elements(HeaderOf(f).filename) = f.elements
                       /\ HeaderOf(f).filename # <<>> /\ HeaderOf(f).typeflag = f.flag
    /\ ZeroBlock.filename = <<>> /\ Elements(ZeroBlock.filename) = <<>>
<1>1. ASSUME NEW f \in File
      PROVE  /\ Elements(HeaderOf(f).filename) = f.elements
             /\ HeaderOf(f).filename # <<>> /\ HeaderOf(f).typeflag = f.flag
  <2>1. HeaderOf(f).filename = Join(f) /\ HeaderOf(f).typeflag = f.flag
      BY DEF HeaderOf, Header
  <2> QED BY <2>1, JoinSplits
<1>2. ZeroBlock.filename = <<>>
    BY DEF ZeroBlock, Header
<1>3. Elements(<<>>) = <<>>
  <2> DEFINE p == <<>>
             S == STRING
  <2>1. p \in Seq(S) /\ Starts(p) = {}
      BY DEF Starts
  <2> HIDE DEF p, S
  <2>2. path_element_count(p) = 0
      BY <2>1, CountStarts, FS_EmptySet
  <2>3. Elements(p) \in Seq(Seq(S)) /\ Len(Elements(p)) = 0
      BY <2>1, <2>2, ElementsAre
  <2>4. Elements(p) = <<>>
      BY <2>3, EmptySeq
  <2> QED BY <2>4 DEF p
<1> QED BY <1>1, <1>2, <1>3

-----------------------------------------------------------------------------
(***************************************************************************)
(* Where the paths of a tree lead when the tree changes.                   *)
(***************************************************************************)

\* A walk that arrives came by a child of the name.
LEMMA WalkChild ==
    ASSUME NEW K \in Trees, NEW id \in AnyId, NEW name, ChildIn(K, id, name) # ID_INVALID
    PROVE  \E n \in 1 .. Len(K[id]) : K[id][n].name = name /\ K[id][n].inode = ChildIn(K, id, name)
<1>1. Named(K, id, name) # {}
    BY ChildType
<1> QED BY <1>1, FirstNamed

\* Two paths do not lead to the same inode.
LEMMA WalkInjective ==
    ASSUME NEW K \in Trees, NEW root \in AnyId, NEW bound, Linked(K, root, bound)
    PROVE  \A d, e \in Names : WalkIn(K, root, d) = WalkIn(K, root, e)
                               /\ WalkIn(K, root, e) # ID_INVALID => d = e
<1> DEFINE W(e) == WalkIn(K, root, e)
           One(d) == \A e \in Names : W(d) = W(e) /\ W(e) # ID_INVALID => d = e
           T == {d \in Seq(Text) : One(d)}
<1>1. W(<<>>) = root /\ \A e \in Names : W(e) \in AnyId
    BY WalkEmpty, WalkFolded
<1>2. ASSUME NEW e \in Names, NEW x \in Text
      PROVE  Append(e, x) \in Names /\ W(Append(e, x)) = ChildIn(K, W(e), x)
    BY WalkNext
<1>3. \A e \in Names : e = <<>> \/ \E d \in Names, x \in Text : e = Append(d, x)
    BY SequenceEmptyOrAppend DEF Names
<1> HIDE DEF W
<1>4. ASSUME NEW d \in Names, NEW x \in Text, W(Append(d, x)) # ID_INVALID
      PROVE  /\ W(Append(d, x)) # root
             /\ \E n \in 1 .. Len(K[W(d)]) : /\ K[W(d)][n].name = x
                                            /\ K[W(d)][n].inode = W(Append(d, x))
  <2>1. PICK n \in 1 .. Len(K[W(d)]) : K[W(d)][n].name = x /\ K[W(d)][n].inode = W(Append(d, x))
      BY <1>1, <1>2, <1>4, WalkChild
  <2>2. K[W(d)][n].inode # root
      BY <1>1 DEF Linked
  <2> QED BY <2>1, <2>2
<1>5. <<>> \in T
  <2> DEFINE z == <<>>
  <2>1. W(z) = root /\ z \in Seq(Text) /\ z \in Names
      BY <1>1 DEF Names
  <2>2. \A e \in Names : e = z \/ \E d \in Names, x \in Text : e = Append(d, x)
      BY <1>3
  <2> HIDE DEF z
  <2>3. ASSUME NEW e \in Names, W(z) = W(e), W(e) # ID_INVALID PROVE z = e
    <3>1. CASE e # z
      <4>1. PICK d \in Names, x \in Text : e = Append(d, x)
          BY <2>2, <3>1
      <4>2. W(Append(d, x)) # root
          BY <1>4, <2>3, <4>1
      <4> QED BY <2>1, <2>3, <4>1, <4>2
    <3> QED BY <3>1
  <2>4. One(z)
      BY <2>3
  <2>5. z \in T
      BY <2>1, <2>4
  <2> QED BY <2>5 DEF z
<1>6. ASSUME NEW d \in Seq(Text), d \in T, NEW x \in Text PROVE Append(d, x) \in T
  <2>1. d \in Names /\ One(d) /\ Append(d, x) \in Names
      BY <1>2, <1>6 DEF Names
  <2>2. ASSUME NEW e \in Names, W(Append(d, x)) = W(e), W(e) # ID_INVALID
        PROVE  Append(d, x) = e
    <3>1. e # <<>>
        BY <1>1, <1>4, <2>1, <2>2
    <3>2. PICK c \in Names, y \in Text : e = Append(c, y)
        BY <1>3, <3>1
    <3>3. PICK n \in 1 .. Len(K[W(d)]) : K[W(d)][n].name = x /\ K[W(d)][n].inode = W(Append(d, x))
        BY <1>4, <2>1, <2>2
    <3>4. PICK m \in 1 .. Len(K[W(c)]) : K[W(c)][m].name = y /\ K[W(c)][m].inode = W(Append(c, y))
        BY <1>4, <2>2, <3>2
    <3>5. W(d) = W(c) /\ n = m
        BY <1>1, <2>1, <2>2, <3>2, <3>3, <3>4, LinkUnique
    <3>6. W(c) # ID_INVALID
      <4>1. K[ID_INVALID] = <<>>
          BY DEF Trees
      <4>2. W(c) = ID_INVALID => m \in 1 .. 0
          BY <3>4, <4>1
      <4> QED BY <4>2
    <3> QED BY <2>1, <3>2, <3>3, <3>4, <3>5, <3>6
  <2> QED BY <2>1, <2>2 DEF Names
<1>7. Seq(Text) \subseteq T
  <2> HIDE DEF T
  <2> QED BY <1>5, <1>6, SeqInduction
<1> QED BY <1>7 DEF Names, W

\* The children after a mount.
LEMMA MountChild ==
    ASSUME NEW K \in Trees, NEW d \in Ids, NEW c \in Ids, NEW name \in Text,
           NEW id \in AnyId, NEW x \in Text
    PROVE  ChildIn(Mount(K, d, c, name), id, x) =
               IF id = d /\ x = name /\ Named(K, d, x) = {} THEN c ELSE ChildIn(K, id, x)
<1> DEFINE N == Mount(K, d, c, name)
           L == Len(K[d])
<1>1. /\ Len(N[d]) = L + 1 /\ L \in Nat
      /\ \A i \in AnyId : i # d => N[i] = K[i]
      /\ \A n \in 1 .. L : N[d][n] = K[d][n]
      /\ N[d][L + 1].inode = c /\ N[d][L + 1].name = name
  <2>1. d \in AnyId
      BY DEF AnyId
  <2>2. L \in Nat
      BY <2>1, KidIn
  <2> QED BY <2>2, MountIs
<1> HIDE DEF N, L
<1>2. CASE id # d
  <2>1. N[id] = K[id]
      BY <1>1, <1>2
  <2>2. Named(N, id, x) = Named(K, id, x)
      BY <2>1 DEF Named
  <2>3. ChildIn(N, id, x) = ChildIn(K, id, x)
      BY <2>1, <2>2, Zenon DEF ChildIn
  <2> QED BY <1>2, <2>3 DEF N
<1>3. CASE id = d /\ Named(K, d, x) # {}
  <2> DEFINE k == Min(Named(K, d, x))
  <2>1. /\ k \in 1 .. L /\ K[d][k].name = x /\ ChildIn(K, d, x) = K[d][k].inode
        /\ \A m \in 1 .. L : K[d][m].name = x => k <= m
      BY <1>3, FirstNamed DEF L
  <2> HIDE DEF k
  <2>2. Named(N, d, x) \subseteq Int /\ k \in Named(N, d, x)
      BY <1>1, <2>1 DEF Named
  <2>3. \A m \in Named(N, d, x) : k <= m
    <3> SUFFICES ASSUME NEW m \in Named(N, d, x) PROVE k <= m
        OBVIOUS
    <3>1. m \in 1 .. L + 1 /\ N[d][m].name = x
        BY <1>1 DEF Named
    <3>2. CASE m \in 1 .. L
        BY <1>1, <2>1, <3>1, <3>2
    <3>3. CASE m = L + 1
        BY <1>1, <2>1, <3>3
    <3> QED BY <1>1, <3>1, <3>2, <3>3
  <2>4. Min(Named(N, d, x)) = k
      BY <2>2, <2>3, MinIs
  <2>5. ChildIn(N, d, x) = K[d][k].inode
      BY <1>1, <2>1, <2>2, <2>4 DEF ChildIn
  <2> QED BY <1>3, <2>1, <2>5 DEF N
<1>4. CASE id = d /\ Named(K, d, x) = {}
  <2>1. \A m \in 1 .. L : K[d][m].name # x
      BY <1>4 DEF Named, L
  <2>2. \A m \in 1 .. L + 1 : m \in 1 .. L \/ m = L + 1
      BY <1>1
  <2>3. CASE x = name
    <3> DEFINE l == L + 1
               S == Named(N, d, x)
    <3>1. S = {l}
      <4>1. \A n \in 1 .. l : n \in 1 .. L \/ n = l
          BY <2>2
      <4>2. l \in 1 .. l /\ N[d][l].name = x /\ \A n \in 1 .. L : N[d][n].name # x
          BY <1>1, <2>1, <2>3
      <4>3. S = {n \in 1 .. l : N[d][n].name = x}
          BY <1>1 DEF Named
      <4> HIDE DEF l, S
      <4> QED BY <4>1, <4>2, <4>3
    <3>2. l \in Int /\ N[d][l].inode = c
        BY <1>1
    <3> HIDE DEF l, S
    <3>3. Min(S) = l /\ S # {}
        BY <3>1, <3>2, MinIs
    <3>4. ChildIn(N, d, x) = IF S = {} THEN ID_INVALID ELSE N[d][Min(S)].inode
        BY DEF ChildIn, S
    <3> QED BY <1>4, <2>3, <3>2, <3>3, <3>4 DEF N
  <2>4. CASE x # name
    <3>1. Named(N, d, x) = {}
        BY <1>1, <2>1, <2>2, <2>4 DEF Named
    <3> QED BY <1>4, <2>4, <3>1 DEF ChildIn, N
  <2> QED BY <2>3, <2>4
<1> QED BY <1>2, <1>3, <1>4

\* A mount behind an inode of the same name changes no walk.
LEMMA WalkHidden ==
    ASSUME NEW K \in Trees, NEW root \in AnyId, NEW d \in Ids, NEW c \in Ids, NEW name \in Text,
           Named(K, d, name) # {}, NEW e \in Names
    PROVE  WalkIn(Mount(K, d, c, name), root, e) = WalkIn(K, root, e)
<1> DEFINE N == Mount(K, d, c, name)
           T == {r \in Seq(Text) : WalkIn(N, root, r) = WalkIn(K, root, r)}
<1>1. N \in Trees
    BY MountIs
<1>2. \A id \in AnyId, x \in Text : ChildIn(N, id, x) = ChildIn(K, id, x)
    BY MountChild
<1> HIDE DEF N
<1>3. <<>> \in T
    BY <1>1, WalkEmpty
<1>4. ASSUME NEW r \in Seq(Text), r \in T, NEW x \in Text PROVE Append(r, x) \in T
  <2>1. r \in Names /\ WalkIn(N, root, r) = WalkIn(K, root, r)
      BY <1>4 DEF Names
  <2>2. /\ Append(r, x) \in Names /\ WalkIn(K, root, r) \in AnyId
        /\ WalkIn(N, root, Append(r, x)) = ChildIn(N, WalkIn(N, root, r), x)
        /\ WalkIn(K, root, Append(r, x)) = ChildIn(K, WalkIn(K, root, r), x)
      BY <1>1, <2>1, WalkNext, WalkFolded
  <2>3. WalkIn(N, root, Append(r, x)) = WalkIn(K, root, Append(r, x))
      BY <1>2, <2>1, <2>2
  <2> QED BY <2>2, <2>3 DEF Names
<1>5. Seq(Text) \subseteq T
  <2> HIDE DEF T
  <2> QED BY <1>3, <1>4, SeqInduction
<1> QED BY <1>5 DEF Names, N

\* A mount under a new name adds one path.
LEMMA WalkMount ==
    ASSUME NEW K \in Trees, NEW root \in AnyId, NEW d \in Ids, NEW c \in Ids, NEW name \in Text,
           Linked(K, root, c), d < c, K[c] = <<>>, Named(K, d, name) = {},
           NEW f \in Names, WalkIn(K, root, f) = d, NEW e \in Names
    PROVE  WalkIn(Mount(K, d, c, name), root, e) =
               IF e = Append(f, name) THEN c ELSE WalkIn(K, root, e)
<1> DEFINE N == Mount(K, d, c, name)
           V(r) == WalkIn(N, root, r)
           W(r) == WalkIn(K, root, r)
           T == {r \in Seq(Text) : V(r) = IF r = Append(f, name) THEN c ELSE W(r)}
<1>1. N \in Trees /\ c \in AnyId /\ c # ID_INVALID /\ d # ID_INVALID /\ c # d
    BY MountIs, Invalid DEF AnyId
<1>2. ASSUME NEW id \in AnyId, NEW x \in Text
      PROVE  /\ ChildIn(N, id, x) =
                    IF id = d /\ x = name /\ Named(K, d, x) = {} THEN c ELSE ChildIn(K, id, x)
             /\ ChildIn(K, d, name) = ID_INVALID /\ ChildIn(K, c, x) = ID_INVALID
    BY <1>1, MountChild, ChildType DEF AnyId
<1> HIDE DEF N
<1>3. /\ V(<<>>) = root /\ W(<<>>) = root
      /\ \A r \in Names : W(r) \in AnyId
      /\ \A r \in Names, x \in Text : /\ Append(r, x) \in Names
                                      /\ V(Append(r, x)) = ChildIn(N, V(r), x)
                                      /\ W(Append(r, x)) = ChildIn(K, W(r), x)
  <2>1. V(<<>>) = root /\ W(<<>>) = root
      BY <1>1, WalkEmpty
  <2>2. ASSUME NEW r \in Names, NEW x \in Text
        PROVE  /\ W(r) \in AnyId
               /\ Append(r, x) \in Names
               /\ V(Append(r, x)) = ChildIn(N, V(r), x) /\ W(Append(r, x)) = ChildIn(K, W(r), x)
      BY <1>1, WalkNext, WalkFolded
  <2>3. \A r \in Names : W(r) \in AnyId
      BY <1>1, WalkFolded
  <2> HIDE DEF V, W
  <2> QED BY <2>1, <2>2, <2>3
<1>4. \A r \in Names : W(r) = d => r = f
    BY <1>1, WalkInjective
<1>5. f \in Seq(Text) /\ Names = Seq(Text) /\ <<>> \in Seq(Text)
    BY DEF Names
<1> HIDE DEF V, W
<1>6. <<>> \in T
  <2>1. Append(f, name) # <<>>
      BY <1>5, AppendIs
  <2> QED BY <1>3, <1>5, <2>1
<1>7. ASSUME NEW r \in Seq(Text), r \in T, NEW x \in Text PROVE Append(r, x) \in T
  <2>1. r \in Names /\ V(r) = IF r = Append(f, name) THEN c ELSE W(r)
      BY <1>5, <1>7
  <2>2. /\ Append(r, x) \in Seq(Text)
        /\ V(Append(r, x)) = ChildIn(N, V(r), x) /\ W(Append(r, x)) = ChildIn(K, W(r), x)
      BY <1>3, <1>5, <2>1
  <2>3. Append(r, x) = Append(f, name) <=> r = f /\ x = name
      BY <1>5, AppendIs
  <2>4. f # Append(f, name)
      BY <1>5, AppendIs
  <2>5. V(Append(r, x)) = IF r = f /\ x = name THEN c ELSE W(Append(r, x))
    <3>1. CASE r = Append(f, name)
      <4>1. V(r) = c /\ r # f
          BY <2>1, <2>4, <3>1
      <4>2. ChildIn(N, c, x) = ID_INVALID
          BY <1>1, <1>2
      <4>3. W(r) = ID_INVALID
        <5>1. W(r) = ChildIn(K, d, name)
            BY <1>3, <3>1 DEF W
        <5> QED BY <1>2, <5>1 DEF AnyId
      <4>4. ChildIn(K, ID_INVALID, x) = ID_INVALID
          BY Invalid, ChildType
      <4> QED BY <2>2, <4>1, <4>2, <4>3, <4>4
    <3>2. CASE r # Append(f, name) /\ W(r) = d
      <4>1. r = f /\ V(r) = d
          BY <1>4, <2>1, <3>2
      <4>2. d \in AnyId
          BY DEF AnyId
      <4> QED BY <1>2, <2>2, <3>2, <4>1, <4>2
    <3>3. CASE r # Append(f, name) /\ W(r) # d
      <4>1. r # f /\ V(r) = W(r) /\ W(r) \in AnyId
          BY <1>3, <2>1, <3>3 DEF W
      <4> QED BY <1>2, <2>2, <3>3, <4>1
    <3> QED BY <3>1, <3>2, <3>3
  <2> QED BY <2>2, <2>3, <2>5
<1>8. Seq(Text) \subseteq T
  <2> HIDE DEF T
  <2> QED BY <1>6, <1>7, SeqInduction
<1> QED BY <1>5, <1>8 DEF N, V, W

\* A deletion ends walks and changes none.
LEMMA WalkPruned ==
    ASSUME NEW K \in Trees, NEW root \in AnyId, NEW id \in Ids, Prune(K, id) \in Trees, NEW e \in Names
    PROVE  WalkIn(Prune(K, id), root, e) \in {WalkIn(K, root, e), ID_INVALID}
<1> DEFINE N == Prune(K, id)
           V(r) == WalkIn(N, root, r)
           W(r) == WalkIn(K, root, r)
           T == {r \in Seq(Text) : V(r) \in {W(r), ID_INVALID}}
<1>1. N[id] = <<>> /\ id \in AnyId /\ \A i \in AnyId : i # id => N[i] = K[i]
    BY DEF Prune, Trees, AnyId
<1> HIDE DEF N
<1>2. N \in Trees
    BY DEF N
<1>3. ASSUME NEW i \in AnyId, NEW x \in Text
      PROVE  /\ ChildIn(N, i, x) \in {ChildIn(K, i, x), ID_INVALID}
             /\ ChildIn(N, ID_INVALID, x) = ID_INVALID
  <2>1. ChildIn(N, ID_INVALID, x) = ID_INVALID /\ (i = id => ChildIn(N, i, x) = ID_INVALID)
      BY <1>1, <1>2, ChildType
  <2>2. i # id => ChildIn(N, i, x) = ChildIn(K, i, x)
      BY <1>1 DEF ChildIn, Named
  <2> QED BY <2>1, <2>2
<1>4. <<>> \in T
  <2>1. V(<<>>) = W(<<>>)
      BY <1>2, WalkEmpty
  <2> HIDE DEF V, W
  <2> QED BY <2>1
<1>5. ASSUME NEW r \in Seq(Text), r \in T, NEW x \in Text PROVE Append(r, x) \in T
  <2>1. r \in Names /\ V(r) \in {W(r), ID_INVALID}
      BY <1>5 DEF Names
  <2>2. /\ Append(r, x) \in Names /\ W(r) \in AnyId
        /\ V(Append(r, x)) = ChildIn(N, V(r), x) /\ W(Append(r, x)) = ChildIn(K, W(r), x)
      BY <1>2, <2>1, WalkNext, WalkFolded
  <2> HIDE DEF V, W
  <2>3. V(Append(r, x)) \in {W(Append(r, x)), ID_INVALID}
      BY <1>3, <2>1, <2>2
  <2> QED BY <2>2, <2>3 DEF Names
<1>6. Seq(Text) \subseteq T
  <2> HIDE DEF T
  <2> QED BY <1>4, <1>5, SeqInduction
<1> QED BY <1>6 DEF Names, N

\* Below a root without children there is no path.
LEMMA WalkBare ==
    ASSUME NEW K \in Trees, NEW root \in AnyId, K[root] = <<>>, NEW e \in Names, e # <<>>
    PROVE  WalkIn(K, root, e) = ID_INVALID
<1> DEFINE W(r) == WalkIn(K, root, r)
           T == {r \in Seq(Text) : r = <<>> \/ W(r) = ID_INVALID}
<1>1. <<>> \in T
    OBVIOUS
<1>2. ASSUME NEW r \in Seq(Text), r \in T, NEW x \in Text PROVE Append(r, x) \in T
  <2>1. r \in Names /\ (r = <<>> \/ W(r) = ID_INVALID)
      BY <1>2 DEF Names
  <2>2. /\ Append(r, x) \in Names /\ W(Append(r, x)) = ChildIn(K, W(r), x)
      BY <2>1, WalkNext
  <2>3. W(<<>>) = root
      BY WalkEmpty
  <2>4. ChildIn(K, root, x) = ID_INVALID /\ ChildIn(K, ID_INVALID, x) = ID_INVALID
      BY ChildType
  <2> HIDE DEF W
  <2>5. W(Append(r, x)) = ID_INVALID
      BY <2>1, <2>2, <2>3, <2>4
  <2> QED BY <2>2, <2>5 DEF Names
<1>3. Seq(Text) \subseteq T
  <2> HIDE DEF T
  <2> QED BY <1>1, <1>2, SeqInduction
<1> QED BY <1>3 DEF Names

-----------------------------------------------------------------------------
(***************************************************************************)
(* What the paths lead to.                                                 *)
(***************************************************************************)

\* The inode at the end of each path, the inodes that a table holds, their
\* types and functions, and what another table says of an inode.
DestIn(K, root) == [e \in Names |-> WalkIn(K, root, e)]
HeldIn(t) == {id \in AnyId : has(t, id)}
TypesIn(t) == [id \in AnyId |-> get(t, id).type]
VtablesIn(t) == [id \in AnyId |-> IF has(t, id) THEN get(t, id).vtable ELSE "none"]
ItemsIn(t) == [id \in AnyId |-> IF has(t, id) THEN <<get(t, id)>> ELSE <<>>]

Dest == DestIn(Tree(inode_table), vfs_root)
Held == HeldIn(inode_table)
Kind == TypesIn(inode_table)
Ops == VtablesIn(inode_table)
Source == ItemsIn(inodes)
Piped == ItemsIn(pipes)

LEMMA DestIs ==
    ASSUME TypeInv
    PROVE  /\ \A e \in Names : /\ Dest[e] = WalkIn(Tree(inode_table), vfs_root, e)
                               /\ Dest[e] = Walk(e) /\ Dest[e] \in AnyId
           /\ Held \subseteq Ids /\ ID_INVALID \notin Held
           /\ Ops[ID_INVALID] = "none"
           /\ \A id \in AnyId : Ops[id] # "none" => id \in Held
<1>1. \A e \in Names : Walk(e) = WalkIn(Tree(inode_table), vfs_root, e) /\ Walk(e) \in AnyId
    BY WalkIs
<1>2. \A e \in Names : Dest[e] = WalkIn(Tree(inode_table), vfs_root, e)
    BY DEF Dest, DestIn
<1>3. ~has(inode_table, ID_INVALID)
    BY FindNothing, Invalid DEF TypeInv, Tables
<1>4. Held \subseteq Ids /\ ID_INVALID \notin Held
    BY <1>3 DEF Held, HeldIn, AnyId
<1>5. \A id \in AnyId : Ops[id] # "none" => id \in Held
    BY DEF Ops, VtablesIn, Held, HeldIn
<1>6. Ops[ID_INVALID] = "none"
    BY <1>3, Invalid DEF Ops, VtablesIn
<1> QED BY <1>1, <1>2, <1>4, <1>5, <1>6

\* Entries that an operation does not touch.
LEMMA SameEntry ==
    ASSUME NEW t, NEW n, Table(t, n), NEW u, NEW m, Table(u, m), NEW k, Same(t, u, Nat \ {k}),
           NEW id \in AnyId, id # k
    PROVE  /\ has(u, id) <=> has(t, id)
           /\ has(t, id) => get(u, id) = get(t, id)
<1>1. CASE id = ID_INVALID
  <2>1. ~has(t, id) /\ ~has(u, id)
      BY <1>1, FindNothing, Invalid
  <2> QED BY <2>1
<1>2. CASE id \in Nat
    BY <1>2 DEF Same
<1> QED BY <1>1, <1>2, Invalid DEF AnyId

\* A step that makes an inode.
LEMMA MadeViews ==
    ASSUME TypeInv, TypeInv', NEW type, NEW vtable, MadeAs(type, vtable)
    PROVE  LET n == inode_counter IN
           /\ n \in Ids /\ n \notin Held /\ Tree(inode_table') = Tree(inode_table)
           /\ n \in Held' <=> Unused(inode_table) # {}
           /\ n \in Held' => Kind'[n] = type /\ Ops'[n] = vtable
           /\ n \notin Held' => Ops'[n] = "none"
           /\ \A id \in AnyId : id # n => /\ id \in Held' <=> id \in Held
                                          /\ id \in Held => Kind'[id] = Kind[id]
                                          /\ Ops'[id] = Ops[id]
<1> DEFINE n == inode_counter
           t == inode_table
           u == inode_table'
<1>1. PICK new \in Inode : /\ Made(t, u, n, new) /\ n \in Ids
                           /\ new.type = type /\ new.vtable = vtable
    BY DEF MadeAs
<1>2. /\ Table(t, n) /\ Table(u, n + 1) /\ Same(t, u, Nat \ {n}) /\ ~has(t, n)
      /\ has(u, n) <=> Unused(t) # {}
      /\ has(u, n) => get(u, n) = new
    BY <1>1 DEF Made, TypeInv, Tables
<1>3. /\ Held = HeldIn(t) /\ Held' = HeldIn(u) /\ Kind = TypesIn(t) /\ Kind' = TypesIn(u)
      /\ Ops = VtablesIn(t) /\ Ops' = VtablesIn(u)
    BY DEF Held, Kind, Ops
<1>4. Tree(u) = Tree(t)
    BY SameTree
<1> HIDE DEF n, t, u
<1>5. n \in AnyId /\ ~(n \in HeldIn(t)) /\ (n \in HeldIn(u) <=> has(u, n))
    BY <1>1, <1>2 DEF HeldIn, AnyId
<1>6. has(u, n) => TypesIn(u)[n] = type /\ VtablesIn(u)[n] = vtable
    BY <1>1, <1>2, <1>5 DEF TypesIn, VtablesIn
<1>7. ~has(u, n) => VtablesIn(u)[n] = "none"
    BY <1>5 DEF VtablesIn
<1>8. ASSUME NEW id \in AnyId, id # n
      PROVE  /\ id \in HeldIn(u) <=> id \in HeldIn(t)
             /\ id \in HeldIn(t) => TypesIn(u)[id] = TypesIn(t)[id]
             /\ VtablesIn(u)[id] = VtablesIn(t)[id]
  <2>1. (has(u, id) <=> has(t, id)) /\ (has(t, id) => get(u, id) = get(t, id))
      BY <1>2, <1>8, SameEntry
  <2> QED BY <2>1 DEF HeldIn, TypesIn, VtablesIn
<1> QED BY <1>1, <1>2, <1>3, <1>4, <1>5, <1>6, <1>7, <1>8 DEF n, t, u

\* A step that writes an entry.
LEMMA WrittenViews ==
    ASSUME TypeInv, TypeInv', NEW k, NEW new,
           Written(inode_table, inode_table', inode_counter, k, new)
    PROVE  /\ Held' = Held
           /\ k \in Held => Ops'[k] = new.vtable /\ Kind'[k] = new.type
           /\ \A id \in AnyId : id # k => /\ id \in Held => Kind'[id] = Kind[id]
                                          /\ Ops'[id] = Ops[id]
           /\ \A id \in AnyId : id \notin Held => Ops'[id] = "none" /\ Ops[id] = "none"
<1> DEFINE n == inode_counter
           t == inode_table
           u == inode_table'
<1>1. /\ Table(t, n) /\ Table(u, n) /\ Same(t, u, Nat \ {k})
      /\ k \in Nat => (has(u, k) <=> has(t, k))
      /\ has(t, k) => k \in Nat /\ get(u, k) = new
    BY DEF Written, TypeInv, Tables
<1>2. /\ Held = HeldIn(t) /\ Held' = HeldIn(u) /\ Kind = TypesIn(t) /\ Kind' = TypesIn(u)
      /\ Ops = VtablesIn(t) /\ Ops' = VtablesIn(u)
    BY DEF Held, Kind, Ops
<1> HIDE DEF n, t, u
<1>3. ASSUME NEW id \in AnyId, id # k
      PROVE  (has(u, id) <=> has(t, id)) /\ (has(t, id) => get(u, id) = get(t, id))
    BY <1>1, <1>3, SameEntry
<1>4. ASSUME NEW id \in AnyId PROVE has(u, id) <=> has(t, id)
  <2>1. CASE id = k /\ k \in Nat
      BY <1>1, <2>1
  <2>2. CASE id = k /\ k \notin Nat
      BY <1>1, <2>2, FindNothing
  <2> QED BY <1>3, <2>1, <2>2
<1>5. HeldIn(u) = HeldIn(t)
    BY <1>4 DEF HeldIn
<1>6. k \in HeldIn(t) => VtablesIn(u)[k] = new.vtable /\ TypesIn(u)[k] = new.type
    BY <1>1, <1>4 DEF HeldIn, VtablesIn, TypesIn
<1>7. \A id \in AnyId : id # k => /\ id \in HeldIn(t) => TypesIn(u)[id] = TypesIn(t)[id]
                                  /\ VtablesIn(u)[id] = VtablesIn(t)[id]
    BY <1>3 DEF HeldIn, VtablesIn, TypesIn
<1>8. \A id \in AnyId : id \notin HeldIn(t) => /\ VtablesIn(u)[id] = "none"
                                               /\ VtablesIn(t)[id] = "none"
    BY <1>4 DEF HeldIn, VtablesIn
<1> QED BY <1>2, <1>5, <1>6, <1>7, <1>8 DEF t, u

\* The setters of boot, mount and the exported functions.
LEMMA SetterViews ==
    ASSUME TypeInv, TypeInv'
    PROVE  /\ \A k \in AnyId : \A vtable : WroteVtable(k, vtable) =>
                  /\ Held' = Held /\ \A id \in Held : Kind'[id] = Kind[id]
                  /\ Ops'[k] = IF k \in Held THEN vtable ELSE "none"
                  /\ \A id \in AnyId : id # k => Ops'[id] = Ops[id]
           /\ \A k : WroteType(k) => \A id \in AnyId : Ops'[id] = Ops[id]
           /\ \A k \in AnyId, c \in Ids, name \in Text : Linking(k, c, name) =>
                  /\ Held' = Held /\ \A id \in Held : Kind'[id] = Kind[id]
                  /\ \A id \in AnyId : Ops'[id] = Ops[id]
           /\ \A k \in Ids : Dropped(inode_table, inode_table', inode_counter, k) =>
                  \A id \in AnyId : Ops'[id] \in {Ops[id], "none"}
           /\ inode_table' = inode_table => Held' = Held /\ Kind' = Kind /\ Ops' = Ops
<1> DEFINE t == inode_table
           u == inode_table'
           n == inode_counter
<1>1. /\ \A id \in AnyId : id \in Held <=> has(t, id)
      /\ \A id \in Held : Kind[id] = get(t, id).type /\ Ops[id] = get(t, id).vtable
      /\ Held \subseteq AnyId
    BY DEF Held, HeldIn, Kind, TypesIn, Ops, VtablesIn
<1>2. ASSUME NEW k \in AnyId, NEW vtable, WroteVtable(k, vtable)
      PROVE  /\ Held' = Held /\ \A id \in Held : Kind'[id] = Kind[id]
             /\ Ops'[k] = IF k \in Held THEN vtable ELSE "none"
             /\ \A id \in AnyId : id # k => Ops'[id] = Ops[id]
  <2>1. PICK new : /\ Written(t, u, n, k, new)
                   /\ has(t, k) => new.type = get(t, k).type /\ new.vtable = vtable
      BY <1>2 DEF WroteVtable
  <2> QED BY <1>1, <2>1, WrittenViews
<1>3. ASSUME NEW k, WroteType(k) PROVE \A id \in AnyId : Ops'[id] = Ops[id]
  <2>1. PICK new : /\ Written(t, u, n, k, new)
                   /\ has(t, k) => new.vtable = get(t, k).vtable
      BY <1>3 DEF WroteType
  <2> QED BY <1>1, <2>1, WrittenViews
<1>4. ASSUME NEW k \in AnyId, NEW c \in Ids, NEW name \in Text, Linking(k, c, name)
      PROVE  /\ Held' = Held /\ \A id \in Held : Kind'[id] = Kind[id]
             /\ \A id \in AnyId : Ops'[id] = Ops[id]
  <2> DEFINE new == Link(get(t, k), c, name)
  <2>1. Written(t, u, n, k, new)
      BY <1>4 DEF Linking
  <2>2. has(t, k) => get(t, k) \in Inode
      BY TypedTree, TreeIn
  <2>3. has(t, k) => new.type = get(t, k).type /\ new.vtable = get(t, k).vtable
      BY <1>4, <2>2, LinkIs
  <2> HIDE DEF new
  <2>4. /\ Held' = Held
        /\ k \in Held => Ops'[k] = new.vtable /\ Kind'[k] = new.type
        /\ \A id \in AnyId : id # k => /\ id \in Held => Kind'[id] = Kind[id]
                                       /\ Ops'[id] = Ops[id]
        /\ \A id \in AnyId : id \notin Held => Ops'[id] = "none" /\ Ops[id] = "none"
      BY <2>1, WrittenViews
  <2>5. k \in Held => Ops'[k] = Ops[k] /\ Kind'[k] = Kind[k]
      BY <1>1, <2>3, <2>4
  <2> QED BY <1>1, <2>4, <2>5
<1>5. ASSUME NEW k \in Ids, Dropped(t, u, n, k), NEW id \in AnyId
      PROVE  Ops'[id] \in {Ops[id], "none"}
  <2>1. Table(t, n) /\ Table(u, n) /\ Same(t, u, Nat \ {k}) /\ ~has(u, k)
      BY <1>5 DEF Dropped, TypeInv, Tables
  <2>2. Ops = VtablesIn(t) /\ Ops' = VtablesIn(u)
      BY DEF Ops
  <2> HIDE DEF n, t, u
  <2>3. CASE id = k
    <3>1. VtablesIn(u)[id] = "none"
        BY <2>1, <2>3 DEF VtablesIn
    <3> QED BY <2>2, <3>1
  <2>4. CASE id # k
    <3>1. (has(u, id) <=> has(t, id)) /\ (has(t, id) => get(u, id) = get(t, id))
        BY <2>1, <2>4, SameEntry
    <3>2. VtablesIn(u)[id] = VtablesIn(t)[id]
        BY <3>1 DEF VtablesIn
    <3> QED BY <2>2, <3>2
  <2> QED BY <2>3, <2>4
<1>6. inode_table' = inode_table => Held' = Held /\ Kind' = Kind /\ Ops' = Ops
    BY DEF Held, Kind, Ops
<1> QED BY <1>2, <1>3, <1>4, <1>5, <1>6

\* A new entry of another table.
LEMMA AddedItem ==
    ASSUME NEW t, NEW n \in Ids, Table(t, n), NEW item
    PROVE  LET u == add(t, n, item) IN
           /\ \A id \in AnyId : id # n => ItemsIn(u)[id] = ItemsIn(t)[id]
           /\ n < HASHTABLE_CAPACITY => ItemsIn(u)[n] = <<item>>
<1> DEFINE u == add(t, n, item)
<1>1. n \in Nat /\ n <= n /\ n \in AnyId
    BY Invalid DEF AnyId
<1>2. /\ Table(u, n + 1) /\ Same(t, u, Nat \ {n})
      /\ Unused(t) # {} => has(u, n) /\ get(u, n) = item
    BY <1>1, AddEntry
<1> HIDE DEF u
<1>3. ASSUME NEW id \in AnyId, id # n PROVE ItemsIn(u)[id] = ItemsIn(t)[id]
  <2>1. (has(u, id) <=> has(t, id)) /\ (has(t, id) => get(u, id) = get(t, id))
      BY <1>2, <1>3, SameEntry
  <2> QED BY <2>1 DEF ItemsIn
<1>4. ASSUME n < HASHTABLE_CAPACITY PROVE ItemsIn(u)[n] = <<item>>
  <2>1. has(u, n) /\ get(u, n) = item
      BY <1>1, <1>2, <1>4, RoomLeft
  <2> QED BY <1>1, <2>1 DEF ItemsIn
<1> QED BY <1>3, <1>4 DEF u

-----------------------------------------------------------------------------
\* Until boot is over an inode is in the table if there was room for it.
Packed == boot.pc # "ready" =>
    \A id \in Ids : id \in Held <=> id < inode_counter /\ id < HASHTABLE_CAPACITY

\* A slot of the ram disks holds what tar makes of an archive; before boot
\* reads them there is no root.
Slotted ==
    /\ \A k \in Disk : initrds[k] = Tar(archives[k]) \/ (initrds[k] = <<>> /\ archives[k] = <<>>)
    /\ boot.pc = "add" => vfs_root = ID_INVALID
    /\ calls \in Nat

PackInv == Packed /\ Slotted

LEMMA PackedMade ==
    ASSUME TypeInv, TypeInv', Packed, boot.pc # "ready", NEW type, NEW vtable, MadeAs(type, vtable),
           inode_counter' = inode_counter + 1
    PROVE  Packed'
<1> DEFINE n == inode_counter
<1>1. /\ n \in Ids /\ n \notin Held /\ (n \in Held' <=> Unused(inode_table) # {})
      /\ \A id \in AnyId : id # n => (id \in Held' <=> id \in Held)
    BY MadeViews
<1>2. \A id \in Ids : id \in Held <=> id < n /\ id < HASHTABLE_CAPACITY
    BY DEF Packed
<1>3. /\ Table(inode_table, n) /\ n \in Nat /\ n <= MaxInodes /\ MaxInodes \in Nat
      /\ HASHTABLE_CAPACITY \in Nat
    BY CapacityAssumption, VfsAssumption DEF TypeInv, Tables, VfsTypes
<1>4. n \in Held' <=> n < HASHTABLE_CAPACITY
  <2>1. CASE n < HASHTABLE_CAPACITY
    <3>1. Unused(inode_table) # {}
        BY <1>3, <2>1, RoomLeft
    <3> QED BY <1>1, <2>1, <3>1
  <2>2. CASE ~(n < HASHTABLE_CAPACITY)
    <3>1. ASSUME NEW id \in 0 .. HASHTABLE_CAPACITY - 1 PROVE has(inode_table, id)
      <4>1. id \in Ids /\ id < n /\ id < HASHTABLE_CAPACITY
          BY <1>3, <2>2 DEF Ids
      <4>2. id \in Held
          BY <1>2, <4>1
      <4> QED BY <4>2 DEF Held, HeldIn
    <3>2. HASHTABLE_CAPACITY <= MaxInodes
        BY <1>3, <2>2
    <3>3. Unused(inode_table) = {}
        BY <1>3, <3>1, <3>2, NoRoom
    <3> QED BY <1>1, <2>2, <3>3
  <2> QED BY <2>1, <2>2
<1>5. ASSUME NEW id \in Ids PROVE id \in Held' <=> id < n + 1 /\ id < HASHTABLE_CAPACITY
  <2>1. id \in Nat /\ id \in AnyId
      BY Invalid DEF AnyId
  <2>2. CASE id = n
      BY <1>3, <1>4, <2>2
  <2>3. CASE id # n
    <3>1. id < n + 1 <=> id < n
        BY <1>3, <2>1, <2>3
    <3> QED BY <1>1, <1>2, <2>1, <2>3, <3>1
  <2> QED BY <2>2, <2>3
<1> QED BY <1>5 DEF Packed

LEMMA PackKept ==
    ASSUME TypeInv, PackInv, UNCHANGED <<initrds, archives>>, calls' \in Nat,
           boot'.pc = "add" => vfs_root' = ID_INVALID,
           \/ boot'.pc = "ready"
           \/ boot.pc # "ready" /\ Held' = Held /\ inode_counter' = inode_counter
    PROVE  PackInv'
<1>1. Packed'
    BY DEF PackInv, Packed
<1>2. Slotted'
    BY DEF PackInv, Slotted
<1> QED BY <1>1, <1>2 DEF PackInv

LEMMA PackMade ==
    ASSUME TypeInv, TypeInv', PackInv, UNCHANGED <<initrds, archives, calls>>,
           boot'.pc # "add", boot.pc # "ready",
           NEW type, NEW vtable, MadeAs(type, vtable), inode_counter' = inode_counter + 1
    PROVE  PackInv'
<1>1. Packed'
    BY PackedMade DEF PackInv
<1>2. Slotted'
    BY DEF PackInv, Slotted
<1> QED BY <1>1, <1>2 DEF PackInv

LEMMA InitPack == Init => PackInv
<1> SUFFICES ASSUME Init PROVE PackInv
    OBVIOUS
<1>1. /\ boot.pc = "add" /\ vfs_root = ID_INVALID /\ calls = 0 /\ inode_counter = 0
      /\ initrds = [k \in Disk |-> <<>>] /\ archives = [k \in Disk |-> <<>>]
      /\ inode_table = EmptyTable(NewInode(ID_INVALID, "DIRECTORY"))
    BY DEF Init, Disk
<1>2. \A id \in Ids : ~has(inode_table, id)
    BY <1>1, EmptyIs, Invalid
<1>3. Packed
    BY <1>1, <1>2, Invalid DEF Packed, Held, HeldIn
<1>4. Slotted
    BY <1>1 DEF Slotted
<1> QED BY <1>3, <1>4 DEF PackInv

LEMMA NextPack == TypeInv /\ TypeInv' /\ PackInv /\ [Next]_vars => PackInv'
<1> SUFFICES ASSUME TypeInv, TypeInv', PackInv, [Next]_vars PROVE PackInv'
    OBVIOUS
<1>0. boot \in BootType /\ calls \in Nat
    BY DEF TypeInv, VfsTypes, PackInv, Slotted
<1>1. ASSUME NEW a \in Archives, initrd_add(a) PROVE PackInv'
  <2>1. /\ boot.pc = "add" /\ boot' = boot
        /\ UNCHANGED <<inode_table, inode_counter, vfs_root, calls>>
      BY <1>1 DEF initrd_add
  <2>2. Packed'
      BY <2>1, SetterViews DEF PackInv, Packed
  <2>3. ASSUME NEW k \in Disk
        PROVE  initrds'[k] = Tar(archives'[k]) \/ (initrds'[k] = <<>> /\ archives'[k] = <<>>)
    <3>1. initrds \in [Disk -> Memory] /\ archives \in [Disk -> Archives \cup {<<>>}]
        BY DEF TypeInv, VfsTypes
    <3>2. initrds[k] = Tar(archives[k]) \/ (initrds[k] = <<>> /\ archives[k] = <<>>)
        BY DEF PackInv, Slotted
    <3>3. \/ UNCHANGED <<initrds, archives>>
          \/ \E m : /\ initrds' = [initrds EXCEPT ![m] = Tar(a)]
                    /\ archives' = [archives EXCEPT ![m] = a]
        BY <1>1 DEF initrd_add
    <3>4. ASSUME NEW m, initrds' = [initrds EXCEPT ![m] = Tar(a)],
                 archives' = [archives EXCEPT ![m] = a]
          PROVE  initrds'[k] = Tar(archives'[k]) \/ (initrds'[k] = <<>> /\ archives'[k] = <<>>)
      <4>1. CASE k = m
        <5>1. initrds'[k] = Tar(a) /\ archives'[k] = a
            BY <3>1, <3>4, <4>1
        <5> QED BY <5>1
      <4>2. CASE k # m
        <5>1. initrds'[k] = initrds[k] /\ archives'[k] = archives[k]
            BY <3>1, <3>4, <4>2
        <5> QED BY <3>2, <5>1
      <4> QED BY <4>1, <4>2
    <3>5. CASE UNCHANGED <<initrds, archives>>
        BY <3>2, <3>5
    <3> QED BY <3>3, <3>4, <3>5
  <2>4. Slotted'
      BY <2>1, <2>3 DEF PackInv, Slotted
  <2> QED BY <2>2, <2>4 DEF PackInv
<1>2. CASE initrd_init \/ boot_done
  <2>1. /\ UNCHANGED <<inode_table, inode_counter, initrds, archives, calls>>
        /\ boot.pc \in {"add", "pipe"}
      BY <1>2 DEF initrd_init, boot_done
  <2>2. boot'.pc # "add"
    <3>1. CASE initrd_init
      <4>1. boot' = NextDisk(0) /\ initrds \in [Disk -> Memory]
          BY <3>1 DEF initrd_init, TypeInv, VfsTypes
      <4>2. \/ boot' = [boot EXCEPT !.pc = "pipe", !.k = 1]
            \/ \E m \in Disk : boot' = [boot EXCEPT !.pc = "create_fs", !.k = m]
          BY <1>0, <4>1, NextDiskIs, Zenon
      <4> QED BY <1>0, <4>2, Zenon DEF BootType
    <3>2. CASE boot_done
        BY <1>0, <3>2 DEF boot_done, BootType
    <3> QED BY <1>2, <3>1, <3>2
  <2>3. Held' = Held
      BY <2>1, SetterViews
  <2> QED BY <1>0, <2>1, <2>2, <2>3, PackKept
<1>3. CASE initrd_create
  <2>1. /\ UNCHANGED <<initrds, archives, calls>> /\ boot.pc = "create_fs"
        /\ boot' = [boot EXCEPT !.pc = "element", !.b = 1, !.i = 0, !.cinode = vfs_root']
        /\ inode_counter' = inode_counter + 1
      BY <1>3 DEF initrd_create, create_fs, CreateInode
  <2>2. boot'.pc = "element"
      BY <1>0, <2>1 DEF BootType
  <2>3. MadeAs("DIRECTORY", "none")
      BY <1>3, TypesCreateFs
  <2> QED BY <2>1, <2>2, <2>3, PackMade
<1>4. CASE initrd_create_inode
  <2>1. /\ UNCHANGED <<initrds, archives, calls>> /\ boot.pc = "create"
        /\ boot' = [boot EXCEPT !.pc = "mount", !.ninode = inode_counter]
        /\ inode_counter' = inode_counter + 1
      BY <1>4 DEF initrd_create_inode, CreateInode
  <2>2. boot'.pc = "mount"
      BY <1>0, <2>1 DEF BootType
  <2>3. MadeAs(NewType, "none")
      BY <1>4, TypesCreateInode
  <2> QED BY <2>1, <2>2, <2>3, PackMade
<1>5. CASE pipe_create
  <2>1. /\ UNCHANGED <<initrds, archives, calls>> /\ boot.pc = "pipe"
        /\ boot' = [boot EXCEPT !.pc = "pipe_mount", !.ninode = inode_counter]
        /\ inode_counter' = inode_counter + 1
      BY <1>5 DEF pipe_create, CreateInode
  <2>2. boot'.pc = "pipe_mount"
      BY <1>0, <2>1 DEF BootType
  <2>3. MadeAs("PIPE", "pipe")
      BY <1>5, TypesPipeCreate
  <2> QED BY <2>1, <2>2, <2>3, PackMade
<1>6. CASE initrd_descend \/ tar_next
  <2>1. /\ UNCHANGED <<inode_table, inode_counter, initrds, archives, calls>>
        /\ boot.pc = "element"
      BY <1>6 DEF initrd_descend, tar_next
  <2>2. boot'.pc # "add"
    <3>1. CASE initrd_descend
      <4>1. \/ \E c, i : boot' = [boot EXCEPT !.cinode = c, !.i = i]
            \/ boot' = [boot EXCEPT !.pc = "create"]
          BY <3>1, Zenon DEF initrd_descend
      <4> QED BY <1>0, <2>1, <4>1, Zenon DEF BootType
    <3>2. CASE tar_next
      <4>1. \/ boot' = NextDisk(boot.k + 1)
            \/ \E b : boot' = [boot EXCEPT !.b = b, !.i = 0, !.cinode = get_root]
          BY <3>2, Zenon DEF tar_next
      <4>2. boot.k + 1 \in Nat /\ initrds \in [Disk -> Memory]
          BY <1>0 DEF BootType, TypeInv, VfsTypes
      <4>3. CASE boot' = NextDisk(boot.k + 1)
        <5>1. \/ boot' = [boot EXCEPT !.pc = "pipe", !.k = 1]
              \/ \E m \in Disk : boot' = [boot EXCEPT !.pc = "create_fs", !.k = m]
            BY <1>0, <4>2, <4>3, NextDiskIs, Zenon
        <5> QED BY <1>0, <5>1, Zenon DEF BootType
      <4>4. ASSUME NEW b, boot' = [boot EXCEPT !.b = b, !.i = 0, !.cinode = get_root]
            PROVE  boot'.pc # "add"
          BY <1>0, <2>1, <4>4 DEF BootType
      <4> QED BY <4>1, <4>3, <4>4, Zenon
    <3> QED BY <1>6, <3>1, <3>2
  <2>3. Held' = Held
      BY <2>1, SetterViews
  <2> QED BY <1>0, <2>1, <2>2, <2>3, PackKept
<1>7. CASE initrd_mount_child
  <2>1. /\ UNCHANGED <<inode_counter, initrds, archives, calls>> /\ boot.pc = "mount"
        /\ boot' = [boot EXCEPT !.pc = "vtable"] /\ boot.cinode \in AnyId
      BY <1>0, <1>7 DEF initrd_mount_child, BootType
  <2>2. boot'.pc = "vtable"
      BY <1>0, <2>1 DEF BootType
  <2>3. Held' = Held
      BY <1>7, <2>1, TypesMountChild, SetterViews
  <2> QED BY <1>0, <2>1, <2>2, <2>3, PackKept
<1>8. CASE initrd_set_vtable
  <2>1. /\ UNCHANGED <<inode_counter, initrds, archives, calls>> /\ boot.pc = "vtable"
        /\ boot' = [boot EXCEPT !.pc = "element", !.i = @ + 1, !.cinode = boot.ninode]
        /\ boot.ninode \in AnyId
      BY <1>0, <1>8 DEF initrd_set_vtable, BootType
  <2>2. boot'.pc = "element"
      BY <1>0, <2>1 DEF BootType
  <2>3. Held' = Held
      BY <1>8, <2>1, TypesSetVtable, SetterViews
  <2> QED BY <1>0, <2>1, <2>2, <2>3, PackKept
<1>9. CASE pipe_mount
  <2>1. /\ UNCHANGED <<inode_counter, initrds, archives, calls>> /\ boot.pc = "pipe_mount"
        /\ boot' = [boot EXCEPT !.pc = "pipe", !.k = @ + 1]
      BY <1>9 DEF pipe_mount
  <2>2. boot'.pc = "pipe"
      BY <1>0, <2>1 DEF BootType
  <2> DEFINE e == Elements(PipePaths[boot.k])
             d == Walk(Front(e))
  <2>3. /\ boot.k \in 1 .. Len(PipePaths) /\ Last(e) \in Text /\ boot.ninode \in Ids
        /\ IF d = ID_INVALID THEN inode_table' = inode_table ELSE Linking(d, boot.ninode, Last(e))
      BY <1>9, TypesPipeMount
  <2>4. d \in AnyId
      BY <2>3, PipeNames, WalkIs
  <2> HIDE DEF e, d
  <2>5. Held' = Held
      BY <2>3, <2>4, SetterViews
  <2> QED BY <1>0, <2>1, <2>2, <2>5, PackKept
<1>10. CASE Exported
  <2>1. /\ boot'.pc = "ready" /\ calls' = calls + 1 /\ UNCHANGED <<initrds, archives>>
      BY <1>10, Ready
  <2> QED BY <1>0, <2>1, PackKept
<1>11. CASE UNCHANGED vars
  <2>1. UNCHANGED <<inode_table, inode_counter, vfs_root, initrds, archives, boot, calls>>
      BY <1>11 DEF vars
  <2>2. Held' = Held
      BY <2>1, SetterViews
  <2>3. boot'.pc = "add" => vfs_root' = ID_INVALID
      BY <2>1 DEF PackInv, Slotted
  <2> QED BY <1>0, <2>1, <2>2, <2>3, PackKept
<1> QED BY <1>1, <1>2, <1>3, <1>4, <1>5, <1>6, <1>7, <1>8, <1>9, <1>10, <1>11
       DEF Next, create_inode, change_type, delete_inode, change_fs, delete_fs

-----------------------------------------------------------------------------
(***************************************************************************)
(* Paths that begin alike.                                                 *)
(***************************************************************************)

LEMMA PrefixIs ==
    ASSUME NEW e \in Names, NEW f \in Names
    PROVE  /\ IsPrefix(e, f) <=> Len(e) <= Len(f) /\ e = SubSeq(f, 1, Len(e))
           /\ Len(e) \in Nat /\ Len(f) \in Nat
           /\ Len(e) = 0 => e = <<>>
           /\ IsPrefix(<<>>, f)
           /\ IsPrefix(f, f)
           /\ IsPrefix(e, f) /\ Len(e) = Len(f) => e = f
<1>1. e \in Seq(Text) /\ f \in Seq(Text) /\ Len(e) \in Nat /\ Len(f) \in Nat
    BY DEF Names
<1>2. /\ SubSeq(e, 1, Len(e)) = e /\ SubSeq(f, 1, Len(f)) = f
      /\ SubSeq(f, 1, 0) = <<>> /\ SubSeq(<<>>, 1, 0) = <<>>
  <2>1. <<>> \in Seq(Text)
      OBVIOUS
  <2>2. SubSeq(<<>>, 1, 0) = <<>>
      BY <2>1, FirstPartEnds
  <2> QED BY <1>1, <2>2, FirstPartEnds
<1>3. IsPrefix(e, f) <=> Len(e) <= Len(f) /\ e = SubSeq(f, 1, Len(e))
    BY <1>2 DEF IsPrefix
<1>4. IsPrefix(<<>>, f)
  <2> DEFINE z == <<>>
  <2>1. Len(z) = 0 /\ SubSeq(z, 1, 0) = z /\ SubSeq(f, 1, 0) = z
      BY <1>2
  <2> HIDE DEF z
  <2>2. IsPrefix(z, f)
      BY <1>1, <2>1 DEF IsPrefix
  <2> QED BY <2>2 DEF z
<1>5. IsPrefix(f, f)
    BY <1>1 DEF IsPrefix
<1>6. Len(e) = 0 => e = <<>>
    BY <1>1, EmptySeq
<1>7. IsPrefix(e, f) /\ Len(e) = Len(f) => e = f
    BY <1>2, <1>3
<1> QED BY <1>1, <1>3, <1>4, <1>5, <1>6, <1>7

\* One element more of a path.
LEMMA PrefixStep ==
    ASSUME NEW f \in Names, NEW i \in Nat, i < Len(f)
    PROVE  LET d == SubSeq(f, 1, i)
               g == Append(d, f[i + 1])
           IN  /\ d \in Names /\ g \in Names /\ f[i + 1] \in Text /\ Len(g) = i + 1 /\ Len(d) = i
               /\ IsPrefix(d, f) /\ IsPrefix(g, f) /\ g # <<>> /\ g = SubSeq(f, 1, i + 1)
               /\ g = f <=> i + 1 = Len(f)
               /\ \A e \in Names : IsPrefix(e, f) /\ Len(e) <= i + 1 <=>
                                      (IsPrefix(e, f) /\ Len(e) <= i) \/ e = g
<1> DEFINE d == SubSeq(f, 1, i)
           g == Append(d, f[i + 1])
           n == i + 1
<1>1. f \in Seq(Text) /\ Len(f) \in Nat /\ i \in 0 .. Len(f) /\ i \in 0 .. Len(f) - 1
      /\ n \in 0 .. Len(f)
    BY DEF Names
<1>2. d \in Seq(Text) /\ Len(d) = i
    BY <1>1, FirstPart
<1>3. f[i + 1] \in Text /\ SubSeq(f, 1, i + 1) = g
    BY <1>1, FirstPartNext
<1>4. SubSeq(f, 1, n) \in Seq(Text) /\ Len(SubSeq(f, 1, n)) = n
    BY <1>1, FirstPart
<1>5. d \in Names /\ g \in Names /\ g = SubSeq(f, 1, n) /\ Len(g) = n
    BY <1>2, <1>3, <1>4 DEF Names
<1>6. g # <<>>
    BY <1>5, <1>1
<1> HIDE DEF d, g
<1>7. IsPrefix(d, f) /\ IsPrefix(g, f)
  <2>1. d = SubSeq(f, 1, i) /\ i <= Len(f) /\ n <= Len(f)
      BY <1>1 DEF d
  <2> HIDE DEF n
  <2>2. d \in Names /\ Len(d) <= Len(f) /\ d = SubSeq(f, 1, Len(d))
      BY <1>2, <1>5, <2>1
  <2>3. g \in Names /\ Len(g) <= Len(f) /\ g = SubSeq(f, 1, Len(g))
      BY <1>5, <2>1
  <2> QED BY <2>2, <2>3, PrefixIs
<1>8. g = f <=> n = Len(f)
    BY <1>5, <1>7, PrefixIs
<1>9. ASSUME NEW e \in Names
      PROVE  IsPrefix(e, f) /\ Len(e) <= n <=> (IsPrefix(e, f) /\ Len(e) <= i) \/ e = g
  <2>1. Len(e) \in Nat
      BY PrefixIs
  <2>2. IsPrefix(e, f) /\ Len(e) = n => e = g
      BY <1>5, PrefixIs
  <2>3. e = g => IsPrefix(e, f) /\ Len(e) = n
      BY <1>5, <1>7
  <2>4. Len(e) <= n <=> Len(e) <= i \/ Len(e) = n
      BY <2>1
  <2> HIDE DEF n
  <2>5. n <= n
      BY <2>1, <2>4, <1>1
  <2> QED BY <2>2, <2>3, <2>4, <2>5
<1>10. \A e \in Names : IsPrefix(e, f) /\ Len(e) <= i + 1 <=>
                            (IsPrefix(e, f) /\ Len(e) <= i) \/ e = g
    BY <1>9
<1>11. g = f <=> i + 1 = Len(f)
    BY <1>8
<1>12. /\ d \in Names /\ g \in Names /\ f[i + 1] \in Text /\ Len(g) = i + 1 /\ Len(d) = i
       /\ IsPrefix(d, f) /\ IsPrefix(g, f) /\ g # <<>> /\ g = SubSeq(f, 1, i + 1)
    BY <1>2, <1>3, <1>5, <1>6, <1>7
<1> HIDE DEF n
<1> QED BY <1>10, <1>11, <1>12, Zenon DEF d, g

-----------------------------------------------------------------------------
(***************************************************************************)
(* What an archive says of a path.                                         *)
(***************************************************************************)

\* The n-th file is the first that is e or below it.
FirstAt(F, e, n) ==
    /\ n \in 1 .. Len(F) /\ IsPrefix(e, F[n].elements)
    /\ \A m \in 1 .. n - 1 : ~IsPrefix(e, F[m].elements)
SomeAt(F, e) == \E n \in 1 .. Len(F) : IsPrefix(e, F[n].elements)

\* e is a regular file, whose header is found under item; e has this type.
FileAt(F, k, e, item) ==
    \E n \in 1 .. Len(F) : /\ FirstAt(F, e, n) /\ F[n].elements = e
                           /\ TypeOfFlag(F[n].flag) = "NORMAL_FILE"
                           /\ item = <<<<k, Pos(F, n)>>>>
HasType(F, e, type) ==
    \/ e = <<>> /\ type = "DIRECTORY"
    \/ e # <<>> /\ \E n \in 1 .. Len(F) :
          /\ FirstAt(F, e, n)
          /\ type = IF F[n].elements = e THEN TypeOfFlag(F[n].flag) ELSE "DIRECTORY"

\* What boot has met when it has read r elements of the n-th file.
Seen(F, n, r, e) ==
    \/ e = <<>>
    \/ \E m \in 1 .. n - 1 : IsPrefix(e, F[m].elements)
    \/ n \in 1 .. Len(F) /\ IsPrefix(e, F[n].elements) /\ Len(e) <= r

LEMMA FileNames ==
    ASSUME NEW F \in Seq(File), NEW n \in 1 .. Len(F)
    PROVE  /\ F[n] \in File /\ F[n].elements \in Names /\ F[n].elements # <<>> /\ n \in Nat
           /\ Len(F) \in Nat
<1>1. F[n] \in File
    BY ElementOfSeq
<1> QED BY <1>1 DEF File

LEMMA SeenMore ==
    ASSUME NEW F \in Seq(File), NEW n \in 1 .. Len(F), NEW e \in Names
    PROVE  LET f == F[n].elements IN
           /\ Seen(F, n, 0, e) <=> e = <<>> \/ \E m \in 1 .. n - 1 : IsPrefix(e, F[m].elements)
           /\ \A i \in Nat : i < Len(f) =>
                  (Seen(F, n, i + 1, e) <=> Seen(F, n, i, e) \/ e = Append(SubSeq(f, 1, i), f[i + 1]))
           /\ Seen(F, n, Len(f), e) <=> Seen(F, n + 1, 0, e)
           /\ n = Len(F) => (Seen(F, n, Len(f), e) <=> e = <<>> \/ SomeAt(F, e))
           /\ \A r : e # <<>> /\ IsPrefix(e, f) /\ ~Seen(F, n, r, e) => FirstAt(F, e, n)
<1> DEFINE f == F[n].elements
           Before == \E m \in 1 .. n - 1 : IsPrefix(e, F[m].elements)
<1>1. f \in Names /\ n \in Nat /\ Len(F) \in Nat /\ Len(f) \in Nat /\ Len(e) \in Nat
      /\ n \in 1 .. Len(F)
    BY FileNames, PrefixIs
<1>2. \A r : Seen(F, n, r, e) <=> e = <<>> \/ Before \/ (IsPrefix(e, f) /\ Len(e) <= r)
    BY DEF Seen
<1>3. Len(e) = 0 => e = <<>>
    BY PrefixIs
<1>4. IsPrefix(e, f) => Len(e) <= Len(f)
    BY <1>1, PrefixIs
<1>5. ASSUME NEW i \in Nat, i < Len(f)
      PROVE  Seen(F, n, i + 1, e) <=> Seen(F, n, i, e) \/ e = Append(SubSeq(f, 1, i), f[i + 1])
  <2> DEFINE g == Append(SubSeq(f, 1, i), f[i + 1])
             j == i + 1
  <2>1. IsPrefix(e, f) /\ Len(e) <= i + 1 <=> (IsPrefix(e, f) /\ Len(e) <= i) \/ e = g
      BY <1>1, <1>5, PrefixStep
  <2> HIDE DEF f, g, Before
  <2>2. Seen(F, n, j, e) <=> e = <<>> \/ Before \/ (IsPrefix(e, f) /\ Len(e) <= j)
      BY <1>2
  <2>3. Seen(F, n, i, e) <=> e = <<>> \/ Before \/ (IsPrefix(e, f) /\ Len(e) <= i)
      BY <1>2
  <2> QED BY <2>1, <2>2, <2>3 DEF g
<1>6. Before \/ IsPrefix(e, f) <=> \E m \in 1 .. n : IsPrefix(e, F[m].elements)
  <2>1. \A m \in 1 .. n : m = n \/ m \in 1 .. n - 1
      BY <1>1
  <2>2. n \in 1 .. n /\ 1 .. n - 1 \subseteq 1 .. n
      BY <1>1
  <2> QED BY <2>1, <2>2
<1>7. Seen(F, n, Len(f), e) <=> e = <<>> \/ \E m \in 1 .. n : IsPrefix(e, F[m].elements)
    BY <1>2, <1>4, <1>6
<1>8. Seen(F, n + 1, 0, e) <=> e = <<>> \/ \E m \in 1 .. n : IsPrefix(e, F[m].elements)
  <2> DEFINE j == n + 1
             z == 0
  <2>1. j - 1 = n
      BY <1>1
  <2>2. e # <<>> => ~(Len(e) <= z)
      BY <1>1, <1>3
  <2> HIDE DEF j, z
  <2>3. Seen(F, j, z, e) <=> e = <<>> \/ \E m \in 1 .. n : IsPrefix(e, F[m].elements)
      BY <2>1, <2>2 DEF Seen
  <2> QED BY <2>3 DEF j, z
<1>9. n = Len(F) => (Seen(F, n, Len(f), e) <=> e = <<>> \/ SomeAt(F, e))
    BY <1>7 DEF SomeAt
<1>10. Seen(F, n, 0, e) <=> e = <<>> \/ Before
    BY <1>1, <1>2, <1>3
<1>11. \A r : e # <<>> /\ IsPrefix(e, f) /\ ~Seen(F, n, r, e) => FirstAt(F, e, n)
    BY <1>2 DEF FirstAt
<1> QED BY <1>5, <1>7, <1>8, <1>9, <1>10, <1>11

LEMMA FirstIs ==
    ASSUME NEW F \in Seq(File), NEW e
    PROVE  /\ SomeAt(F, e) => \E n \in 1 .. Len(F) : FirstAt(F, e, n)
           /\ \A n, m : FirstAt(F, e, n) /\ FirstAt(F, e, m) => n = m
           /\ \A n : FirstAt(F, e, n) => SomeAt(F, e)
<1> DEFINE S == {n \in 1 .. Len(F) : IsPrefix(e, F[n].elements)}
<1>1. Len(F) \in Nat /\ S \subseteq Nat
    OBVIOUS
<1>2. ASSUME SomeAt(F, e) PROVE \E n \in 1 .. Len(F) : FirstAt(F, e, n)
  <2> DEFINE n == Min(S)
  <2>1. S # {}
      BY <1>2 DEF SomeAt
  <2> HIDE DEF S
  <2>2. n \in S /\ \A m \in S : n <= m
      BY <1>1, <2>1, MinIn
  <2> HIDE DEF n
  <2>3. n \in 1 .. Len(F) /\ IsPrefix(e, F[n].elements)
      BY <2>2 DEF S
  <2>4. ASSUME NEW m \in 1 .. n - 1, IsPrefix(e, F[m].elements) PROVE FALSE
    <3>1. m \in 1 .. Len(F) /\ m < n /\ n \in Nat /\ m \in Nat
        BY <1>1, <2>3
    <3>2. m \in S
        BY <2>4, <3>1 DEF S
    <3> QED BY <2>2, <3>1, <3>2
  <2> QED BY <2>3, <2>4 DEF FirstAt
<1>3. ASSUME NEW n, NEW m, FirstAt(F, e, n), FirstAt(F, e, m) PROVE n = m
  <2>1. /\ n \in Nat /\ m \in Nat /\ n >= 1 /\ m >= 1
        /\ n \notin 1 .. m - 1 /\ m \notin 1 .. n - 1
      BY <1>1, <1>3 DEF FirstAt
  <2> QED BY <2>1
<1>4. \A n : FirstAt(F, e, n) => SomeAt(F, e)
    BY DEF FirstAt, SomeAt
<1> QED BY <1>2, <1>3, <1>4

\* Mention is the first file, and BlockOf is the block of its header.
LEMMA MentionIs ==
    ASSUME TypeInv, NEW e \in Names
    PROVE  /\ Mention(e) # 0 <=> SomeAt(Files, e)
           /\ SomeAt(Files, e) => FirstAt(Files, e, Mention(e))
           /\ Listed(e) <=> IF e = <<>> THEN Disks # {} ELSE SomeAt(Files, e)
           /\ \A n : BlockOf(n) = Pos(Files, n)
<1> DEFINE F == Files
           S == {n \in 1 .. Len(F) : IsPrefix(e, F[n].elements)}
<1>1. F \in Seq(File)
    BY FilesIn
<1>2. Mention(e) = IF S # {} THEN Min(S) ELSE 0
    BY Zenon DEF Mention, SelectInSeq
<1>3. S # {} <=> SomeAt(F, e)
    BY DEF SomeAt
<1>4. \A n : BlockOf(n) = Pos(F, n)
    BY Zenon DEF BlockOf, Pos, Total, Blocks
<1> HIDE DEF F
<1>5. ASSUME SomeAt(F, e) PROVE Mention(e) # 0 /\ FirstAt(F, e, Mention(e))
  <2>1. PICK n \in 1 .. Len(F) : FirstAt(F, e, n)
      BY <1>1, <1>5, FirstIs
  <2>2. S \subseteq Int /\ n \in S
      BY <1>1, <2>1 DEF FirstAt
  <2>3. ASSUME NEW m \in S PROVE n <= m
    <3>1. m \in 1 .. Len(F) /\ m \notin 1 .. n - 1
        BY <2>1 DEF FirstAt
    <3>2. Len(F) \in Nat
        BY <1>1
    <3> QED BY <3>1, <3>2
  <2> HIDE DEF S
  <2>4. Min(S) = n
      BY <2>2, <2>3, MinIs
  <2>5. Mention(e) = n /\ n # 0
      BY <1>2, <1>3, <1>5, <2>4
  <2> QED BY <2>1, <2>5
<1>6. Mention(e) # 0 <=> SomeAt(F, e)
    BY <1>2, <1>3, <1>5
<1>7. Listed(e) <=> IF e = <<>> THEN Disks # {} ELSE SomeAt(F, e)
    BY <1>6 DEF Listed
<1> QED BY <1>4, <1>5, <1>6, <1>7 DEF F

LEMMA SameFiles ==
    ASSUME UNCHANGED <<initrds, archives>>
    PROVE  Disks' = Disks /\ Files' = Files
<1>1. Disks' = Disks
    BY DEF Disks
<1>2. Files' = Files
    BY <1>1 DEF Files
<1> QED BY <1>1, <1>2

-----------------------------------------------------------------------------
(***************************************************************************)
(* The archive that boot reads and the paths it has made.                  *)
(***************************************************************************)

\* The elements of the n-th file, the first r of them, and the type of what
\* they name; an archive without files has one header without elements.
Entry(F, n) == IF n \in 1 .. Len(F) THEN F[n].elements ELSE <<>>
At(F, n, r) == SubSeq(Entry(F, n), 1, r)
TypeAt(F, n, r) == IF r = Len(F[n].elements) THEN TypeOfFlag(F[n].flag) ELSE "DIRECTORY"
IsEntry(F, n) == n \in 1 .. Len(F) \/ (F = <<>> /\ n = 1)

LEMMA EntryIs ==
    ASSUME NEW F \in Seq(File), NEW n, IsEntry(F, n)
    PROVE  /\ Entry(F, n) \in Names /\ Len(Entry(F, n)) \in Nat /\ n \in Nat /\ n + 1 \in Nat
           /\ n \in 1 .. Len(F) => Entry(F, n) = F[n].elements
           /\ n \notin 1 .. Len(F) => Entry(F, n) = <<>> /\ Len(Entry(F, n)) = 0 /\ F = <<>>
           /\ At(F, n, 0) = <<>>
<1>1. n \in Nat
    BY DEF IsEntry
<1>2. CASE n \in 1 .. Len(F)
  <2>1. Entry(F, n) = F[n].elements
      BY <1>2 DEF Entry
  <2>2. F[n].elements \in Names
      BY <1>2, FileNames
  <2>3. Entry(F, n) \in Names
      BY <2>1, <2>2
  <2>4. Len(Entry(F, n)) \in Nat /\ SubSeq(Entry(F, n), 1, 0) = <<>>
      BY <2>3 DEF Names
  <2> QED BY <1>1, <1>2, <2>1, <2>3, <2>4 DEF At
<1>3. CASE n \notin 1 .. Len(F)
  <2>1. Entry(F, n) = <<>> /\ F = <<>>
      BY <1>3 DEF Entry, IsEntry
  <2>2. Len(<<>>) = 0 /\ SubSeq(<<>>, 1, 0) = <<>>
      OBVIOUS
  <2>3. <<>> \in Names
      BY DEF Names
  <2> QED BY <1>1, <1>3, <2>1, <2>2, <2>3 DEF At
<1> QED BY <1>2, <1>3

\* One element more.
LEMMA AtNext ==
    ASSUME NEW F \in Seq(File), NEW n, IsEntry(F, n), NEW i \in Nat, i < Len(Entry(F, n))
    PROVE  LET g == At(F, n, i + 1) IN
           /\ n \in 1 .. Len(F) /\ At(F, n, i) \in Names /\ g \in Names /\ g # <<>>
           /\ Entry(F, n)[i + 1] \in Text /\ g = Append(At(F, n, i), Entry(F, n)[i + 1])
           /\ \A e \in Names : Seen(F, n, i + 1, e) <=> Seen(F, n, i, e) \/ e = g
           /\ Seen(F, n, i, At(F, n, i))
           /\ ~Seen(F, n, i, g) => FirstAt(F, g, n)
           /\ FirstAt(F, g, n) => HasType(F, g, TypeAt(F, n, i + 1))
           /\ F[n].elements = g <=> i + 1 = Len(F[n].elements)
<1> DEFINE f == F[n].elements
           d == At(F, n, i)
           g == At(F, n, i + 1)
           h == Append(SubSeq(f, 1, i), f[i + 1])
<1>1. n \in 1 .. Len(F) /\ Entry(F, n) = f
  <2>1. n \in 1 .. Len(F)
      BY EntryIs
  <2> QED BY <2>1, EntryIs
<1>2. f \in Names /\ i < Len(f)
    BY <1>1, FileNames
<1>3. d = SubSeq(f, 1, i) /\ g = SubSeq(f, 1, i + 1)
    BY <1>1 DEF At
<1>4. \A e \in Names : Seen(F, n, i + 1, e) <=> Seen(F, n, i, e) \/ e = h
    BY <1>1, <1>2, SeenMore
<1>5. \A e \in Names : \A r : e # <<>> /\ IsPrefix(e, f) /\ ~Seen(F, n, r, e) => FirstAt(F, e, n)
    BY <1>1, SeenMore
<1> HIDE DEF f
<1>6. /\ SubSeq(f, 1, i) \in Names /\ f[i + 1] \in Text /\ Len(SubSeq(f, 1, i)) = i
      /\ IsPrefix(SubSeq(f, 1, i), f)
      /\ h \in Names /\ IsPrefix(h, f) /\ h # <<>> /\ h = SubSeq(f, 1, i + 1)
      /\ h = f <=> i + 1 = Len(f)
    BY <1>2, PrefixStep
<1> HIDE DEF h, d, g
<1>7. g = h /\ g \in Names /\ IsPrefix(g, f) /\ g # <<>> /\ (g = f <=> i + 1 = Len(f))
    BY <1>3, <1>6
<1>8. d \in Names /\ Len(d) = i /\ IsPrefix(d, f)
    BY <1>3, <1>6
<1>9. Seen(F, n, i, d)
  <2>1. Len(d) <= i
      BY <1>8
  <2> QED BY <1>1, <1>8, <2>1 DEF Seen, f
<1>10. ~Seen(F, n, i, g) => FirstAt(F, g, n)
    BY <1>5, <1>7
<1>11. ASSUME FirstAt(F, g, n) PROVE HasType(F, g, TypeAt(F, n, i + 1))
  <2>1. TypeAt(F, n, i + 1) = IF F[n].elements = g THEN TypeOfFlag(F[n].flag) ELSE "DIRECTORY"
      BY <1>7 DEF TypeAt, f
  <2> QED BY <1>1, <1>7, <1>11, <2>1 DEF HasType
<1>12. g = Append(d, f[i + 1])
    BY <1>3, <1>7 DEF h
<1>13. \A e \in Names : Seen(F, n, i + 1, e) <=> Seen(F, n, i, e) \/ e = g
    BY <1>4, <1>7
<1>14. F[n].elements = g <=> i + 1 = Len(F[n].elements)
    BY <1>7 DEF f
<1> QED BY <1>1, <1>6, <1>7, <1>8, <1>9, <1>10, <1>11, <1>12, <1>13, <1>14 DEF d, g

\* D gives each path its inode, H are the inodes in the table, T their types,
\* O their functions, S the headers of the files, c is inode_counter.  Paths
\* lead to what boot has met; what opens as a file is that file; with room
\* everything that was met is found; and e leads to the inode id, if it is
\* in the table.
Reaches(F, n, r, D) == \A e \in Names : D[e] # ID_INVALID => Seen(F, n, r, e)
Opens(F, k, D, O, S) == \A e \in Names :
    O[D[e]] = "none" \/ (O[D[e]] = "initrd" /\ FileAt(F, k, e, S[D[e]]))
Finds(F, n, r, D, H, T) == \A e \in Names :
    Seen(F, n, r, e) => D[e] \in H /\ HasType(F, e, T[D[e]])
Leads(D, H, e, id) == (D[e] = id \/ D[e] = ID_INVALID) /\ (id \in H => D[e] = id)

ReadAs(F, n, r, id, k, c, D, H, T, O, S) ==
    /\ Reaches(F, n, r, D) /\ Opens(F, k, D, O, S)
    /\ c <= HASHTABLE_CAPACITY => Finds(F, n, r, D, H, T)
    /\ Leads(D, H, At(F, n, r), id)

\* The inode that boot has made for the next element.
NewAs(F, n, i, id, H, T, O) == id \in H =>
    /\ O[id] = "none" /\ T[id] = TypeAt(F, n, i + 1)
    /\ FirstAt(F, At(F, n, i + 1), n)

\* A new root: nothing is below it yet.
Bare(root, c, D, H, T, O) ==
    /\ D[<<>>] = root /\ \A e \in Names : e # <<>> => D[e] = ID_INVALID
    /\ O[root] = "none" /\ O[ID_INVALID] = "none"
    /\ c <= HASHTABLE_CAPACITY => root \in H /\ T[root] = "DIRECTORY"

LEMMA ReadStart ==
    ASSUME NEW F \in Seq(File), NEW root, NEW k, NEW c, NEW D, NEW H, NEW T, NEW O, NEW S,
           Bare(root, c, D, H, T, O), NEW one, one = 1, NEW z, z = 0
    PROVE  IsEntry(F, one) /\ ReadAs(F, one, z, root, k, c, D, H, T, O, S)
<1> USE DEF Bare
<1>1. IsEntry(F, 1)
  <2>1. Len(F) \in Nat /\ (Len(F) = 0 => F = <<>>)
      OBVIOUS
  <2> QED BY <2>1 DEF IsEntry
<1>2. At(F, 1, 0) = <<>>
    BY <1>1, EntryIs
<1>3. ASSUME NEW e \in Names PROVE Seen(F, 1, 0, e) <=> e = <<>>
  <2>1. 1 .. 1 - 1 = {}
      OBVIOUS
  <2>2. Len(e) \in Nat /\ (Len(e) = 0 => e = <<>>)
      BY DEF Names
  <2>3. Len(e) <= 0 => e = <<>>
      BY <2>2
  <2> QED BY <2>1, <2>3 DEF Seen
<1>4. Reaches(F, one, z, D)
    BY <1>3 DEF Reaches
<1>5. Opens(F, k, D, O, S)
  <2>1. \A e \in Names : O[D[e]] = "none"
      BY Zenon
  <2> QED BY <2>1 DEF Opens
<1>6. ASSUME c <= HASHTABLE_CAPACITY PROVE Finds(F, one, z, D, H, T)
  <2>1. \A type : type = "DIRECTORY" => HasType(F, <<>>, type)
      BY DEF HasType
  <2>2. \A e \in Names : Seen(F, one, z, e) => e = <<>>
      BY <1>3
  <2> QED BY <1>6, <2>1, <2>2, Zenon DEF Finds
<1>7. Leads(D, H, At(F, one, z), root)
    BY <1>2 DEF Leads
<1> QED BY <1>1, <1>4, <1>5, <1>6, <1>7 DEF ReadAs

\* A step that changes nothing at the end of any path.
KeptAs(D, H, T, O, S, G, U, P, R) ==
    \A e \in Names : /\ D[e] \in H => D[e] \in G /\ U[D[e]] = T[D[e]]
                     /\ P[D[e]] = O[D[e]] /\ R[D[e]] = S[D[e]]

LEMMA ReadKept ==
    ASSUME NEW F, NEW n, NEW r, NEW id, NEW k, NEW c, NEW D, NEW H, NEW T, NEW O, NEW S,
           ReadAs(F, n, r, id, k, c, D, H, T, O, S), NEW b, NEW G, NEW U, NEW P, NEW R,
           KeptAs(D, H, T, O, S, G, U, P, R), id \in G => id \in H, b <= HASHTABLE_CAPACITY => c <= HASHTABLE_CAPACITY
    PROVE  ReadAs(F, n, r, id, k, b, D, G, U, P, R)
<1> USE DEF KeptAs
<1>1. Reaches(F, n, r, D)
    BY DEF ReadAs
<1>2. Opens(F, k, D, P, R)
    BY Zenon DEF ReadAs, Opens
<1>3. ASSUME b <= HASHTABLE_CAPACITY PROVE Finds(F, n, r, D, G, U)
  <2>1. Finds(F, n, r, D, H, T)
      BY <1>3 DEF ReadAs
  <2> QED BY <2>1, Zenon DEF Finds
<1>4. Leads(D, G, At(F, n, r), id)
    BY DEF ReadAs, Leads
<1> QED BY <1>1, <1>2, <1>3, <1>4 DEF ReadAs

\* One element more, whose path leads somewhere already.
LEMMA ReadDown ==
    ASSUME NEW F \in Seq(File), NEW n, IsEntry(F, n), NEW i \in Nat, i < Len(Entry(F, n)),
           NEW id, NEW k, NEW c, NEW D, NEW H, NEW T, NEW O, NEW S,
           ReadAs(F, n, i, id, k, c, D, H, T, O, S),
           NEW m, m = i + 1, NEW j, D[At(F, n, m)] = j, j # ID_INVALID
    PROVE  ReadAs(F, n, m, j, k, c, D, H, T, O, S)
<1> DEFINE g == At(F, n, m)
<1>1. g \in Names /\ \A e \in Names : Seen(F, n, m, e) <=> Seen(F, n, i, e) \/ e = g
    BY AtNext
<1> HIDE DEF g
<1>2. \A e \in Names : D[e] # ID_INVALID => Seen(F, n, i, e)
    BY DEF ReadAs, Reaches
<1>3. Seen(F, n, i, g)
    BY <1>1, <1>2 DEF g
<1>4. \A e \in Names : Seen(F, n, m, e) <=> Seen(F, n, i, e)
    BY <1>1, <1>3
<1>5. Reaches(F, n, m, D)
    BY <1>2, <1>4 DEF Reaches
<1>6. ASSUME c <= HASHTABLE_CAPACITY PROVE Finds(F, n, m, D, H, T)
  <2>1. Finds(F, n, i, D, H, T)
      BY <1>6 DEF ReadAs
  <2> QED BY <2>1, <1>4, Zenon DEF Finds
<1>7. Leads(D, H, At(F, n, m), j)
    BY DEF Leads
<1> QED BY <1>5, <1>6, <1>7 DEF ReadAs

\* A new element is mounted in the inode of its directory, or nowhere
\* because that one is not in the table.
MountsAs(g, d, id, D, H, E) ==
    \/ \A e \in Names : E[e] = IF e = g THEN id ELSE D[e]
    \/ (\A e \in Names : E[e] = D[e]) /\ d \notin H /\ D[g] = ID_INVALID

LEMMA ReadMounted ==
    ASSUME NEW F \in Seq(File), NEW n, IsEntry(F, n), NEW i \in Nat, i < Len(Entry(F, n)),
           NEW d, NEW k, NEW c, NEW D, NEW H, NEW T, NEW O, NEW S,
           ReadAs(F, n, i, d, k, c, D, H, T, O, S),
           NEW id, NewAs(F, n, i, id, H, T, O), id \notin H => O[id] = "none",
           id \in H <=> c <= HASHTABLE_CAPACITY, ID_INVALID \notin H, NEW E,
           NEW m, m = i + 1, MountsAs(At(F, n, m), d, id, D, H, E)
    PROVE  ReadAs(F, n, m, id, k, c, E, H, T, O, S)
<1> DEFINE g == At(F, n, m)
           f == At(F, n, i)
<1> USE DEF MountsAs
<1>1. /\ g \in Names /\ \A e \in Names : Seen(F, n, m, e) <=> Seen(F, n, i, e) \/ e = g
      /\ f \in Names /\ Seen(F, n, i, f)
    BY AtNext
<1>2. \A type : FirstAt(F, g, n) /\ type = TypeAt(F, n, m) => HasType(F, g, type)
    BY AtNext
<1>3. NewAs(F, n, i, id, H, T, O) <=> (id \in H => /\ O[id] = "none" /\ T[id] = TypeAt(F, n, m)
                                                   /\ FirstAt(F, g, n))
    BY Zenon DEF NewAs
<1> HIDE DEF g, f
<1>4. \A e \in Names : D[e] # ID_INVALID => Seen(F, n, i, e)
    BY DEF ReadAs, Reaches
<1>5. CASE \A e \in Names : E[e] = IF e = g THEN id ELSE D[e]
  <2>1. Reaches(F, n, m, E)
      BY <1>1, <1>4, <1>5 DEF Reaches
  <2>2. Opens(F, k, E, O, S)
    <3>1. ASSUME NEW e \in Names, e # g
          PROVE  O[E[e]] = "none" \/ (O[E[e]] = "initrd" /\ FileAt(F, k, e, S[E[e]]))
      <4>1. E[e] = D[e]
          BY <1>5, <3>1
      <4> QED BY <4>1 DEF ReadAs, Opens
    <3>2. E[g] = id /\ O[id] = "none"
        BY <1>1, <1>3, <1>5
    <3> QED BY <3>1, <3>2 DEF Opens
  <2>3. ASSUME c <= HASHTABLE_CAPACITY PROVE Finds(F, n, m, E, H, T)
    <3>1. Finds(F, n, i, D, H, T)
        BY <2>3 DEF ReadAs
    <3>2. id \in H /\ HasType(F, g, T[id])
        BY <1>2, <1>3, <2>3
    <3>3. ASSUME NEW e \in Names, Seen(F, n, m, e) PROVE E[e] \in H /\ HasType(F, e, T[E[e]])
      <4>1. CASE e = g
        <5>1. E[e] = id
            BY <1>5, <4>1
        <5> QED BY <3>2, <4>1, <5>1
      <4>2. CASE e # g
        <5>1. E[e] = D[e] /\ Seen(F, n, i, e)
            BY <1>1, <1>5, <3>3, <4>2
        <5> QED BY <3>1, <5>1 DEF Finds
      <4> QED BY <4>1, <4>2
    <3> QED BY <3>3 DEF Finds
  <2>4. Leads(E, H, At(F, n, m), id)
    <3>1. E[g] = id
        BY <1>1, <1>5
    <3> QED BY <3>1 DEF Leads, g
  <2> QED BY <2>1, <2>2, <2>3, <2>4 DEF ReadAs
<1>6. CASE /\ \A e \in Names : E[e] = D[e]
           /\ d \notin H /\ ID_INVALID \notin H /\ D[g] = ID_INVALID
  <2>1. ~(c <= HASHTABLE_CAPACITY)
    <3>1. SUFFICES ASSUME c <= HASHTABLE_CAPACITY PROVE FALSE
        OBVIOUS
    <3>2. Finds(F, n, i, D, H, T)
        BY <3>1 DEF ReadAs
    <3>3. D[f] \in H
        BY <1>1, <3>2 DEF Finds
    <3>4. D[f] = d \/ D[f] = ID_INVALID
        BY DEF ReadAs, Leads, f
    <3> QED BY <1>6, <3>3, <3>4
  <2>2. Reaches(F, n, m, E)
      BY <1>1, <1>4, <1>6 DEF Reaches
  <2>3. Opens(F, k, E, O, S)
    <3>1. Opens(F, k, D, O, S)
        BY DEF ReadAs
    <3> QED BY <1>6, <3>1, Zenon DEF Opens
  <2>4. Leads(E, H, At(F, n, m), id)
    <3>1. E[g] = ID_INVALID
        BY <1>1, <1>6
    <3> QED BY <2>1, <3>1 DEF Leads, g
  <2> QED BY <2>1, <2>2, <2>3, <2>4 DEF ReadAs
<1> QED BY <1>5, <1>6 DEF g

\* A regular file gets the functions of initrd files and its header.
WritesAs(g, id, type, item, D, H, T, O, S, U, P, R) ==
    /\ P[id] = IF id \in H THEN IF type = "NORMAL_FILE" THEN "initrd" ELSE "none" ELSE "none"
    /\ id \in H /\ type = "NORMAL_FILE" => R[id] = item
    /\ \A e \in Names : /\ D[e] = id /\ id \in H => e = g
                        /\ D[e] # id => P[D[e]] = O[D[e]] /\ R[D[e]] = S[D[e]]
                        /\ D[e] \in H => U[D[e]] = T[D[e]]

LEMMA ReadWritten ==
    ASSUME NEW F \in Seq(File), NEW n, IsEntry(F, n), NEW i \in Nat, i < Len(Entry(F, n)),
           NEW id, NEW k, NEW c, NEW D, NEW H, NEW T, NEW O, NEW S,
           NEW m, m = i + 1,
           ReadAs(F, n, m, id, k, c, D, H, T, O, S), NewAs(F, n, i, id, H, T, O),
           NEW U, NEW P, NEW R,
           WritesAs(At(F, n, m), id, TypeAt(F, n, m), <<<<k, Pos(F, n)>>>>, D, H, T, O, S, U, P, R)
    PROVE  ReadAs(F, n, m, id, k, c, D, H, U, P, R)
<1> DEFINE g == At(F, n, m)
<1> USE DEF WritesAs
<1>1. /\ g \in Names /\ n \in 1 .. Len(F)
      /\ F[n].elements = g <=> m = Len(F[n].elements)
    BY AtNext
<1> HIDE DEF g
<1>2. Reaches(F, n, m, D)
    BY DEF ReadAs
<1>3. ASSUME c <= HASHTABLE_CAPACITY PROVE Finds(F, n, m, D, H, U)
  <2>1. Finds(F, n, m, D, H, T)
      BY <1>3 DEF ReadAs
  <2> QED BY <2>1, Zenon DEF Finds
<1>4. Leads(D, H, At(F, n, m), id)
    BY DEF ReadAs
<1>5. ASSUME NEW e \in Names
      PROVE  P[D[e]] = "none" \/ (P[D[e]] = "initrd" /\ FileAt(F, k, e, R[D[e]]))
  <2>1. CASE D[e] # id
    <3>1. P[D[e]] = O[D[e]] /\ R[D[e]] = S[D[e]]
        BY <2>1
    <3> QED BY <3>1 DEF ReadAs, Opens
  <2>2. CASE D[e] = id /\ P[id] # "none"
    <3>1. id \in H /\ TypeAt(F, n, m) = "NORMAL_FILE" /\ P[id] = "initrd"
        BY <2>2
    <3>2. e = g /\ R[id] = <<<<k, Pos(F, n)>>>>
        BY <2>2, <3>1 DEF g
    <3>3. m = Len(F[n].elements)
        BY <3>1 DEF TypeAt
    <3>4. FirstAt(F, g, n)
        BY <3>1 DEF NewAs, g
    <3>5. TypeOfFlag(F[n].flag) = "NORMAL_FILE"
        BY <3>1, <3>3 DEF TypeAt
    <3>6. FileAt(F, k, e, R[id])
        BY <1>1, <3>2, <3>3, <3>4, <3>5 DEF FileAt
    <3> QED BY <2>2, <3>1, <3>6
  <2>3. CASE D[e] = id /\ P[id] = "none"
      BY <2>3
  <2> QED BY <2>1, <2>2, <2>3
<1>6. Opens(F, k, D, P, R)
    BY <1>5 DEF Opens
<1> QED BY <1>2, <1>3, <1>4, <1>6 DEF ReadAs

\* All elements of a name were read: the next name begins at the root.
LEMMA ReadNext ==
    ASSUME NEW F \in Seq(File), NEW n, IsEntry(F, n), n < Len(F),
           NEW id, NEW k, NEW c, NEW D, NEW H, NEW T, NEW O, NEW S,
           ReadAs(F, n, Len(Entry(F, n)), id, k, c, D, H, T, O, S), NEW root, D[<<>>] = root,
           NEW m, m = n + 1, NEW z, z = 0
    PROVE  IsEntry(F, m) /\ ReadAs(F, m, z, root, k, c, D, H, T, O, S)
<1>1. n \in 1 .. Len(F) /\ n + 1 \in 1 .. Len(F) /\ IsEntry(F, n + 1)
  <2>1. Len(F) \in Nat /\ (F = <<>> => Len(F) = 0)
      OBVIOUS
  <2>2. n \in 1 .. Len(F)
      BY <2>1 DEF IsEntry
  <2>3. n + 1 \in 1 .. Len(F)
      BY <2>1, <2>2
  <2> QED BY <2>2, <2>3 DEF IsEntry
<1>2. At(F, n + 1, 0) = <<>>
    BY <1>1, EntryIs
<1> DEFINE r == Len(Entry(F, n))
<1>3. \A e \in Names : Seen(F, n, r, e) <=> Seen(F, m, z, e)
  <2>1. Entry(F, n) = F[n].elements
      BY <1>1, EntryIs
  <2> QED BY <1>1, <2>1, SeenMore
<1> HIDE DEF r
<1>4. Reaches(F, m, z, D)
    BY <1>3 DEF ReadAs, Reaches, r
<1>5. Opens(F, k, D, O, S)
    BY DEF ReadAs
<1>6. ASSUME c <= HASHTABLE_CAPACITY PROVE Finds(F, m, z, D, H, T)
  <2>1. Finds(F, n, r, D, H, T)
      BY <1>6 DEF ReadAs, r
  <2> QED BY <2>1, <1>3, Zenon DEF Finds
<1>7. Leads(D, H, At(F, m, z), root)
    BY <1>2 DEF Leads
<1> QED BY <1>1, <1>4, <1>5, <1>6, <1>7 DEF ReadAs

-----------------------------------------------------------------------------
(***************************************************************************)
(* The paths that boot leaves: those of the archive, and the pipes.        *)
(***************************************************************************)

\* The archive F of the last disk says that there is e; nothing is in the way
\* of the pipe q; the table had room and nothing was called.
ListedIn(F, disks, e) == IF e = <<>> THEN disks # {} ELSE SomeAt(F, e)
MountPath(q) == Elements(PipePaths[q])
Vacant(F, disks, q) == ListedIn(F, disks, Front(MountPath(q))) /\ ~ListedIn(F, disks, MountPath(q))
Fit(a, c) == a = 0 /\ c <= HASHTABLE_CAPACITY

\* M are the pipes that were mounted, P is what pipe.cpp says of an inode.
ArrivesAs(F, disks, M, D) == \A e \in Names :
    D[e] # ID_INVALID => ListedIn(F, disks, e) \/ \E q \in M : e = MountPath(q)
FilesAs(F, disks, D, O, S) == \A e \in Names :
    O[D[e]] = "initrd" => FileAt(F, Max(disks), e, S[D[e]])
PipesAs(F, disks, M, a, c, D, O, P) == \A e \in Names : O[D[e]] = "pipe" =>
    \E q \in M : e = MountPath(q) /\ P[D[e]] = <<q>> /\ (Fit(a, c) => Vacant(F, disks, q))
FoundAs(F, disks, D, H, T) == \A e \in Names :
    ListedIn(F, disks, e) => D[e] \in H /\ HasType(F, e, T[D[e]])
MountedAs(F, disks, M, D, O) == \A q \in M :
    Vacant(F, disks, q) => O[D[MountPath(q)]] = "pipe"

AfterAs(F, disks, M, a, c, D, H, T, O, S, P) ==
    /\ ArrivesAs(F, disks, M, D) /\ FilesAs(F, disks, D, O, S)
    /\ PipesAs(F, disks, M, a, c, D, O, P)
    /\ Fit(a, c) => FoundAs(F, disks, D, H, T) /\ MountedAs(F, disks, M, D, O)

\* The last archive was read to its end, or there was none.
LEMMA AfterRead ==
    ASSUME NEW F \in Seq(File), NEW n, IsEntry(F, n), ~(n < Len(F)),
           NEW id, NEW k, NEW c, NEW D, NEW H, NEW T, NEW O, NEW S,
           ReadAs(F, n, Len(Entry(F, n)), id, k, c, D, H, T, O, S),
           NEW disks, disks # {}, k = Max(disks), NEW a, NEW P
    PROVE  AfterAs(F, disks, {}, a, c, D, H, T, O, S, P)
<1> DEFINE r == Len(Entry(F, n))
           none == {}
<1>1. \A e \in Names : Seen(F, n, r, e) <=> ListedIn(F, disks, e)
  <2>1. CASE n \in 1 .. Len(F)
    <3>1. n = Len(F)
        BY <2>1
    <3>2. Entry(F, n) = F[n].elements
        BY <2>1, EntryIs
    <3>3. \A e \in Names : Seen(F, n, r, e) <=> e = <<>> \/ SomeAt(F, e)
        BY <2>1, <3>1, <3>2, SeenMore
    <3> QED BY <3>3 DEF ListedIn
  <2>2. CASE n \notin 1 .. Len(F)
    <3>1. n = 1 /\ F = <<>>
        BY <2>2 DEF IsEntry
    <3>2. 1 .. Len(F) = {} /\ 1 .. n - 1 = {}
        BY <3>1
    <3> QED BY <3>2 DEF Seen, ListedIn, SomeAt
  <2> QED BY <2>1, <2>2
<1> HIDE DEF r, none
<1>2. ArrivesAs(F, disks, none, D)
    BY <1>1 DEF ReadAs, Reaches, ArrivesAs, r
<1>3. \A e \in Names : O[D[e]] = "none" \/ (O[D[e]] = "initrd" /\ FileAt(F, k, e, S[D[e]]))
    BY DEF ReadAs, Opens
<1>4. FilesAs(F, disks, D, O, S)
    BY <1>3 DEF FilesAs
<1>5. PipesAs(F, disks, none, a, c, D, O, P)
    BY <1>3 DEF PipesAs
<1>6. ASSUME c <= HASHTABLE_CAPACITY PROVE FoundAs(F, disks, D, H, T)
  <2>1. Finds(F, n, r, D, H, T)
      BY <1>6 DEF ReadAs, r
  <2> QED BY <2>1, <1>1, Zenon DEF Finds, FoundAs
<1>7. MountedAs(F, disks, none, D, O)
    BY DEF MountedAs, none
<1> QED BY <1>2, <1>4, <1>5, <1>6, <1>7 DEF AfterAs, Fit, none

LEMMA AfterNothing ==
    ASSUME NEW c, NEW D, NEW H, NEW T, NEW O, NEW S, NEW a, NEW P,
           \A e \in Names : D[e] = ID_INVALID, O[ID_INVALID] = "none"
    PROVE  AfterAs(<<>>, {}, {}, a, c, D, H, T, O, S, P)
<1> DEFINE none == {}
           F == <<>>
<1>1. \A e \in Names : ~ListedIn(F, none, e)
    BY DEF ListedIn, SomeAt
<1> HIDE DEF none, F
<1>2. \A e \in Names : O[D[e]] = "none"
    BY Zenon
<1>3. ArrivesAs(F, none, none, D) /\ FilesAs(F, none, D, O, S) /\ PipesAs(F, none, none, a, c, D, O, P)
    BY <1>2 DEF ArrivesAs, FilesAs, PipesAs
<1>4. FoundAs(F, none, D, H, T) /\ MountedAs(F, none, none, D, O)
    BY <1>1 DEF FoundAs, MountedAs, none
<1> QED BY <1>3, <1>4 DEF AfterAs, none, F

\* A step that ends paths or takes functions away; it changes nothing else
\* as long as the table has room and no exported function was called.
ClosesAs(D, O, E, Q) == Q[ID_INVALID] = "none" /\ \A e \in Names :
    \/ E[e] = ID_INVALID
    \/ E[e] = D[e] /\ (Q[D[e]] = O[D[e]] \/ Q[D[e]] = "none")
StaysAs(D, H, T, O, E, G, U, Q) == \A e \in Names :
    /\ E[e] = D[e] /\ Q[D[e]] = O[D[e]]
    /\ D[e] \in H => D[e] \in G /\ U[D[e]] = T[D[e]]

LEMMA AfterKept ==
    ASSUME NEW F, NEW disks, NEW M, NEW a, NEW c, NEW D, NEW H, NEW T, NEW O, NEW S, NEW P,
           AfterAs(F, disks, M, a, c, D, H, T, O, S, P), \A q \in M : MountPath(q) \in Names,
           NEW b, NEW d, NEW E, NEW G, NEW U, NEW Q, ClosesAs(D, O, E, Q),
           Fit(b, d) => Fit(a, c) /\ StaysAs(D, H, T, O, E, G, U, Q)
    PROVE  AfterAs(F, disks, M, b, d, E, G, U, Q, S, P)
<1> USE DEF ClosesAs, StaysAs
<1>1. ArrivesAs(F, disks, M, E)
    BY DEF AfterAs, ArrivesAs
<1>2. \A e \in Names : Q[E[e]] = "none" \/ (E[e] = D[e] /\ Q[E[e]] = O[D[e]])
    BY Zenon
<1>3. FilesAs(F, disks, E, Q, S)
  <2>1. FilesAs(F, disks, D, O, S)
      BY DEF AfterAs
  <2>2. ASSUME NEW e \in Names, Q[E[e]] = "initrd" PROVE FileAt(F, Max(disks), e, S[E[e]])
    <3>1. E[e] = D[e] /\ O[D[e]] = "initrd"
        BY <1>2, <2>2
    <3> QED BY <2>1, <3>1, Zenon DEF FilesAs
  <2> QED BY <2>2 DEF FilesAs
<1>4. PipesAs(F, disks, M, b, d, E, Q, P)
  <2>1. PipesAs(F, disks, M, a, c, D, O, P)
      BY DEF AfterAs
  <2>2. ASSUME NEW e \in Names, Q[E[e]] = "pipe"
        PROVE  \E q \in M : e = MountPath(q) /\ P[E[e]] = <<q>> /\ (Fit(b, d) => Vacant(F, disks, q))
    <3>1. E[e] = D[e] /\ O[D[e]] = "pipe"
        BY <1>2, <2>2
    <3>2. \E q \in M : e = MountPath(q) /\ P[D[e]] = <<q>> /\ (Fit(a, c) => Vacant(F, disks, q))
        BY <2>1, <3>1 DEF PipesAs
    <3> QED BY <3>1, <3>2
  <2> QED BY <2>2 DEF PipesAs
<1>5. ASSUME Fit(b, d) PROVE FoundAs(F, disks, E, G, U) /\ MountedAs(F, disks, M, E, Q)
  <2>1. Fit(a, c) /\ \A e \in Names : /\ E[e] = D[e] /\ Q[D[e]] = O[D[e]]
                                      /\ D[e] \in H => D[e] \in G /\ U[D[e]] = T[D[e]]
      BY <1>5
  <2>2. FoundAs(F, disks, D, H, T) /\ MountedAs(F, disks, M, D, O)
      BY <2>1 DEF AfterAs
  <2>3. FoundAs(F, disks, E, G, U)
      BY <2>1, <2>2, Zenon DEF FoundAs
  <2>4. MountedAs(F, disks, M, E, Q)
    <3>1. ASSUME NEW q \in M, Vacant(F, disks, q) PROVE Q[E[MountPath(q)]] = "pipe"
      <4>1. O[D[MountPath(q)]] = "pipe"
          BY <2>2, <3>1 DEF MountedAs
      <4> QED BY <2>1, <4>1
    <3> QED BY <3>1 DEF MountedAs
  <2> QED BY <2>3, <2>4
<1> QED BY <1>1, <1>3, <1>4, <1>5 DEF AfterAs

\* The pipe k was mounted as the inode id, unless there is no directory, or
\* something else is found first.
PipedAs(p, k, id, D, H, O, P, E, Q) ==
    /\ O[id] = IF id \in H THEN "pipe" ELSE "none"
    /\ \A e \in Names : D[e] # id /\ Q[D[e]] = P[D[e]]
    /\ id \in H => Q[id] = <<k>>
    /\ \/ /\ \A e \in Names : E[e] = IF e = p THEN id ELSE D[e]
          /\ D[Front(p)] # ID_INVALID /\ D[p] = ID_INVALID
       \/ /\ \A e \in Names : E[e] = D[e]
          /\ D[Front(p)] \notin H \/ D[p] # ID_INVALID

LEMMA AfterMounted ==
    ASSUME NEW F, NEW disks, NEW M, NEW a, NEW c, NEW D, NEW H, NEW T, NEW O, NEW S, NEW P,
           AfterAs(F, disks, M, a, c, D, H, T, O, S, P), ID_INVALID \notin H,
           NEW k \in 1 .. Len(PipePaths), M \subseteq 1 .. Len(PipePaths) \ {k}, NEW id,
           Fit(a, c) => id \in H, NEW E, NEW Q,
           PipedAs(MountPath(k), k, id, D, H, O, P, E, Q)
    PROVE  AfterAs(F, disks, M \cup {k}, a, c, E, H, T, O, S, Q)
<1> DEFINE p == MountPath(k)
           f == Front(p)
           N == M \cup {k}
<1> USE DEF PipedAs
<1>1. p \in Names /\ f \in Names
    BY PipeNames DEF MountPath
<1>2. \A q \in M : MountPath(q) \in Names /\ p # MountPath(q) /\ f # MountPath(q)
    BY PipeNames, PipeAssumption DEF MountPath
<1>3. /\ ArrivesAs(F, disks, M, D) /\ FilesAs(F, disks, D, O, S) /\ PipesAs(F, disks, M, a, c, D, O, P)
      /\ Fit(a, c) => FoundAs(F, disks, D, H, T) /\ MountedAs(F, disks, M, D, O)
    BY DEF AfterAs
<1>4. Vacant(F, disks, k) <=> ListedIn(F, disks, f) /\ ~ListedIn(F, disks, p)
    BY DEF Vacant
<1>5. k \in N /\ \A q \in M : q \in N
    OBVIOUS
<1>6. \A q \in N : q = k \/ q \in M
    OBVIOUS
<1>7. M \subseteq N
    BY <1>5
<1> HIDE DEF f, N
<1>8. CASE /\ \A e \in Names : E[e] = IF e = p THEN id ELSE D[e]
           /\ D[f] # ID_INVALID /\ D[p] = ID_INVALID
  <2>1. E[p] = id /\ \A e \in Names : e # p => E[e] = D[e]
      BY <1>1, <1>8
  <2>2. Fit(a, c) => Vacant(F, disks, k)
    <3>1. ListedIn(F, disks, f)
        BY <1>1, <1>2, <1>3, <1>8 DEF ArrivesAs
    <3>2. ASSUME Fit(a, c), ListedIn(F, disks, p) PROVE FALSE
      <4>1. D[p] \in H
          BY <1>1, <1>3, <3>2 DEF FoundAs
      <4> QED BY <1>8, <4>1
    <3> QED BY <1>4, <3>1, <3>2
  <2> HIDE DEF p
  <2>3. ArrivesAs(F, disks, N, E)
    <3>1. ASSUME NEW e \in Names, E[e] # ID_INVALID
          PROVE  ListedIn(F, disks, e) \/ \E q \in N : e = MountPath(q)
      <4>1. CASE e = p
          BY <4>1, <1>5 DEF p
      <4>2. CASE e # p
        <5>1. D[e] # ID_INVALID
            BY <2>1, <3>1, <4>2
        <5> QED BY <1>3, <1>7, <5>1 DEF ArrivesAs
      <4> QED BY <4>1, <4>2
    <3> QED BY <3>1 DEF ArrivesAs
  <2>4. FilesAs(F, disks, E, O, S)
    <3>1. ASSUME NEW e \in Names, O[E[e]] = "initrd" PROVE FileAt(F, Max(disks), e, S[E[e]])
      <4>1. e # p
        <5>1. O[id] = "pipe" \/ O[id] = "none"
            OBVIOUS
        <5> QED BY <2>1, <3>1, <5>1
      <4>2. E[e] = D[e]
          BY <2>1, <4>1
      <4> QED BY <1>3, <3>1, <4>2, Zenon DEF FilesAs
    <3> QED BY <3>1 DEF FilesAs
  <2>5. PipesAs(F, disks, N, a, c, E, O, Q)
    <3>1. ASSUME NEW e \in Names, O[E[e]] = "pipe"
          PROVE  \E q \in N : e = MountPath(q) /\ Q[E[e]] = <<q>> /\ (Fit(a, c) => Vacant(F, disks, q))
      <4>1. CASE e = p
        <5>1. E[e] = id /\ id \in H
            BY <2>1, <3>1, <4>1
        <5>2. Q[E[e]] = <<k>> /\ e = MountPath(k)
            BY <4>1, <5>1 DEF p
        <5> QED BY <1>5, <2>2, <5>2
      <4>2. CASE e # p
        <5>1. E[e] = D[e] /\ O[D[e]] = "pipe" /\ Q[E[e]] = P[D[e]]
            BY <2>1, <3>1, <4>2
        <5>2. \E q \in M : e = MountPath(q) /\ P[D[e]] = <<q>> /\ (Fit(a, c) => Vacant(F, disks, q))
            BY <1>3, <5>1 DEF PipesAs
        <5> QED BY <1>7, <5>1, <5>2
      <4> QED BY <4>1, <4>2
    <3> QED BY <3>1 DEF PipesAs
  <2>6. ASSUME Fit(a, c) PROVE FoundAs(F, disks, E, H, T) /\ MountedAs(F, disks, N, E, O)
    <3>1. FoundAs(F, disks, D, H, T) /\ MountedAs(F, disks, M, D, O) /\ id \in H
        BY <1>3, <2>6
    <3>2. ~ListedIn(F, disks, p)
        BY <1>4, <2>2, <2>6
    <3>3. \A e \in Names : ListedIn(F, disks, e) => E[e] = D[e]
        BY <2>1, <3>2
    <3>4. FoundAs(F, disks, E, H, T)
        BY <3>1, <3>3, Zenon DEF FoundAs
    <3>5. ASSUME NEW q \in N, Vacant(F, disks, q) PROVE O[E[MountPath(q)]] = "pipe"
      <4>1. CASE q = k
        <5>1. MountPath(q) = p
            BY <4>1 DEF p
        <5> QED BY <2>1, <3>1, <5>1
      <4>2. CASE q \in M
        <5>1. E[MountPath(q)] = D[MountPath(q)]
            BY <1>2, <2>1, <4>2
        <5>2. O[D[MountPath(q)]] = "pipe"
            BY <3>1, <3>5, <4>2 DEF MountedAs
        <5> QED BY <5>1, <5>2
      <4> QED BY <1>6, <4>1, <4>2
    <3> QED BY <3>4, <3>5 DEF MountedAs
  <2> QED BY <2>3, <2>4, <2>5, <2>6 DEF AfterAs, N
<1>9. CASE /\ \A e \in Names : E[e] = D[e]
           /\ D[f] \notin H \/ D[p] # ID_INVALID
  <2>1. Fit(a, c) => ~Vacant(F, disks, k)
    <3>1. SUFFICES ASSUME Fit(a, c), ListedIn(F, disks, f), ~ListedIn(F, disks, p) PROVE FALSE
        BY <1>4
    <3>2. D[f] \in H
        BY <1>1, <1>3, <3>1 DEF FoundAs
    <3>3. D[p] = ID_INVALID
        BY <1>1, <1>2, <1>3, <3>1 DEF ArrivesAs
    <3> QED BY <1>9, <3>2, <3>3
  <2> HIDE DEF p
  <2>2. ArrivesAs(F, disks, N, E)
      BY <1>3, <1>7, <1>9 DEF ArrivesAs
  <2>3. FilesAs(F, disks, E, O, S)
      BY <1>3, <1>9, Zenon DEF FilesAs
  <2>4. PipesAs(F, disks, N, a, c, E, O, Q)
    <3>1. ASSUME NEW e \in Names, O[E[e]] = "pipe"
          PROVE  \E q \in N : e = MountPath(q) /\ Q[E[e]] = <<q>> /\ (Fit(a, c) => Vacant(F, disks, q))
      <4>1. E[e] = D[e] /\ O[D[e]] = "pipe" /\ Q[E[e]] = P[D[e]]
          BY <1>9, <3>1
      <4>2. \E q \in M : e = MountPath(q) /\ P[D[e]] = <<q>> /\ (Fit(a, c) => Vacant(F, disks, q))
          BY <1>3, <4>1 DEF PipesAs
      <4> QED BY <1>7, <4>1, <4>2
    <3> QED BY <3>1 DEF PipesAs
  <2>5. ASSUME Fit(a, c) PROVE FoundAs(F, disks, E, H, T) /\ MountedAs(F, disks, N, E, O)
    <3>1. FoundAs(F, disks, D, H, T) /\ MountedAs(F, disks, M, D, O)
        BY <1>3, <2>5
    <3>2. FoundAs(F, disks, E, H, T)
        BY <3>1, <1>9, Zenon DEF FoundAs
    <3>3. ASSUME NEW q \in N, Vacant(F, disks, q) PROVE O[E[MountPath(q)]] = "pipe"
      <4>1. q \in M
          BY <1>6, <2>1, <2>5, <3>3
      <4>2. E[MountPath(q)] = D[MountPath(q)]
          BY <1>2, <1>9, <4>1
      <4>3. O[D[MountPath(q)]] = "pipe"
          BY <3>1, <3>3, <4>1 DEF MountedAs
      <4> QED BY <4>2, <4>3
    <3> QED BY <3>2, <3>3 DEF MountedAs
  <2> QED BY <2>2, <2>3, <2>4, <2>5 DEF AfterAs, N
<1> QED BY <1>8, <1>9 DEF f

-----------------------------------------------------------------------------
(* What boot reads, and where its paths lead. *)

LEMMA BlockIs ==
    ASSUME NEW k, NEW F, initrds[k] = Tar(F), NEW b
    PROVE  Block(k, b) = MemAt(Tar(F), b)
    BY DEF Block, MemAt

LEMMA HeaderIs ==
    ASSUME NEW k, NEW F \in Seq(File), initrds[k] = Tar(F), NEW n, IsEntry(F, n)
    PROVE  LET h == Block(k, Pos(F, n))
               b == NextHeader(k, Pos(F, n))
           IN  /\ Elements(h.filename) = Entry(F, n)
               /\ n \in 1 .. Len(F) => h.typeflag = F[n].flag
               /\ Block(k, b).filename = <<>> <=> ~(n < Len(F))
               /\ n < Len(F) => b = Pos(F, n + 1)
<1>1. CASE n \in 1 .. Len(F)
  <2>1. F[n] \in File /\ Entry(F, n) = F[n].elements
      BY <1>1, FileNames, EntryIs
  <2>2. Pos(F, n) \in Nat /\ Pos(F, n + 1) = Pos(F, n) + 1 + Blocks(F[n])
      BY <1>1, PosIs
  <2>3. MemAt(Tar(F), Pos(F, n)) = HeaderOf(F[n])
      BY <1>1, TarAt
  <2>4. Block(k, Pos(F, n)) = HeaderOf(F[n])
      BY <2>3, BlockIs
  <2>5. Elements(HeaderOf(F[n]).filename) = F[n].elements /\ HeaderOf(F[n]).typeflag = F[n].flag
      BY <2>1, HeaderNames
  <2>6. NextHeader(k, Pos(F, n)) = Pos(F, n + 1)
      BY <2>1, <2>2, <2>4, NextHeaderIs
  <2>7. Block(k, Pos(F, n + 1)) = MemAt(Tar(F), Pos(F, n + 1))
      BY BlockIs
  <2>8. CASE n < Len(F)
    <3>1. n + 1 \in 1 .. Len(F)
        BY <1>1, <2>8
    <3>2. MemAt(Tar(F), Pos(F, n + 1)) = HeaderOf(F[n + 1]) /\ F[n + 1] \in File
        BY <3>1, TarAt, FileNames
    <3>3. HeaderOf(F[n + 1]).filename # <<>>
        BY <3>2, HeaderNames
    <3>4. Block(k, NextHeader(k, Pos(F, n))).filename # <<>>
        BY <2>6, <2>7, <3>2, <3>3
    <3> QED BY <2>1, <2>4, <2>5, <2>6, <2>8, <3>4
  <2>9. CASE ~(n < Len(F))
    <3>1. n = Len(F)
        BY <1>1, <2>9
    <3>2. MemAt(Tar(F), Pos(F, n + 1)) = ZeroBlock
        BY <3>1, TarAt
    <3>3. Block(k, NextHeader(k, Pos(F, n))).filename = <<>>
        BY <2>6, <2>7, <3>2, HeaderNames
    <3> QED BY <2>1, <2>4, <2>5, <2>9, <3>3
  <2> QED BY <2>8, <2>9
<1>2. CASE n \notin 1 .. Len(F)
  <2>1. Entry(F, n) = <<>> /\ F = <<>> /\ n = 1
      BY <1>2, EntryIs DEF IsEntry
  <2>2. ASSUME NEW b PROVE Block(k, b) = ZeroBlock
    <3>1. F = <<>> => \A x : MemAt(Tar(F), x) = ZeroBlock
        BY TarAt
    <3>2. MemAt(Tar(F), b) = ZeroBlock
        BY <2>1, <3>1
    <3> QED BY <3>2, BlockIs
  <2>3. \A b : Block(k, b).filename = <<>>
      BY <2>2, HeaderNames
  <2>4. Elements(Block(k, Pos(F, n)).filename) = Entry(F, n)
      BY <2>1, <2>2, HeaderNames
  <2>5. ~(n < Len(F))
    <3>1. Len(F) = 0
        BY <2>1
    <3> QED BY <2>1, <3>1
  <2>6. Block(k, NextHeader(k, Pos(F, n))).filename = <<>>
      BY <2>3
  <2> QED BY <1>2, <2>4, <2>5, <2>6
<1> QED BY <1>1, <1>2

LEMMA DestNext ==
    ASSUME TypeInv
    PROVE  /\ <<>> \in Names /\ Dest[<<>>] = vfs_root
           /\ \A e \in Names, x \in Text :
                 /\ Append(e, x) \in Names
                 /\ Dest[Append(e, x)] = ChildIn(Tree(inode_table), Dest[e], x)
<1> DEFINE K == Tree(inode_table)
<1>1. K \in Trees /\ vfs_root \in AnyId
    BY TypedTree
<1>2. \A e \in Names : Dest[e] = WalkIn(K, vfs_root, e)
    BY DestIs
<1> HIDE DEF K
<1>3. WalkIn(K, vfs_root, <<>>) = vfs_root /\ <<>> \in Names
    BY <1>1, WalkEmpty
<1>4. ASSUME NEW e \in Names, NEW x \in Text
      PROVE  Append(e, x) \in Names /\ WalkIn(K, vfs_root, Append(e, x)) = ChildIn(K, WalkIn(K, vfs_root, e), x)
    BY <1>1, WalkNext
<1> QED BY <1>2, <1>3, <1>4 DEF K

LEMMA DestBelow ==
    ASSUME TypeInv, TreeInv
    PROVE  /\ \A e \in Names : Dest[e] < Bound
           /\ \A d, e \in Names : Dest[d] = Dest[e] /\ Dest[e] # ID_INVALID => d = e
<1>1. /\ Tree(inode_table) \in Trees /\ vfs_root \in AnyId /\ Bound \in Nat
      /\ Linked(Tree(inode_table), vfs_root, Bound)
    BY TypedTree DEF TreeInv
<1>2. \A e \in Names : WalkIn(Tree(inode_table), vfs_root, e) < Bound
    BY <1>1, WalkBelow
<1>3. \A d, e \in Names : WalkIn(Tree(inode_table), vfs_root, d) = WalkIn(Tree(inode_table), vfs_root, e)
          /\ WalkIn(Tree(inode_table), vfs_root, e) # ID_INVALID => d = e
    BY <1>1, WalkInjective
<1> QED BY <1>2, <1>3, DestIs

\* While boot has an inode in its hands, it is in the table if there is room.
LEMMA HeldNew ==
    ASSUME TypeInv, PackInv
    PROVE  /\ New => (boot.ninode \in Held <=> inode_counter <= HASHTABLE_CAPACITY)
           /\ New => boot.ninode \in Ids
           /\ \A id \in AnyId : Ops[id] # "none" => id \in Held
           /\ ID_INVALID \notin Held
<1>1. ASSUME New PROVE boot.ninode \in Ids /\ (boot.ninode \in Held <=> inode_counter <= HASHTABLE_CAPACITY)
  <2>1. boot.ninode \in Ids /\ boot.ninode + 1 = inode_counter /\ boot.pc # "ready"
      BY <1>1 DEF New, TypeInv, Place
  <2>2. boot.ninode \in Held <=> boot.ninode < inode_counter /\ boot.ninode < HASHTABLE_CAPACITY
      BY <2>1 DEF PackInv, Packed
  <2>3. boot.ninode \in Nat /\ HASHTABLE_CAPACITY \in Nat
      BY <2>1, Invalid, CapacityAssumption
  <2> QED BY <2>1, <2>2, <2>3
<1> QED BY <1>1, DestIs

\* How many elements of its name boot has made, and the inode it made last.
Level == IF boot.pc = "vtable" THEN boot.i + 1 ELSE boot.i
Here == IF boot.pc = "vtable" THEN boot.ninode ELSE boot.cinode

ReadsAt(F, n) ==
    /\ IsEntry(F, n) /\ boot.b = Pos(F, n)
    /\ ReadAs(F, n, Level, Here, boot.k, inode_counter, Dest, Held, Kind, Ops, Source)
    /\ boot.pc \in {"mount", "vtable"} => NewAs(F, n, boot.i, boot.ninode, Held, Kind, Ops)

\* The tree is what boot has read so far.
DiskInv == Reading => \E n \in Nat : ReadsAt(archives[boot.k], n)

LEMMA DiskOpen ==
    ASSUME TypeInv, PackInv, DiskInv, Reading
    PROVE  \E F \in Seq(File), n \in Nat :
              /\ F = archives[boot.k] /\ boot.k \in Disk /\ initrds[boot.k] = Tar(F)
              /\ ReadsAt(F, n) /\ IsEntry(F, n) /\ CurElements = Entry(F, n)
              /\ boot.i < Len(Entry(F, n)) => NewType = TypeAt(F, n, boot.i + 1)
<1> DEFINE F == archives[boot.k]
<1>1. boot.k \in Disk /\ initrds[boot.k] # <<>>
    BY CurIn DEF TypeInv, Place
<1>2. F \in Seq(File)
  <2>1. F \in Archives \cup {<<>>}
      BY <1>1 DEF TypeInv, VfsTypes
  <2> QED BY <2>1, ArchiveIn
<1>3. initrds[boot.k] = Tar(F)
    BY <1>1 DEF PackInv, Slotted
<1>4. PICK n \in Nat : ReadsAt(F, n)
    BY DEF DiskInv
<1>5. IsEntry(F, n) /\ boot.b = Pos(F, n)
    BY <1>4 DEF ReadsAt
<1> HIDE DEF F
<1>6. CurElements = Entry(F, n) /\ (n \in 1 .. Len(F) => CurHeader.typeflag = F[n].flag)
    BY <1>2, <1>3, <1>5, HeaderIs DEF CurElements, CurHeader
<1>7. ASSUME boot.i < Len(Entry(F, n)) PROVE NewType = TypeAt(F, n, boot.i + 1)
  <2>1. boot.i \in Nat
      BY CurIn
  <2>2. n \in 1 .. Len(F)
      BY <1>2, <1>5, <1>7, <2>1, AtNext
  <2>3. Entry(F, n) = F[n].elements
      BY <1>2, <1>5, <2>2, EntryIs
  <2> QED BY <1>6, <2>2, <2>3 DEF NewType, LastElement, TypeAt
<1> QED BY <1>1, <1>2, <1>3, <1>4, <1>5, <1>6, <1>7 DEF F

LEMMA DiskClose ==
    ASSUME NEW F, F = archives'[boot'.k], NEW n \in Nat, IsEntry(F, n), boot'.b = Pos(F, n),
           ReadAs(F, n, Level', Here', boot'.k, inode_counter', Dest', Held', Kind', Ops', Source'),
           boot'.pc \in {"mount", "vtable"} => NewAs(F, n, boot'.i, boot'.ninode, Held', Kind', Ops')
    PROVE  DiskInv'
<1>1. ReadsAt(archives[boot.k], n)'
    BY DEF ReadsAt
<1> QED BY <1>1 DEF DiskInv

\* Steps that change some of the tables.
LEMMA SameViews ==
    /\ Tree(inode_table') = Tree(inode_table) /\ vfs_root' = vfs_root => Dest' = Dest
    /\ inode_table' = inode_table => Tree(inode_table') = Tree(inode_table)
                                     /\ Held' = Held /\ Kind' = Kind /\ Ops' = Ops
    /\ inodes' = inodes => Source' = Source
    /\ pipes' = pipes => Piped' = Piped
<1>1. Tree(inode_table') = Tree(inode_table) /\ vfs_root' = vfs_root => Dest' = Dest
    BY DEF Dest
<1>2. inode_table' = inode_table => Tree(inode_table') = Tree(inode_table)
                                    /\ Held' = Held /\ Kind' = Kind /\ Ops' = Ops
    BY DEF Held, Kind, Ops
<1>3. (inodes' = inodes => Source' = Source) /\ (pipes' = pipes => Piped' = Piped)
    BY DEF Source, Piped
<1> QED BY <1>1, <1>2, <1>3

LEMMA HeldNext ==
    ASSUME TypeInv', PackInv', New'
    PROVE  boot'.ninode \in Held' <=> inode_counter' <= HASHTABLE_CAPACITY
<1>1. boot'.ninode \in Ids /\ boot'.ninode + 1 = inode_counter' /\ boot'.pc # "ready"
    BY DEF New, TypeInv, Place
<1>2. boot'.ninode \in Held' <=> boot'.ninode < inode_counter' /\ boot'.ninode < HASHTABLE_CAPACITY
    BY <1>1 DEF PackInv, Packed
<1>3. boot'.ninode \in Nat /\ HASHTABLE_CAPACITY \in Nat
    BY <1>1, Invalid, CapacityAssumption
<1> QED BY <1>1, <1>2, <1>3

\* initrd_create
LEMMA DiskCreate ==
    ASSUME TypeInv, TypeInv', PackInv', initrd_create
    PROVE  DiskInv'
<1> DEFINE n == inode_counter
           K == Tree(inode_table)
<1>1. /\ boot' = [boot EXCEPT !.pc = "element", !.b = 1, !.i = 0, !.cinode = vfs_root']
      /\ boot.pc = "create_fs" /\ inode_counter' = inode_counter + 1
      /\ UNCHANGED <<initrds, inodes, pipes, archives, calls>>
    BY DEF initrd_create, create_fs, CreateInode
<1>2. MadeAs("DIRECTORY", "none") /\ vfs_root' = n
    BY TypesCreateFs
<1>3. boot \in BootType /\ K \in Trees /\ n \in AnyId /\ n \in Nat
  <2>1. n \in Ids
      BY <1>2, MadeViews
  <2> QED BY <2>1, TypedTree DEF AnyId
<1>4. /\ boot'.pc = "element" /\ boot'.b = 1 /\ boot'.i = 0 /\ boot'.cinode = n /\ boot'.k = boot.k
      /\ boot.k \in Disk
    BY <1>1, <1>2, <1>3 DEF BootType, TypeInv, Place
<1>5. Tree(inode_table') = K /\ K[n] = <<>>
    BY <1>2, SameTree
<1>6. n \in Held' => Kind'[n] = "DIRECTORY"
    BY <1>2, MadeViews
<1>7. Ops'[n] = "none"
    BY <1>2, MadeViews
<1> DEFINE F == archives[boot.k]
<1>8. F \in Seq(File) /\ F = archives'[boot'.k]
  <2>1. F \in Archives \cup {<<>>}
      BY <1>4 DEF TypeInv, VfsTypes
  <2> QED BY <1>1, <1>4, <2>1, ArchiveIn
<1> HIDE DEF n, K, F
<1>9. \A e \in Names : Dest'[e] = WalkIn(K, n, e)
    BY <1>2, <1>5 DEF Dest, DestIn
<1>10. Dest'[<<>>] = n /\ <<>> \in Names
    BY <1>3, <1>9, WalkEmpty
<1>11. \A e \in Names : e # <<>> => Dest'[e] = ID_INVALID
    BY <1>3, <1>5, <1>9, WalkBare
<1>12. Ops'[ID_INVALID] = "none"
  <2>1. Ops'[ID_INVALID] = IF has(inode_table', ID_INVALID) THEN get(inode_table', ID_INVALID).vtable ELSE "none"
      BY Invalid DEF Ops, VtablesIn
  <2>2. ~has(inode_table', ID_INVALID)
      BY Invalid, FindNothing DEF TypeInv, Tables
  <2> QED BY <2>1, <2>2
<1>13. ASSUME inode_counter' <= HASHTABLE_CAPACITY PROVE n \in Held' /\ Kind'[n] = "DIRECTORY"
  <2>1. n \in Ids /\ n < inode_counter' /\ n < HASHTABLE_CAPACITY
    <3>1. n \in Ids
        BY <1>2, MadeViews DEF n
    <3>2. HASHTABLE_CAPACITY \in Nat /\ inode_counter' = n + 1
        BY <1>1, CapacityAssumption DEF n
    <3> QED BY <1>3, <1>13, <3>1, <3>2
  <2>2. boot'.pc # "ready"
      BY <1>4
  <2>3. n \in Held'
      BY <2>1, <2>2 DEF PackInv, Packed
  <2> QED BY <1>6, <2>3
<1> DEFINE one == 1
           z == 0
           c == inode_counter'
           room == c <= HASHTABLE_CAPACITY => n \in Held' /\ Kind'[n] = "DIRECTORY"
<1>14. ReadAs(F, one, z, n, boot.k, c, Dest', Held', Kind', Ops', Source') /\ IsEntry(F, one)
  <2>1. room
      BY <1>13
  <2>2. one = 1 /\ z = 0
      OBVIOUS
  <2>3. Bare(n, c, Dest', Held', Kind', Ops')
      BY <1>7, <1>10, <1>11, <1>12, <2>1 DEF Bare
  <2> HIDE DEF c, one, z
  <2> QED BY <1>8, <2>2, <2>3, ReadStart
<1>15. Level' = z /\ Here' = n /\ boot'.b = Pos(F, one) /\ one \in Nat
    BY <1>4, <1>8, PosIs DEF Level, Here
<1>16. boot'.pc \notin {"mount", "vtable"}
    BY <1>4
<1> HIDE DEF one, z
<1> QED BY <1>4, <1>8, <1>14, <1>15, <1>16, DiskClose

\* initrd_descend
LEMMA DiskDescend ==
    ASSUME TypeInv, PackInv, DiskInv, initrd_descend
    PROVE  DiskInv'
<1>1. Reading /\ boot.pc = "element" /\ boot.i < Len(CurElements)
    BY DEF Reading, initrd_descend
<1>2. PICK F \in Seq(File), n \in Nat :
          /\ F = archives[boot.k] /\ ReadsAt(F, n) /\ IsEntry(F, n) /\ CurElements = Entry(F, n)
    BY <1>1, DiskOpen
<1>3. boot \in BootType /\ boot.i \in Nat /\ boot.cinode \in AnyId /\ Tree(inode_table) \in Trees
    BY <1>1, CurIn, TypedTree
<1> DEFINE name == CurElements[boot.i + 1]
           try == get_child(boot.cinode, name)
           K == Tree(inode_table)
           i == boot.i
           d == At(F, n, i)
           m == i + 1
<1>4. /\ boot' = IF try # ID_INVALID THEN [boot EXCEPT !.cinode = try, !.i = @ + 1]
                 ELSE [boot EXCEPT !.pc = "create"]
      /\ UNCHANGED <<inode_table, inode_counter, vfs_root, inodes, archives>>
    BY DEF initrd_descend
<1>5. /\ Dest' = Dest /\ Held' = Held /\ Kind' = Kind /\ Ops' = Ops /\ Source' = Source
      /\ inode_counter' = inode_counter
    BY <1>4, SameViews
<1>6. /\ boot.b = Pos(F, n) /\ Level = i /\ Here = boot.cinode
      /\ ReadAs(F, n, i, boot.cinode, boot.k, inode_counter, Dest, Held, Kind, Ops, Source)
    BY <1>1, <1>2 DEF ReadsAt, Level, Here
<1>7. CASE try # ID_INVALID
  <2>1. boot'.pc = "element" /\ boot'.cinode = try /\ boot'.i = m /\ boot'.k = boot.k /\ boot'.b = boot.b
      BY <1>1, <1>3, <1>4, <1>7 DEF BootType
  <2>2. Level' = m /\ Here' = try /\ boot'.pc \notin {"mount", "vtable"}
      BY <2>1 DEF Level, Here
  <2>3. d \in Names /\ name \in Text /\ At(F, n, m) = Append(d, name)
      BY <1>1, <1>2, <1>3, AtNext
  <2>4. Dest[At(F, n, m)] = ChildIn(K, Dest[d], name)
      BY <2>3, DestNext
  <2>5. try = ChildIn(K, boot.cinode, name)
      BY <1>3, ChildIs
  <2> HIDE DEF K, name, try, d, m, i
  <2>6. boot.cinode \in Held
    <3>1. SUFFICES ASSUME boot.cinode \notin Held PROVE FALSE
        OBVIOUS
    <3>2. K[boot.cinode] = <<>>
        BY <1>3, <3>1, NoKids DEF Held, HeldIn, K, TypeInv, Tables
    <3>3. ChildIn(K, boot.cinode, name) = ID_INVALID
        BY <1>3, <3>2, ChildType DEF K
    <3> QED BY <1>7, <2>5, <3>3
  <2>7. Dest[d] = boot.cinode
      BY <1>6, <2>6 DEF ReadAs, Leads, d
  <2>8. Dest[At(F, n, m)] = try
      BY <2>4, <2>5, <2>7
  <2>9. i \in Nat /\ i < Len(Entry(F, n)) /\ m = i + 1
      BY <1>1, <1>2, <1>3 DEF i, m
  <2>10. ReadAs(F, n, m, try, boot.k, inode_counter, Dest, Held, Kind, Ops, Source)
      BY <1>2, <1>6, <1>7, <2>8, <2>9, ReadDown
  <2> QED BY <1>2, <1>4, <1>5, <1>6, <2>1, <2>2, <2>10, DiskClose
<1>8. CASE try = ID_INVALID
  <2>1. boot'.pc = "create" /\ boot'.cinode = boot.cinode /\ boot'.i = i /\ boot'.k = boot.k
        /\ boot'.b = boot.b
      BY <1>1, <1>3, <1>4, <1>8 DEF BootType
  <2>2. Level' = i /\ Here' = boot.cinode /\ boot'.pc \notin {"mount", "vtable"}
      BY <2>1 DEF Level, Here
  <2> HIDE DEF i, try
  <2> QED BY <1>2, <1>4, <1>5, <1>6, <2>1, <2>2, DiskClose
<1> QED BY <1>7, <1>8

\* initrd_create_inode
LEMMA DiskCreateInode ==
    ASSUME TypeInv, TypeInv', TreeInv, PackInv, PackInv', DiskInv, initrd_create_inode
    PROVE  DiskInv'
<1>1. Reading /\ boot.pc = "create" /\ ~Mounting
    BY DEF Reading, Mounting, initrd_create_inode
<1>2. PICK F \in Seq(File), n \in Nat :
          /\ F = archives[boot.k] /\ ReadsAt(F, n) /\ IsEntry(F, n) /\ CurElements = Entry(F, n)
          /\ boot.i < Len(Entry(F, n)) => NewType = TypeAt(F, n, boot.i + 1)
    BY <1>1, DiskOpen
<1>3. boot \in BootType /\ boot.i \in Nat /\ boot.cinode \in AnyId /\ Tree(inode_table) \in Trees
      /\ inode_counter \in Nat
    BY <1>1, CurIn, TypedTree
<1> DEFINE K == Tree(inode_table)
           i == boot.i
           c == boot.cinode
           id == inode_counter
           d == At(F, n, i)
           m == i + 1
           g == At(F, n, m)
<1>4. /\ boot' = [boot EXCEPT !.pc = "mount", !.ninode = inode_counter]
      /\ inode_counter' = inode_counter + 1
      /\ UNCHANGED <<fs_table, fs_counter, vfs_root, initrds, inodes, pipes, archives, calls>>
    BY DEF initrd_create_inode, CreateInode
<1>5. MadeAs(NewType, "none")
    BY TypesCreateInode
<1>6. Dest' = Dest /\ Source' = Source
  <2>1. Tree(inode_table') = Tree(inode_table)
      BY <1>5, SameTree
  <2> QED BY <1>4, <2>1, SameViews
<1>7. /\ boot'.pc = "mount" /\ boot'.ninode = id /\ boot'.i = i /\ boot'.k = boot.k
      /\ boot'.b = boot.b /\ boot'.cinode = c
    BY <1>3, <1>4 DEF BootType
<1>8. Level' = i /\ Here' = c /\ New'
    BY <1>7 DEF Level, Here, New
<1>9. /\ boot.b = Pos(F, n) /\ i < Len(Entry(F, n))
      /\ ReadAs(F, n, i, c, boot.k, inode_counter, Dest, Held, Kind, Ops, Source)
    BY <1>1, <1>2 DEF ReadsAt, Level, Here, TypeInv, Place
<1>10. c < id /\ \A e \in Names : Dest[e] \in AnyId /\ Dest[e] < id
  <2>1. Bound = id
      BY <1>1 DEF Bound
  <2>2. \A e \in Names : Dest[e] < Bound
      BY DestBelow
  <2>3. c < Bound
      BY <1>1 DEF TreeInv
  <2> QED BY <2>1, <2>2, <2>3, DestIs
<1> HIDE DEF c, id
<1>11. \A e \in Names : Dest[e] # id
    BY <1>3, <1>10 DEF id
<1>12. c # id
    BY <1>3, <1>10 DEF id
<1>13. \A x \in AnyId : x # id => /\ (x \in Held' <=> x \in Held)
                                 /\ (x \in Held => Kind'[x] = Kind[x])
                                 /\ Ops'[x] = Ops[x]
    BY <1>5, MadeViews DEF id
<1>14. KeptAs(Dest, Held, Kind, Ops, Source, Held', Kind', Ops', Source)
    BY <1>10, <1>11, <1>13 DEF KeptAs
<1>15. c \in Held' => c \in Held
    BY <1>3, <1>12, <1>13 DEF c
<1>16. inode_counter' <= HASHTABLE_CAPACITY => inode_counter <= HASHTABLE_CAPACITY
    BY <1>3, <1>4, CapacityAssumption
<1> HIDE DEF i
<1>17. ReadAs(F, n, i, c, boot.k, inode_counter', Dest, Held', Kind', Ops', Source)
    BY <1>9, <1>14, <1>15, <1>16, ReadKept
<1>18. NewAs(F, n, i, id, Held', Kind', Ops')
  <2>1. SUFFICES ASSUME id \in Held'
                 PROVE  /\ Ops'[id] = "none" /\ Kind'[id] = TypeAt(F, n, i + 1)
                        /\ FirstAt(F, At(F, n, i + 1), n)
      BY DEF NewAs
  <2>2. Ops'[id] = "none" /\ Kind'[id] = NewType
      BY <1>5, <2>1, MadeViews DEF id
  <2>3. NewType = TypeAt(F, n, i + 1)
      BY <1>2, <1>9 DEF i
  <2>4. inode_counter <= HASHTABLE_CAPACITY
      BY <1>7, <1>8, <1>16, <2>1, HeldNext
  <2>5. Finds(F, n, i, Dest, Held, Kind)
      BY <1>9, <2>4 DEF ReadAs
  <2>6. /\ d \in Names /\ Entry(F, n)[m] \in Text /\ g = Append(d, Entry(F, n)[m]) /\ g \in Names
        /\ ~Seen(F, n, i, g) => FirstAt(F, g, n)
      BY <1>2, <1>3, <1>9, AtNext, Zenon DEF i
  <2>7. Dest[g] = ID_INVALID
    <3> DEFINE x == Entry(F, n)[m]
    <3>1. Named(K, c, x) = {}
        BY <1>1, <1>2 DEF TreeInv, CurName, c, i
    <3> HIDE DEF K, m, x, g, d
    <3>2. ChildIn(K, c, x) = ID_INVALID /\ ChildIn(K, ID_INVALID, x) = ID_INVALID
        BY <1>3, <3>1, ChildType, Invalid DEF K, c
    <3>3. Dest[d] = c \/ Dest[d] = ID_INVALID
        BY <1>9 DEF ReadAs, Leads, d
    <3>4. Dest[g] = ChildIn(K, Dest[d], x)
        BY <2>6, DestNext DEF K, x
    <3> QED BY <3>2, <3>3, <3>4
  <2>8. ~Seen(F, n, i, g)
    <3>1. SUFFICES ASSUME Seen(F, n, i, g) PROVE FALSE
        OBVIOUS
    <3>2. Dest[g] \in Held
        BY <2>5, <2>6, <3>1 DEF Finds
    <3> QED BY <2>7, <3>2, HeldNew
  <2> QED BY <2>2, <2>3, <2>6, <2>8
<1> QED BY <1>2, <1>4, <1>6, <1>7, <1>8, <1>9, <1>17, <1>18, DiskClose

\* initrd_mount_child
LEMMA DiskMountChild ==
    ASSUME TypeInv, TypeInv', TreeInv, PackInv, DiskInv, initrd_mount_child
    PROVE  DiskInv'
<1>1. Reading /\ New /\ Mounting /\ boot.pc = "mount"
    BY DEF Reading, New, Mounting, initrd_mount_child
<1>2. PICK F \in Seq(File), n \in Nat :
          F = archives[boot.k] /\ ReadsAt(F, n) /\ IsEntry(F, n) /\ CurElements = Entry(F, n)
    BY <1>1, DiskOpen
<1>3. boot \in BootType /\ boot.i \in Nat /\ boot.cinode \in AnyId /\ Tree(inode_table) \in Trees
      /\ vfs_root \in AnyId
    BY <1>1, CurIn, TypedTree
<1> DEFINE K == Tree(inode_table)
           i == boot.i
           c == boot.cinode
           id == boot.ninode
           f == At(F, n, i)
           m == i + 1
           g == At(F, n, m)
           name == CurName
<1>4. /\ boot' = [boot EXCEPT !.pc = "vtable"]
      /\ UNCHANGED <<inode_counter, vfs_root, inodes, archives>>
    BY DEF initrd_mount_child
<1>5. Linking(c, id, name) /\ name \in Text /\ id \in Ids
    BY TypesMountChild DEF CurName
<1>6. /\ boot'.pc = "vtable" /\ boot'.ninode = id /\ boot'.i = i /\ boot'.k = boot.k
      /\ boot'.b = boot.b
    BY <1>3, <1>4 DEF BootType
<1>7. Level' = m /\ Here' = id
    BY <1>6 DEF Level, Here
<1>8. /\ boot.b = Pos(F, n) /\ i < Len(Entry(F, n)) /\ i \in Nat
      /\ ReadAs(F, n, i, c, boot.k, inode_counter, Dest, Held, Kind, Ops, Source)
      /\ NewAs(F, n, i, id, Held, Kind, Ops)
    BY <1>1, <1>2, <1>3 DEF ReadsAt, Level, Here, TypeInv, Place
<1>9. f \in Names /\ g \in Names /\ g = Append(f, name) /\ Entry(F, n)[m] = name
    BY <1>2, <1>8, AtNext, Zenon DEF CurName
<1>10. /\ Held' = Held /\ \A x \in Held : Kind'[x] = Kind[x]
       /\ \A x \in AnyId : Ops'[x] = Ops[x]
    BY <1>3, <1>5, SetterViews
<1>11. Named(K, c, name) = {} /\ K[id] = <<>> /\ c < Bound /\ Bound = id
    BY <1>1 DEF TreeInv, Bound
<1>12. /\ Tree(inode_table)' = IF has(inode_table, c) THEN Mount(K, c, id, name) ELSE K
       /\ has(inode_table, c) => c \in Ids
    BY <1>1, <1>5, <1>11, TreeMounted
<1>13. has(inode_table, c) <=> c \in Held
    BY <1>3 DEF Held, HeldIn
<1>14. \A e \in Names : Dest[e] = WalkIn(K, vfs_root, e) /\ Dest'[e] = WalkIn(Tree(inode_table)', vfs_root, e)
    BY <1>4 DEF Dest, DestIn
<1>15. Linked(K, vfs_root, id)
    BY <1>11 DEF TreeInv
<1> HIDE DEF K, i, c, id, f, m, name
<1>16. ASSUME c \in Held PROVE \A e \in Names : Dest'[e] = IF e = Append(f, name) THEN id ELSE Dest[e]
  <2>1. Dest[f] = c
      BY <1>8, <1>16 DEF ReadAs, Leads, f
  <2>2. Tree(inode_table)' = Mount(K, c, id, name) /\ c \in Ids
      BY <1>12, <1>13, <1>16
  <2>3. WalkIn(K, vfs_root, f) = c /\ c < id
      BY <1>9, <1>11, <1>14, <2>1
  <2>4. \A e \in Names : WalkIn(Mount(K, c, id, name), vfs_root, e) =
                            IF e = Append(f, name) THEN id ELSE WalkIn(K, vfs_root, e)
      BY <1>3, <1>5, <1>9, <1>11, <1>15, <2>2, <2>3, WalkMount DEF K
  <2> QED BY <1>14, <2>2, <2>4
<1>17. ASSUME c \notin Held PROVE (\A e \in Names : Dest'[e] = Dest[e]) /\ Dest[g] = ID_INVALID
  <2>1. \A e \in Names : Dest'[e] = Dest[e]
      BY <1>12, <1>13, <1>14, <1>17
  <2>2. ChildIn(K, c, name) = ID_INVALID /\ ChildIn(K, ID_INVALID, name) = ID_INVALID
      BY <1>3, <1>11, ChildType, Invalid DEF K, c
  <2>3. Dest[f] = c \/ Dest[f] = ID_INVALID
      BY <1>8 DEF ReadAs, Leads, f
  <2>4. Dest[Append(f, name)] = ChildIn(K, Dest[f], name)
      BY <1>5, <1>9, DestNext DEF K
  <2> QED BY <1>9, <2>1, <2>2, <2>3, <2>4
<1>18. MountsAs(At(F, n, m), c, id, Dest, Held, Dest')
  <2>1. CASE c \in Held
      BY <1>9, <1>16, <2>1 DEF MountsAs
  <2>2. CASE c \notin Held
      BY <1>17, <2>2 DEF MountsAs
  <2> QED BY <2>1, <2>2
<1>19. /\ id \in Held <=> inode_counter <= HASHTABLE_CAPACITY
       /\ id \notin Held => Ops[id] = "none"
       /\ ID_INVALID \notin Held
    BY <1>1, <1>5, HeldNew DEF id, AnyId
<1>20. ReadAs(F, n, m, id, boot.k, inode_counter, Dest', Held, Kind, Ops, Source)
  <2>1. m = i + 1
      BY DEF m
  <2> QED BY <1>2, <1>8, <1>18, <1>19, <2>1, ReadMounted
<1>21. KeptAs(Dest', Held, Kind, Ops, Source, Held', Kind', Ops', Source')
  <2>1. \A e \in Names : Dest'[e] \in AnyId
    <3>1. \A e \in Names : Dest[e] \in AnyId
        BY DestIs
    <3> QED BY <1>5, <1>16, <1>17, <3>1 DEF AnyId
  <2>2. Source' = Source
      BY <1>4, SameViews
  <2> QED BY <1>10, <2>1, <2>2 DEF KeptAs
<1>22. ReadAs(F, n, m, id, boot.k, inode_counter', Dest', Held', Kind', Ops', Source')
  <2>1. inode_counter' = inode_counter /\ (id \in Held' => id \in Held)
      BY <1>4, <1>10
  <2> QED BY <1>20, <1>21, <2>1, ReadKept
<1>23. NewAs(F, n, i, id, Held', Kind', Ops')
  <2>1. id \in AnyId
      BY <1>5 DEF AnyId
  <2> QED BY <1>8, <1>10, <2>1, Zenon DEF NewAs
<1> QED BY <1>2, <1>4, <1>6, <1>7, <1>8, <1>22, <1>23, DiskClose

\* initrd_set_vtable
LEMMA DiskSetVtable ==
    ASSUME TypeInv, TypeInv', TreeInv, PackInv, DiskInv, initrd_set_vtable
    PROVE  DiskInv'
<1>1. Reading /\ New /\ boot.pc = "vtable"
    BY DEF Reading, New, initrd_set_vtable
<1>2. PICK F \in Seq(File), n \in Nat :
          /\ F = archives[boot.k] /\ ReadsAt(F, n) /\ IsEntry(F, n) /\ CurElements = Entry(F, n)
          /\ boot.i < Len(Entry(F, n)) => NewType = TypeAt(F, n, boot.i + 1)
    BY <1>1, DiskOpen
<1>3. boot \in BootType /\ boot.i \in Nat /\ boot.ninode \in Ids
    BY <1>1, CurIn, TypedTree, HeldNew
<1> DEFINE i == boot.i
           id == boot.ninode
           m == i + 1
           g == At(F, n, m)
           item == <<boot.k, boot.b>>
<1>4. /\ boot' = [boot EXCEPT !.pc = "element", !.i = @ + 1, !.cinode = boot.ninode]
      /\ inodes' = IF NewType = "NORMAL_FILE" THEN add(inodes, id, item) ELSE inodes
      /\ UNCHANGED <<inode_counter, vfs_root, archives>>
    BY DEF initrd_set_vtable
<1>5. WroteVtable(id, IF NewType = "NORMAL_FILE" THEN "initrd" ELSE "none")
    BY TypesSetVtable
<1>6. Dest' = Dest
  <2>1. Tree(inode_table') = Tree(inode_table)
      BY <1>5, SameTree
  <2> QED BY <1>4, <2>1, SameViews
<1>7. /\ boot'.pc = "element" /\ boot'.cinode = id /\ boot'.i = m /\ boot'.k = boot.k
      /\ boot'.b = boot.b
    BY <1>3, <1>4 DEF BootType
<1>8. Level' = m /\ Here' = id
    BY <1>7 DEF Level, Here
<1>9. /\ boot.b = Pos(F, n) /\ i < Len(Entry(F, n)) /\ i \in Nat
      /\ ReadAs(F, n, m, id, boot.k, inode_counter, Dest, Held, Kind, Ops, Source)
      /\ NewAs(F, n, i, id, Held, Kind, Ops)
    BY <1>1, <1>2, <1>3 DEF ReadsAt, Level, Here, TypeInv, Place
<1>10. NewType = TypeAt(F, n, m)
    BY <1>2, <1>9
<1>11. id \in AnyId
    BY <1>3 DEF AnyId
<1>12. /\ Held' = Held /\ \A x \in Held : Kind'[x] = Kind[x]
       /\ Ops'[id] = IF id \in Held THEN IF NewType = "NORMAL_FILE" THEN "initrd" ELSE "none" ELSE "none"
       /\ \A x \in AnyId : x # id => Ops'[x] = Ops[x]
    BY <1>5, <1>11, SetterViews
<1>13. /\ \A x \in AnyId : x # id => Source'[x] = Source[x]
       /\ id \in Held /\ NewType = "NORMAL_FILE" => Source'[id] = <<item>>
  <2>1. Table(inodes, id)
      BY <1>1 DEF TypeInv, Tables, Fresh
  <2>2. id \in Held => id < HASHTABLE_CAPACITY
      BY <1>1, <1>3 DEF PackInv, Packed
  <2> DEFINE u == add(inodes, id, item)
  <2>3. /\ \A x \in AnyId : x # id => ItemsIn(u)[x] = ItemsIn(inodes)[x]
        /\ id < HASHTABLE_CAPACITY => ItemsIn(u)[id] = <<item>>
      BY <1>3, <2>1, AddedItem
  <2> HIDE DEF u, item, id
  <2>4. CASE NewType = "NORMAL_FILE"
    <3>1. inodes' = u
        BY <1>4, <2>4 DEF u
    <3> QED BY <2>2, <2>3, <3>1 DEF Source
  <2>5. CASE NewType # "NORMAL_FILE"
      BY <1>4, <2>5 DEF Source
  <2> QED BY <2>4, <2>5
<1>14. item = <<boot.k, Pos(F, n)>>
    BY <1>9
<1> HIDE DEF id, item, i, m
<1>15. ASSUME NEW e \in Names, Dest[e] = id, id \in Held PROVE e = g
  <2>1. Dest[g] = id
      BY <1>9, <1>15 DEF ReadAs, Leads
  <2>2. g \in Names
      BY <1>2, <1>9, AtNext DEF m
  <2>3. id # ID_INVALID
      BY <1>15, HeldNew
  <2> QED BY <1>15, <2>1, <2>2, <2>3, DestBelow
<1>16. WritesAs(At(F, n, m), id, TypeAt(F, n, m), <<<<boot.k, Pos(F, n)>>>>,
                Dest, Held, Kind, Ops, Source, Kind', Ops', Source')
  <2> DEFINE z == <<item>>
  <2>1. <<<<boot.k, Pos(F, n)>>>> = z
      BY <1>14
  <2>2. Source'[id] = z \/ ~(id \in Held /\ NewType = "NORMAL_FILE")
      BY <1>13
  <2>3. \A e \in Names : Dest[e] \in AnyId
      BY DestIs
  <2> HIDE DEF z
  <2>4. WritesAs(At(F, n, m), id, TypeAt(F, n, m), z, Dest, Held, Kind, Ops, Source, Kind', Ops', Source')
      BY <1>10, <1>12, <1>13, <1>15, <2>2, <2>3 DEF WritesAs
  <2> QED BY <2>1, <2>4
<1>17. ReadAs(F, n, m, id, boot.k, inode_counter, Dest, Held, Kind', Ops', Source')
  <2>1. m = i + 1
      BY DEF m, i
  <2> QED BY <1>2, <1>9, <1>16, <2>1, ReadWritten
<1>18. ReadAs(F, n, m, id, boot'.k, inode_counter', Dest', Held', Kind', Ops', Source')
    BY <1>4, <1>6, <1>7, <1>12, <1>17
<1>19. boot'.pc \notin {"mount", "vtable"}
    BY <1>7
<1> QED BY <1>2, <1>4, <1>7, <1>8, <1>9, <1>18, <1>19, DiskClose

\* What tar_next does: it goes on to the next file, or to the next disk.
LEMMA NextFile ==
    ASSUME TypeInv, PackInv, DiskInv, tar_next,
           NEW F \in Seq(File), NEW n, F = archives[boot.k], ReadsAt(F, n), initrds[boot.k] = Tar(F)
    PROVE  /\ Reading /\ boot.i = Len(Entry(F, n)) /\ Level = Len(Entry(F, n))
           /\ IF n < Len(F) THEN boot' = [boot EXCEPT !.b = Pos(F, n + 1), !.i = 0, !.cinode = vfs_root]
              ELSE boot' = NextDisk(boot.k + 1)
           /\ UNCHANGED <<inode_table, inode_counter, fs_table, fs_counter, vfs_root, initrds,
                          inodes, pipes, archives, calls>>
<1>1. boot.pc = "element" /\ boot.i = Len(CurElements) /\ Reading
    BY DEF tar_next, Reading
<1>2. IsEntry(F, n) /\ boot.b = Pos(F, n)
    BY DEF ReadsAt
<1> DEFINE b == NextHeader(boot.k, boot.b)
<1>3. /\ CurElements = Entry(F, n)
      /\ Block(boot.k, b).filename = <<>> <=> ~(n < Len(F))
      /\ n < Len(F) => b = Pos(F, n + 1)
    BY <1>2, HeaderIs DEF CurElements, CurHeader
<1>4. boot' = IF Block(boot.k, b).filename = <<>> THEN NextDisk(boot.k + 1)
              ELSE [boot EXCEPT !.b = b, !.i = 0, !.cinode = get_root]
    BY DEF tar_next
<1>5. UNCHANGED <<inode_table, inode_counter, fs_table, fs_counter, vfs_root, initrds,
                  inodes, pipes, archives, calls>>
    BY DEF tar_next
<1> DEFINE next == [boot EXCEPT !.b = Pos(F, n + 1), !.i = 0, !.cinode = vfs_root]
<1>6. IF n < Len(F) THEN boot' = next ELSE boot' = NextDisk(boot.k + 1)
  <2>1. CASE n < Len(F)
    <3>1. Block(boot.k, b).filename # <<>> /\ b = Pos(F, n + 1)
        BY <1>3, <2>1
    <3>2. boot' = [boot EXCEPT !.b = b, !.i = 0, !.cinode = get_root]
        BY <1>4, <3>1
    <3> HIDE DEF b
    <3>3. boot' = next
        BY <3>1, <3>2 DEF get_root
    <3> QED BY <2>1, <3>3
  <2>2. CASE ~(n < Len(F))
      BY <1>3, <1>4, <2>2
  <2> QED BY <2>1, <2>2
<1> HIDE DEF next
<1>7. boot.i = Len(Entry(F, n)) /\ Level = Len(Entry(F, n))
    BY <1>1, <1>3 DEF Level
<1> QED BY <1>1, <1>5, <1>6, <1>7 DEF next

LEMMA DiskTarNext ==
    ASSUME TypeInv, PackInv, DiskInv, tar_next
    PROVE  DiskInv'
<1>1. Reading
    BY DEF Reading, tar_next
<1>2. PICK F \in Seq(File), n \in Nat :
          /\ F = archives[boot.k] /\ boot.k \in Disk /\ ReadsAt(F, n) /\ IsEntry(F, n)
          /\ initrds[boot.k] = Tar(F)
    BY <1>1, DiskOpen
<1>3. /\ boot.i = Len(Entry(F, n)) /\ Level = Len(Entry(F, n))
      /\ IF n < Len(F) THEN boot' = [boot EXCEPT !.b = Pos(F, n + 1), !.i = 0, !.cinode = vfs_root]
         ELSE boot' = NextDisk(boot.k + 1)
      /\ UNCHANGED <<inode_table, inode_counter, vfs_root, inodes, archives>>
    BY <1>2, NextFile, Zenon
<1>4. boot \in BootType /\ boot.pc = "element" /\ initrds \in [Disk -> Memory]
    BY DEF TypeInv, VfsTypes, tar_next
<1>5. CASE ~(n < Len(F))
  <2>1. boot' = NextDisk(boot.k + 1) /\ boot.k + 1 \in Nat
      BY <1>3, <1>4, <1>5 DEF BootType
  <2>2. boot'.pc = "pipe" \/ boot'.pc = "create_fs"
    <3>1. CASE NextDisk(boot.k + 1) = [boot EXCEPT !.pc = "pipe", !.k = 1]
        BY <1>4, <2>1, <3>1 DEF BootType
    <3>2. CASE \E m : NextDisk(boot.k + 1) = [boot EXCEPT !.pc = "create_fs", !.k = m]
        BY <1>4, <2>1, <3>2 DEF BootType
    <3> QED BY <1>4, <2>1, <3>1, <3>2, NextDiskIs, Zenon
  <2> QED BY <2>2 DEF DiskInv, Reading
<1>6. CASE n < Len(F)
  <2> DEFINE m == n + 1
             z == 0
  <2>1. boot' = [boot EXCEPT !.b = Pos(F, m), !.i = 0, !.cinode = vfs_root]
      BY <1>3, <1>6
  <2>2. /\ boot'.pc = "element" /\ boot'.k = boot.k /\ boot'.i = z /\ boot'.cinode = vfs_root
        /\ boot'.b = Pos(F, m)
      BY <1>4, <2>1 DEF BootType
  <2>3. Level' = z /\ Here' = vfs_root /\ boot'.pc \notin {"mount", "vtable"}
      BY <2>2 DEF Level, Here
  <2>4. ReadAs(F, n, Len(Entry(F, n)), Here, boot.k, inode_counter, Dest, Held, Kind, Ops, Source)
      BY <1>2, <1>3 DEF ReadsAt
  <2>5. m = n + 1 /\ z = 0 /\ m \in Nat
      OBVIOUS
  <2> HIDE DEF m, z
  <2>6. Dest[<<>>] = vfs_root
      BY DestNext
  <2>7. IsEntry(F, m) /\ ReadAs(F, m, z, vfs_root, boot.k, inode_counter, Dest, Held, Kind, Ops, Source)
      BY <1>2, <1>6, <2>4, <2>5, <2>6, ReadNext
  <2>8. /\ Dest' = Dest /\ Held' = Held /\ Kind' = Kind /\ Ops' = Ops /\ Source' = Source
        /\ inode_counter' = inode_counter /\ archives' = archives
      BY <1>3, SameViews
  <2> QED BY <1>2, <2>2, <2>3, <2>5, <2>7, <2>8, DiskClose
<1> QED BY <1>5, <1>6

\* Steps of boot that read no archive, and calls after it.
LEMMA DiskIdle ==
    ASSUME TypeInv, TypeInv',
           \/ \E a \in Archives : initrd_add(a)
           \/ initrd_init \/ pipe_create \/ pipe_mount \/ boot_done
           \/ Exported
    PROVE  ~Reading'
<1>1. boot \in BootType /\ initrds \in [Disk -> Memory]
    BY DEF TypeInv, VfsTypes
<1>2. CASE \E a \in Archives : initrd_add(a)
    BY <1>2 DEF initrd_add, Reading
<1>3. CASE initrd_init
  <2>1. boot' = NextDisk(0)
      BY <1>3 DEF initrd_init
  <2>2. \/ boot' = [boot EXCEPT !.pc = "pipe", !.k = 1]
        \/ \E m \in Disk : boot' = [boot EXCEPT !.pc = "create_fs", !.k = m]
      BY <1>1, <2>1, NextDiskIs, Zenon
  <2>3. boot'.pc \in {"pipe", "create_fs"}
      BY <1>1, <2>2, Zenon DEF BootType
  <2> QED BY <2>3 DEF Reading
<1>4. CASE pipe_create
  <2>1. boot'.pc = "pipe_mount"
      BY <1>1, <1>4 DEF pipe_create, BootType
  <2> QED BY <2>1 DEF Reading
<1>5. CASE pipe_mount
  <2>1. boot'.pc = "pipe"
      BY <1>1, <1>5 DEF pipe_mount, BootType
  <2> QED BY <2>1 DEF Reading
<1>6. CASE boot_done
  <2>1. boot'.pc = "ready"
      BY <1>1, <1>6 DEF boot_done, BootType
  <2> QED BY <2>1 DEF Reading
<1>7. CASE Exported
    BY <1>7, Ready
<1> QED BY <1>2, <1>3, <1>4, <1>5, <1>6, <1>7

LEMMA DiskStutter ==
    ASSUME DiskInv, UNCHANGED vars
    PROVE  DiskInv'
<1>1. UNCHANGED <<inode_table, inode_counter, vfs_root, inodes, boot, archives>>
    BY DEF vars
<1>2. Dest' = Dest /\ Held' = Held /\ Kind' = Kind /\ Ops' = Ops /\ Source' = Source
    BY <1>1, SameViews
<1>3. Level' = Level /\ Here' = Here /\ (Reading' <=> Reading)
    BY <1>1 DEF Level, Here, Reading
<1>4. \A F, n : ReadsAt(F, n) => ReadsAt(F, n)'
    BY <1>1, <1>2, <1>3 DEF ReadsAt
<1> QED BY <1>1, <1>3, <1>4 DEF DiskInv

LEMMA InitRead == Init => DiskInv
<1> SUFFICES ASSUME Init PROVE DiskInv
    OBVIOUS
<1>1. boot.pc = "add"
    BY DEF Init
<1> QED BY <1>1 DEF DiskInv, Reading

LEMMA NextRead ==
    TypeInv /\ TypeInv' /\ TreeInv /\ PackInv /\ PackInv' /\ DiskInv /\ [Next]_vars => DiskInv'
<1> SUFFICES ASSUME TypeInv, TypeInv', TreeInv, PackInv, PackInv', DiskInv, [Next]_vars
             PROVE  DiskInv'
    OBVIOUS
<1>1. CASE initrd_create
    BY <1>1, DiskCreate
<1>2. CASE initrd_descend
    BY <1>2, DiskDescend
<1>3. CASE initrd_create_inode
    BY <1>3, DiskCreateInode
<1>4. CASE initrd_mount_child
    BY <1>4, DiskMountChild
<1>5. CASE initrd_set_vtable
    BY <1>5, DiskSetVtable
<1>6. CASE tar_next
    BY <1>6, DiskTarNext
<1>7. CASE \/ \E a \in Archives : initrd_add(a)
           \/ initrd_init \/ pipe_create \/ pipe_mount \/ boot_done
           \/ Exported
    BY <1>7, DiskIdle DEF DiskInv
<1>8. CASE \/ create_inode("NORMAL_FILE")
           \/ \E id \in Handles : change_type(id, "SYM_LINK") \/ delete_inode(id)
           \/ \E id \in 0 .. fs_counter - 1 : change_fs(id, ID_INVALID, "none") \/ delete_fs(id)
  <2>1. Exported
      BY <1>8 DEF create_inode, change_type, delete_inode, change_fs, delete_fs
  <2> QED BY <1>7, <2>1
<1>9. CASE UNCHANGED vars
    BY <1>9, DiskStutter
<1> QED BY <1>1, <1>2, <1>3, <1>4, <1>5, <1>6, <1>7, <1>8, <1>9 DEF Next

-----------------------------------------------------------------------------
(* After the ram disks were read. *)

Mounted == 1 .. boot.k - 1
AfterInv == After =>
    /\ AfterAs(Files, Disks, Mounted, calls, inode_counter, Dest, Held, Kind, Ops, Source, Piped)
    /\ boot.pc = "pipe_mount" /\ boot.ninode \in Held => Ops[boot.ninode] = "pipe"

LEMMA MountedIn ==
    ASSUME TypeInv, After
    PROVE  /\ Mounted \subseteq 1 .. Len(PipePaths) /\ \A q \in Mounted : MountPath(q) \in Names
           /\ boot.k \in Nat
           /\ boot.pc = "pipe_mount" => Mounted \subseteq 1 .. Len(PipePaths) \ {boot.k}
<1>1. boot.k \in 1 .. Len(PipePaths) + 1
    BY DEF TypeInv, Place, After
<1>2. Len(PipePaths) \in Nat
    BY PipeAssumption
<1>3. Mounted \subseteq 1 .. Len(PipePaths) /\ Mounted \subseteq 1 .. Len(PipePaths) \ {boot.k}
    BY <1>1, <1>2 DEF Mounted
<1>4. \A q \in Mounted : MountPath(q) \in Names
    BY <1>3, PipeNames DEF MountPath
<1> QED BY <1>1, <1>2, <1>3, <1>4

LEMMA NothingNext ==
    ASSUME TypeInv'
    PROVE  Ops'[ID_INVALID] = "none"
<1>1. Ops'[ID_INVALID] = IF has(inode_table', ID_INVALID) THEN get(inode_table', ID_INVALID).vtable ELSE "none"
    BY Invalid DEF Ops, VtablesIn
<1>2. ~has(inode_table', ID_INVALID)
    BY Invalid, FindNothing DEF TypeInv, Tables
<1> QED BY <1>1, <1>2

\* What every step after the ram disks has to show but a mount.
Closing ==
    /\ ClosesAs(Dest, Ops, Dest', Ops')
    /\ Fit(calls', inode_counter') =>
          Fit(calls, inode_counter) /\ StaysAs(Dest, Held, Kind, Ops, Dest', Held', Kind', Ops')

LEMMA AfterClosing ==
    ASSUME TypeInv, AfterInv, After, boot'.k = boot.k, Closing,
           UNCHANGED <<initrds, inodes, pipes, archives>>,
           boot'.pc = "pipe_mount" /\ boot'.ninode \in Held' => Ops'[boot'.ninode] = "pipe"
    PROVE  AfterInv'
<1>1. AfterAs(Files, Disks, Mounted, calls, inode_counter, Dest, Held, Kind, Ops, Source, Piped)
    BY DEF AfterInv
<1>2. \A q \in Mounted : MountPath(q) \in Names
    BY MountedIn
<1>3. AfterAs(Files, Disks, Mounted, calls', inode_counter', Dest', Held', Kind', Ops', Source, Piped)
    BY <1>1, <1>2, AfterKept DEF Closing
<1>4. Mounted' = Mounted /\ Files' = Files /\ Disks' = Disks /\ Source' = Source /\ Piped' = Piped
    BY SameFiles, SameViews DEF Mounted
<1> QED BY <1>3, <1>4 DEF AfterInv

LEMMA ClosingMade ==
    ASSUME TypeInv, TypeInv', TreeInv, PackInv, ~Mounting, NEW type, NEW vtable, MadeAs(type, vtable),
           inode_counter' = inode_counter + 1, vfs_root' = vfs_root, calls' \in {calls, calls + 1}
    PROVE  Closing
<1> DEFINE n == inode_counter
<1>1. /\ n \in Ids /\ n \notin Held
      /\ \A id \in AnyId : id # n => /\ id \in Held' <=> id \in Held
                                     /\ id \in Held => Kind'[id] = Kind[id]
                                     /\ Ops'[id] = Ops[id]
    BY MadeViews
<1>2. Tree(inode_table') = Tree(inode_table)
    BY MadeViews
<1>3. Dest' = Dest
    BY <1>2, SameViews
<1>4. \A e \in Names : Dest[e] \in AnyId /\ Dest[e] # n
  <2>1. Bound = n /\ n \in Nat
      BY <1>1, Invalid DEF Bound
  <2>2. \A e \in Names : Dest[e] < n /\ Dest[e] \in AnyId
      BY <2>1, DestBelow, DestIs
  <2> HIDE DEF n
  <2>3. \A x \in AnyId : x < n => x # n
      BY <2>1, Invalid DEF AnyId
  <2> QED BY <2>2, <2>3
<1>5. StaysAs(Dest, Held, Kind, Ops, Dest', Held', Kind', Ops')
    BY <1>1, <1>3, <1>4, Zenon DEF StaysAs
<1>6. ClosesAs(Dest, Ops, Dest', Ops')
  <2>1. \A e \in Names : Dest'[e] = Dest[e] /\ Ops'[Dest[e]] = Ops[Dest[e]]
      BY <1>5 DEF StaysAs
  <2> QED BY <2>1, NothingNext, Zenon DEF ClosesAs
<1>7. Fit(calls', inode_counter') => Fit(calls, inode_counter)
  <2>1. calls \in Nat /\ n \in Nat /\ HASHTABLE_CAPACITY \in Nat
      BY <1>1, Invalid, CapacityAssumption DEF PackInv, Slotted
  <2> QED BY <2>1 DEF Fit
<1> QED BY <1>5, <1>6, <1>7 DEF Closing

\* A call after boot, unless it makes an inode.
LEMMA ClosingCall ==
    ASSUME TypeInv, TypeInv', PackInv, Exported,
           \A e \in Names : Dest'[e] = ID_INVALID \/ Dest'[e] = Dest[e],
           \A x \in AnyId : Ops'[x] = Ops[x] \/ Ops'[x] = "none"
    PROVE  Closing
<1>1. \A e \in Names : Dest[e] \in AnyId
    BY DestIs
<1>2. ClosesAs(Dest, Ops, Dest', Ops')
    BY <1>1, NothingNext DEF ClosesAs
<1>3. calls' = calls + 1 /\ calls \in Nat
    BY DEF Exported, PackInv, Slotted
<1>4. ~Fit(calls', inode_counter')
    BY <1>3 DEF Fit
<1> QED BY <1>2, <1>4 DEF Closing

LEMMA ClosingSame ==
    ASSUME TypeInv, TypeInv', UNCHANGED <<inode_table, inode_counter, vfs_root, calls>>
    PROVE  Closing
<1>1. Dest' = Dest /\ Held' = Held /\ Kind' = Kind /\ Ops' = Ops
    BY SameViews
<1>2. ClosesAs(Dest, Ops, Dest', Ops')
    BY <1>1, NothingNext DEF ClosesAs
<1>3. StaysAs(Dest, Held, Kind, Ops, Dest', Held', Kind', Ops')
    BY <1>1 DEF StaysAs
<1> QED BY <1>2, <1>3 DEF Closing

\* pipe_create and boot_done
LEMMA AfterPipe ==
    ASSUME TypeInv, TypeInv', TreeInv, PackInv, AfterInv, pipe_create \/ boot_done
    PROVE  AfterInv'
<1>1. boot \in BootType /\ boot.pc = "pipe" /\ After /\ ~Mounting
    BY DEF TypeInv, VfsTypes, pipe_create, boot_done, After, Mounting
<1>2. CASE pipe_create
  <2>1. MadeAs("PIPE", "pipe")
      BY <1>2, TypesPipeCreate
  <2>2. /\ inode_counter' = inode_counter + 1
        /\ boot' = [boot EXCEPT !.pc = "pipe_mount", !.ninode = inode_counter]
        /\ UNCHANGED <<vfs_root, initrds, inodes, pipes, archives, calls>>
      BY <1>2 DEF pipe_create, CreateInode
  <2>3. boot'.k = boot.k /\ boot'.ninode = inode_counter
      BY <1>1, <2>2 DEF BootType
  <2>4. inode_counter \in Held' => Ops'[inode_counter] = "pipe"
      BY <2>1, MadeViews
  <2>5. Closing
      BY <1>1, <2>1, <2>2, ClosingMade
  <2> QED BY <1>1, <2>2, <2>3, <2>4, <2>5, AfterClosing
<1>3. CASE boot_done
  <2>1. boot' = [boot EXCEPT !.pc = "ready"]
        /\ UNCHANGED <<inode_table, inode_counter, vfs_root, initrds, inodes, pipes, archives, calls>>
      BY <1>3 DEF boot_done
  <2>2. boot'.k = boot.k /\ boot'.pc = "ready"
      BY <1>1, <2>1 DEF BootType
  <2>3. Closing
      BY <2>1, ClosingSame
  <2> QED BY <1>1, <2>1, <2>2, <2>3, AfterClosing
<1> QED BY <1>2, <1>3

\* The exported functions.
LEMMA AfterCall ==
    ASSUME TypeInv, TypeInv', TreeInv, PackInv, AfterInv,
           \/ create_inode("NORMAL_FILE")
           \/ \E id \in Handles : change_type(id, "SYM_LINK") \/ delete_inode(id)
           \/ \E id \in 0 .. fs_counter - 1 : change_fs(id, ID_INVALID, "none") \/ delete_fs(id)
    PROVE  AfterInv'
<1>1. Exported
    BY DEF create_inode, change_type, delete_inode, change_fs, delete_fs
<1>2. /\ boot.pc = "ready" /\ boot' = boot /\ calls' = calls + 1 /\ vfs_root' = vfs_root
      /\ UNCHANGED <<initrds, inodes, pipes, archives>>
    BY <1>1, Ready
<1>3. After /\ ~Mounting /\ boot'.k = boot.k /\ boot'.pc # "pipe_mount"
    BY <1>2 DEF After, Mounting
<1>4. /\ Tree(inode_table) \in Trees /\ vfs_root \in AnyId
      /\ Table(inode_table, inode_counter)
    BY TypedTree
<1>5. Closing
  <2>1. CASE create_inode("NORMAL_FILE")
    <3>1. MadeAs("NORMAL_FILE", "none")
        BY <2>1, TypesCreate
    <3>2. inode_counter' = inode_counter + 1
        BY <2>1 DEF create_inode, CreateInode
    <3> QED BY <1>2, <1>3, <3>1, <3>2, ClosingMade
  <2>2. ASSUME NEW id \in Handles, change_type(id, "SYM_LINK") PROVE Closing
    <3>1. WroteType(id)
        BY <2>2, TypesChangeType
    <3>2. Tree(inode_table') = Tree(inode_table)
        BY <3>1, SameTree
    <3>3. Dest' = Dest
        BY <1>2, <3>2, SameViews
    <3>4. \A x \in AnyId : Ops'[x] = Ops[x]
        BY <3>1, SetterViews
    <3> QED BY <1>1, <3>3, <3>4, ClosingCall
  <2>3. ASSUME NEW id \in Handles, delete_inode(id) PROVE Closing
    <3>1. id \in Ids /\ id \in Nat
        BY VfsAssumption, Invalid DEF Ids
    <3>2. Dropped(inode_table, inode_table', inode_counter, id)
        BY <2>3, <3>1, TypesDelete
    <3>3. Tree(inode_table') = Prune(Tree(inode_table), id)
        BY <1>4, <3>1, <3>2, TreeDropped
    <3>4. Prune(Tree(inode_table), id) \in Trees
        BY <1>4, <3>1, PruneKeeps DEF TreeInv
    <3>5. \A e \in Names : WalkIn(Prune(Tree(inode_table), id), vfs_root, e)
                               \in {WalkIn(Tree(inode_table), vfs_root, e), ID_INVALID}
        BY <1>4, <3>1, <3>4, WalkPruned
    <3>6. \A e \in Names : Dest'[e] = ID_INVALID \/ Dest'[e] = Dest[e]
        BY <1>2, <3>3, <3>5 DEF Dest, DestIn
    <3>7. \A x \in AnyId : Ops'[x] = Ops[x] \/ Ops'[x] = "none"
        BY <3>1, <3>2, SetterViews
    <3> QED BY <1>1, <3>6, <3>7, ClosingCall
  <2>4. CASE \E id \in 0 .. fs_counter - 1 : change_fs(id, ID_INVALID, "none") \/ delete_fs(id)
    <3>1. inode_table' = inode_table
        BY <2>4 DEF change_fs, delete_fs
    <3>2. Dest' = Dest /\ Ops' = Ops
        BY <1>2, <3>1, SameViews
    <3> QED BY <1>1, <3>2, ClosingCall
  <2> QED BY <2>1, <2>2, <2>3, <2>4
<1> QED BY <1>2, <1>3, <1>5, AfterClosing

LEMMA AfterStutter ==
    ASSUME TypeInv, TypeInv', AfterInv, UNCHANGED vars
    PROVE  AfterInv'
<1>1. /\ UNCHANGED <<inode_table, inode_counter, vfs_root, initrds, inodes, pipes, archives, calls>>
      /\ boot' = boot
    BY DEF vars
<1>2. CASE After
  <2>1. Closing /\ boot'.k = boot.k
      BY <1>1, ClosingSame
  <2>2. Ops' = Ops /\ Held' = Held
      BY <1>1, SameViews
  <2>3. boot'.pc = "pipe_mount" /\ boot'.ninode \in Held' => Ops'[boot'.ninode] = "pipe"
      BY <1>1, <1>2, <2>2 DEF AfterInv
  <2> QED BY <1>1, <1>2, <2>1, <2>3, AfterClosing
<1>3. CASE ~After
  <2>1. ~After'
      BY <1>1, <1>3 DEF After
  <2> QED BY <2>1 DEF AfterInv
<1> QED BY <1>2, <1>3

\* The pipes are next.
LEMMA AfterStart ==
    ASSUME TypeInv, boot' = [boot EXCEPT !.pc = "pipe", !.k = 1],
           UNCHANGED <<inode_table, inode_counter, vfs_root, initrds, inodes, pipes, archives, calls>>,
           NEW none, none = {},
           AfterAs(Files, Disks, none, calls, inode_counter, Dest, Held, Kind, Ops, Source, Piped)
    PROVE  AfterInv'
<1>1. boot'.pc = "pipe" /\ boot'.k = 1
    BY DEF TypeInv, VfsTypes, BootType
<1>2. Mounted' = none
  <2>1. 1 .. 1 - 1 = {}
      OBVIOUS
  <2> QED BY <1>1, <2>1 DEF Mounted
<1>3. /\ Files' = Files /\ Disks' = Disks /\ Dest' = Dest /\ Held' = Held /\ Kind' = Kind
      /\ Ops' = Ops /\ Source' = Source /\ Piped' = Piped
    BY SameFiles, SameViews
<1> QED BY <1>1, <1>2, <1>3 DEF AfterInv

\* initrd_init found no ram disk: there is no root.
LEMMA AfterNoDisk ==
    ASSUME TypeInv, PackInv, initrd_init
    PROVE  AfterInv'
<1>1. /\ boot \in BootType /\ initrds \in [Disk -> Memory] /\ boot.pc = "add" /\ boot' = NextDisk(0)
      /\ UNCHANGED <<inode_table, inode_counter, vfs_root, initrds, inodes, pipes, archives, calls>>
    BY DEF TypeInv, VfsTypes, initrd_init
<1>2. ASSUME NEW m \in Disk, NextDisk(0) = [boot EXCEPT !.pc = "create_fs", !.k = m]
      PROVE  AfterInv'
  <2>1. boot'.pc = "create_fs"
      BY <1>1, <1>2 DEF BootType
  <2> QED BY <2>1 DEF AfterInv, After
<1>3. ASSUME \A j \in Disk : j >= 0 => initrds[j] = <<>>,
             NextDisk(0) = [boot EXCEPT !.pc = "pipe", !.k = 1]
      PROVE  AfterInv'
  <2>1. Disks = {}
    <3>1. \A j \in Disk : j >= 0
        BY DEF Disk
    <3> QED BY <1>3, <3>1, FilesIn
  <2>2. Files = <<>>
      BY <2>1 DEF Files
  <2>3. vfs_root = ID_INVALID
      BY <1>1 DEF PackInv, Slotted
  <2>4. Tree(inode_table) \in Trees /\ Tree(inode_table)[ID_INVALID] = <<>>
      BY TypedTree, NoKids
  <2>5. \A e \in Names : Dest[e] = ID_INVALID
    <3>1. \A e \in Names : e # <<>> => WalkIn(Tree(inode_table), ID_INVALID, e) = ID_INVALID
        BY <2>4, WalkBare, Invalid
    <3>2. WalkIn(Tree(inode_table), ID_INVALID, <<>>) = ID_INVALID
        BY <2>4, WalkEmpty, Invalid
    <3> QED BY <2>3, <3>1, <3>2, DestIs
  <2>6. Ops[ID_INVALID] = "none"
      BY DestIs
  <2>7. AfterAs(<<>>, {}, {}, calls, inode_counter, Dest, Held, Kind, Ops, Source, Piped)
      BY <2>5, <2>6, AfterNothing
  <2> DEFINE none == {}
  <2>8. none = {}
      OBVIOUS
  <2> HIDE DEF none
  <2>9. AfterAs(Files, Disks, none, calls, inode_counter, Dest, Held, Kind, Ops, Source, Piped)
      BY <2>1, <2>2, <2>7, <2>8
  <2> QED BY <1>1, <1>3, <2>8, <2>9, AfterStart
<1>4. 0 \in Nat
    OBVIOUS
<1> QED BY <1>1, <1>2, <1>3, <1>4, NextDiskIs, Zenon

\* tar_next came to the end of the last ram disk.
LEMMA AfterLastDisk ==
    ASSUME TypeInv, PackInv, DiskInv, tar_next
    PROVE  AfterInv'
<1>1. boot \in BootType /\ initrds \in [Disk -> Memory] /\ Reading /\ boot.pc = "element"
    BY DEF TypeInv, VfsTypes, tar_next, Reading
<1>2. PICK F \in Seq(File), n \in Nat :
          /\ F = archives[boot.k] /\ boot.k \in Disk /\ ReadsAt(F, n) /\ IsEntry(F, n)
          /\ initrds[boot.k] = Tar(F)
    BY <1>1, DiskOpen
<1>3. /\ Level = Len(Entry(F, n))
      /\ IF n < Len(F) THEN boot' = [boot EXCEPT !.b = Pos(F, n + 1), !.i = 0, !.cinode = vfs_root]
         ELSE boot' = NextDisk(boot.k + 1)
      /\ UNCHANGED <<inode_table, inode_counter, vfs_root, initrds, inodes, pipes, archives, calls>>
    BY <1>2, NextFile, Zenon
<1>4. CASE n < Len(F)
  <2>1. boot'.pc = "element"
      BY <1>1, <1>3, <1>4 DEF BootType
  <2> QED BY <2>1 DEF AfterInv, After
<1>5. CASE ~(n < Len(F))
  <2> DEFINE k == boot.k
             k1 == k + 1
  <2>1. boot' = NextDisk(k1) /\ k1 \in Nat /\ k \in Nat
      BY <1>1, <1>3, <1>5 DEF BootType
  <2>2. ASSUME NEW m \in Disk, NextDisk(k1) = [boot EXCEPT !.pc = "create_fs", !.k = m]
        PROVE  AfterInv'
    <3>1. boot'.pc = "create_fs"
        BY <1>1, <2>1, <2>2 DEF BootType
    <3> QED BY <3>1 DEF AfterInv, After
  <2>3. ASSUME \A j \in Disk : j >= k1 => initrds[j] = <<>>,
               NextDisk(k1) = [boot EXCEPT !.pc = "pipe", !.k = 1]
        PROVE  AfterInv'
    <3>1. k \in Disks /\ Disks \subseteq Disk /\ Disks # {}
      <4>1. initrds[k] # <<>>
          BY <1>1 DEF TypeInv, Place
      <4> QED BY <1>2, <4>1, FilesIn
    <3>2. \A j \in Disks : j <= k
      <4>1. \A j \in Disks : j \in Disk /\ initrds[j] # <<>>
          BY FilesIn
      <4>2. \A j \in Disk : j \in Nat
          BY DEF Disk
      <4> HIDE DEF k
      <4>3. ASSUME NEW j \in Disks PROVE j <= k
        <5>1. ~(j >= k1) /\ j \in Nat
            BY <2>3, <4>1, <4>2
        <5> QED BY <2>1, <5>1
      <4> QED BY <4>3
    <3>3. Max(Disks) = k
      <4>1. Max(Disks) \in Disks /\ \A j \in Disks : j <= Max(Disks)
          BY <3>1, GreatestIn
      <4> DEFINE x == Max(Disks)
      <4>2. \A j \in Disk : j \in Nat
          BY DEF Disk
      <4> HIDE DEF k, x
      <4>3. x \in Nat /\ k <= x /\ x <= k
          BY <3>1, <3>2, <4>1, <4>2 DEF x
      <4> QED BY <2>1, <4>3 DEF x
    <3>4. Files = F
        BY <1>2, <3>1, <3>3, FilesIn
    <3>5. ReadAs(F, n, Len(Entry(F, n)), Here, k, inode_counter, Dest, Held, Kind, Ops, Source)
        BY <1>2, <1>3 DEF ReadsAt
    <3> HIDE DEF k, k1
    <3>6. AfterAs(F, Disks, {}, calls, inode_counter, Dest, Held, Kind, Ops, Source, Piped)
        BY <1>2, <1>5, <3>1, <3>3, <3>5, AfterRead
    <3> DEFINE none == {}
    <3>7. none = {}
        OBVIOUS
    <3> HIDE DEF none
    <3>8. AfterAs(Files, Disks, none, calls, inode_counter, Dest, Held, Kind, Ops, Source, Piped)
        BY <3>4, <3>6, <3>7
    <3>9. boot' = [boot EXCEPT !.pc = "pipe", !.k = 1]
        BY <2>1, <2>3
    <3> QED BY <1>3, <3>7, <3>8, <3>9, AfterStart
  <2> HIDE DEF k1
  <2> QED BY <1>1, <2>1, <2>2, <2>3, NextDiskIs, Zenon
<1> QED BY <1>4, <1>5

\* Where paths lead after the mount of a pipe.
LEMMA PipeMoves ==
    ASSUME TypeInv, TypeInv', TreeInv, PackInv, pipe_mount
    PROVE  LET p == MountPath(boot.k)
               id == boot.ninode
           IN  /\ \/ /\ \A e \in Names : Dest'[e] = IF e = p THEN id ELSE Dest[e]
                     /\ Dest[Front(p)] # ID_INVALID /\ Dest[p] = ID_INVALID
                  \/ /\ \A e \in Names : Dest'[e] = Dest[e]
                     /\ Dest[Front(p)] \notin Held \/ Dest[p] # ID_INVALID
               /\ Held' = Held /\ \A x \in Held : Kind'[x] = Kind[x]
               /\ \A x \in AnyId : Ops'[x] = Ops[x]
<1> DEFINE p == MountPath(boot.k)
           id == boot.ninode
           f == Front(p)
           name == Last(p)
           d == Walk(f)
           K == Tree(inode_table)
           N == Tree(inode_table)'
<1>1. /\ boot.k \in 1 .. Len(PipePaths) /\ name \in Text /\ id \in Ids
      /\ IF d = ID_INVALID THEN inode_table' = inode_table ELSE Linking(d, id, name)
    BY TypesPipeMount DEF MountPath
<1>2. p \in Names /\ f \in Names /\ p = Append(f, name)
  <2>1. p \in Names /\ p # <<>> /\ f \in Names
      BY <1>1, PipeNames DEF MountPath
  <2> HIDE DEF p
  <2> QED BY <2>1, FrontLast DEF Names
<1>3. K \in Trees /\ vfs_root \in AnyId /\ vfs_root' = vfs_root
    BY TypedTree DEF pipe_mount
<1> HIDE DEF p, f, name
<1>4. d = Dest[f] /\ d \in AnyId /\ d = WalkIn(K, vfs_root, f)
    BY <1>2, DestIs
<1>5. Mounting /\ K[id] = <<>> /\ Linked(K, vfs_root, Bound)
    BY DEF pipe_mount, Mounting, TreeInv
<1>6. d < Bound
    BY <1>2, <1>4, DestBelow
<1>7. Dest[p] = ChildIn(K, d, name)
    BY <1>1, <1>2, <1>4, DestNext
<1>8. has(inode_table, d) <=> d \in Held
    BY <1>4 DEF Held, HeldIn
<1>9. ID_INVALID \notin Held
    BY DestIs
<1>10. N = Tree(inode_table')
    BY SameTree
<1>11. \A e \in Names : Dest[e] = WalkIn(K, vfs_root, e) /\ Dest'[e] = WalkIn(N, vfs_root, e)
    BY <1>3 DEF Dest, DestIn
<1> HIDE DEF d, K, N
<1>12. CASE d = ID_INVALID
  <2>1. inode_table' = inode_table
      BY <1>1, <1>12
  <2>2. N = K
      BY <1>10, <2>1 DEF K
  <2>3. Held' = Held /\ Kind' = Kind /\ Ops' = Ops
      BY <2>1, SameViews
  <2>4. \A e \in Names : Dest'[e] = Dest[e]
      BY <1>11, <2>2
  <2> QED BY <1>4, <1>9, <1>12, <2>3, <2>4 DEF f, p
<1>13. CASE d # ID_INVALID
  <2>1. Linking(d, id, name)
      BY <1>1, <1>13
  <2>2. /\ Held' = Held /\ \A x \in Held : Kind'[x] = Kind[x]
        /\ \A x \in AnyId : Ops'[x] = Ops[x]
      BY <1>1, <1>4, <2>1, SetterViews
  <2>3. /\ Bound = id /\ N = IF has(inode_table, d) THEN Mount(K, d, id, name) ELSE K
        /\ has(inode_table, d) => d \in Ids
      BY <1>1, <1>5, <1>6, <2>1, TreeMounted DEF K, N
  <2>4. CASE d \notin Held
    <3>1. \A e \in Names : Dest'[e] = Dest[e]
        BY <1>8, <1>11, <2>3, <2>4
    <3> QED BY <1>4, <2>2, <2>4, <3>1 DEF f, p
  <2>5. CASE d \in Held /\ Named(K, d, name) # {}
    <3>1. \A e \in Names : WalkIn(Mount(K, d, id, name), vfs_root, e) = WalkIn(K, vfs_root, e)
        BY <1>1, <1>3, <1>8, <2>3, <2>5, WalkHidden
    <3>2. \A e \in Names : Dest'[e] = Dest[e]
        BY <1>8, <1>11, <2>3, <2>5, <3>1
    <3>3. Dest[p] # ID_INVALID
        BY <1>3, <1>4, <1>7, <2>5, ChildType
    <3> QED BY <2>2, <3>2, <3>3 DEF p
  <2>6. CASE d \in Held /\ Named(K, d, name) = {}
    <3>1. d < id /\ Linked(K, vfs_root, id)
        BY <1>5, <1>6, <2>3
    <3>2. \A e \in Names : WalkIn(Mount(K, d, id, name), vfs_root, e) =
                               IF e = Append(f, name) THEN id ELSE WalkIn(K, vfs_root, e)
        BY <1>1, <1>2, <1>3, <1>4, <1>5, <1>8, <2>3, <2>6, <3>1, WalkMount
    <3>3. \A e \in Names : Dest'[e] = IF e = p THEN id ELSE Dest[e]
        BY <1>2, <1>8, <1>11, <2>3, <2>6, <3>2
    <3>4. Dest[p] = ID_INVALID
        BY <1>3, <1>4, <1>7, <2>6, ChildType
    <3> QED BY <1>4, <1>13, <2>2, <3>3, <3>4 DEF f, p
  <2> QED BY <2>4, <2>5, <2>6
<1> QED BY <1>12, <1>13

\* pipe_mount
LEMMA AfterMount ==
    ASSUME TypeInv, TypeInv', TreeInv, PackInv, AfterInv, pipe_mount
    PROVE  AfterInv'
<1> DEFINE k == boot.k
           id == boot.ninode
           p == MountPath(k)
           k1 == k + 1
           N == Mounted \cup {k}
<1>1. /\ boot.pc = "pipe_mount" /\ boot' = [boot EXCEPT !.pc = "pipe", !.k = k1]
      /\ pipes' = add(pipes, id, k)
      /\ UNCHANGED <<inode_counter, initrds, inodes, archives, calls>>
    BY DEF pipe_mount
<1>2. After /\ New /\ Mounting /\ Fresh = id /\ Bound = id
    BY <1>1 DEF After, New, Mounting, Fresh, Bound
<1>3. /\ AfterAs(Files, Disks, Mounted, calls, inode_counter, Dest, Held, Kind, Ops, Source, Piped)
      /\ id \in Held => Ops[id] = "pipe"
    BY <1>1, <1>2 DEF AfterInv
<1>4. /\ Mounted \subseteq 1 .. Len(PipePaths) \ {k} /\ k \in 1 .. Len(PipePaths)
      /\ p \in Names /\ \A q \in Mounted : MountPath(q) \in Names
  <2>1. k \in 1 .. Len(PipePaths)
      BY <1>1 DEF TypeInv, Place
  <2>2. p \in Names
      BY <2>1, PipeNames DEF MountPath
  <2> QED BY <1>1, <1>2, <2>1, <2>2, MountedIn
<1>5. /\ id \in Ids /\ id \in AnyId /\ ID_INVALID \notin Held
      /\ id \in Held <=> inode_counter <= HASHTABLE_CAPACITY
      /\ Ops[id] # "none" => id \in Held
    BY <1>2, HeldNew DEF AnyId
<1>6. \A e \in Names : Dest[e] \in AnyId /\ Dest[e] # id
  <2>1. \A e \in Names : Dest[e] < id /\ Dest[e] \in AnyId
      BY <1>2, DestBelow, DestIs
  <2> HIDE DEF id
  <2>2. \A x \in AnyId : x < id => x # id
      BY <1>5, AnyIdInt
  <2> QED BY <2>1, <2>2
<1>7. /\ \A x \in AnyId : x # id => Piped'[x] = Piped[x]
      /\ id \in Held => Piped'[id] = <<k>>
  <2> DEFINE u == add(pipes, id, k)
  <2>1. Table(pipes, id)
      BY <1>2 DEF TypeInv, Tables
  <2>2. id \in Held => id < HASHTABLE_CAPACITY
      BY <1>1, <1>5 DEF PackInv, Packed
  <2>3. /\ \A x \in AnyId : x # id => ItemsIn(u)[x] = ItemsIn(pipes)[x]
        /\ id < HASHTABLE_CAPACITY => ItemsIn(u)[id] = <<k>>
      BY <1>5, <2>1, AddedItem
  <2> HIDE DEF u, id, k
  <2> QED BY <1>1, <2>2, <2>3 DEF Piped, u
<1>8. /\ \/ /\ \A e \in Names : Dest'[e] = IF e = p THEN id ELSE Dest[e]
            /\ Dest[Front(p)] # ID_INVALID /\ Dest[p] = ID_INVALID
         \/ /\ \A e \in Names : Dest'[e] = Dest[e]
            /\ Dest[Front(p)] \notin Held \/ Dest[p] # ID_INVALID
      /\ Held' = Held /\ \A x \in Held : Kind'[x] = Kind[x]
      /\ \A x \in AnyId : Ops'[x] = Ops[x]
    BY PipeMoves
<1>9. Fit(calls, inode_counter) => id \in Held
    BY <1>5 DEF Fit
<1> HIDE DEF id, p
<1>10. PipedAs(p, k, id, Dest, Held, Ops, Piped, Dest', Piped')
  <2>1. Ops[id] = IF id \in Held THEN "pipe" ELSE "none"
      BY <1>3, <1>5
  <2>2. \A e \in Names : Dest[e] # id /\ Piped'[Dest[e]] = Piped[Dest[e]]
      BY <1>6, <1>7
  <2> HIDE DEF k
  <2> QED BY <1>7, <1>8, <2>1, <2>2 DEF PipedAs
<1>11. AfterAs(Files, Disks, N, calls, inode_counter, Dest', Held, Kind, Ops, Source, Piped')
  <2>1. PipedAs(MountPath(k), k, id, Dest, Held, Ops, Piped, Dest', Piped')
      BY <1>10 DEF p
  <2> HIDE DEF k
  <2> QED BY <1>3, <1>4, <1>5, <1>9, <2>1, AfterMounted
<1>12. \A q \in N : MountPath(q) \in Names
    BY <1>4 DEF p
<1>13. \A e \in Names : Dest'[e] \in AnyId
    BY <1>5, <1>6, <1>8
<1>14. ClosesAs(Dest', Ops, Dest', Ops') /\ StaysAs(Dest', Held, Kind, Ops, Dest', Held', Kind', Ops')
    BY <1>8, <1>13, NothingNext DEF ClosesAs, StaysAs
<1> HIDE DEF N
<1>15. AfterAs(Files, Disks, N, calls', inode_counter', Dest', Held', Kind', Ops', Source, Piped')
  <2>1. calls' = calls /\ inode_counter' = inode_counter
      BY <1>1
  <2> QED BY <1>11, <1>12, <1>14, <2>1, AfterKept
<1>16. Files' = Files /\ Disks' = Disks /\ Source' = Source
    BY <1>1, SameFiles, SameViews
<1>17. boot'.pc = "pipe" /\ boot'.k = k1
    BY <1>1 DEF TypeInv, VfsTypes, BootType
<1>18. Mounted' = N
  <2>1. k \in Nat \ {0}
      BY <1>4
  <2> HIDE DEF k
  <2>2. 1 .. k1 - 1 = (1 .. k - 1) \cup {k}
      BY <2>1
  <2> QED BY <1>17, <2>2 DEF Mounted, N, k
<1> QED BY <1>15, <1>16, <1>17, <1>18 DEF AfterInv

LEMMA InitAfter == Init => AfterInv
<1> SUFFICES ASSUME Init PROVE AfterInv
    OBVIOUS
<1>1. boot.pc = "add"
    BY DEF Init
<1> QED BY <1>1 DEF AfterInv, After

\* Steps before the pipes.
LEMMA AfterBefore ==
    ASSUME TypeInv,
           \/ \E a \in Archives : initrd_add(a)
           \/ initrd_create \/ initrd_descend \/ initrd_create_inode \/ initrd_mount_child
           \/ initrd_set_vtable
    PROVE  ~After'
<1>1. boot \in BootType
    BY DEF TypeInv, VfsTypes
<1>2. CASE \E a \in Archives : initrd_add(a)
    BY <1>2 DEF initrd_add, After
<1>3. CASE initrd_create
  <2>1. boot'.pc = "element"
      BY <1>1, <1>3 DEF initrd_create, BootType
  <2> QED BY <2>1 DEF After
<1>4. CASE initrd_descend
  <2> DEFINE try == get_child(boot.cinode, CurElements[boot.i + 1])
  <2>1. /\ boot.pc = "element"
        /\ boot' = IF try # ID_INVALID THEN [boot EXCEPT !.cinode = try, !.i = @ + 1]
                   ELSE [boot EXCEPT !.pc = "create"]
      BY <1>4 DEF initrd_descend
  <2> HIDE DEF try
  <2>2. boot'.pc \in {"element", "create"}
      BY <1>1, <2>1 DEF BootType
  <2> QED BY <2>2 DEF After
<1>5. CASE initrd_create_inode
  <2>1. boot'.pc = "mount"
      BY <1>1, <1>5 DEF initrd_create_inode, BootType
  <2> QED BY <2>1 DEF After
<1>6. CASE initrd_mount_child
  <2>1. boot'.pc = "vtable"
      BY <1>1, <1>6 DEF initrd_mount_child, BootType
  <2> QED BY <2>1 DEF After
<1>7. CASE initrd_set_vtable
  <2>1. boot'.pc = "element"
      BY <1>1, <1>7 DEF initrd_set_vtable, BootType
  <2> QED BY <2>1 DEF After
<1> QED BY <1>2, <1>3, <1>4, <1>5, <1>6, <1>7

LEMMA NextAfter ==
    TypeInv /\ TypeInv' /\ TreeInv /\ PackInv /\ DiskInv /\ AfterInv /\ [Next]_vars => AfterInv'
<1> SUFFICES ASSUME TypeInv, TypeInv', TreeInv, PackInv, DiskInv, AfterInv, [Next]_vars
             PROVE  AfterInv'
    OBVIOUS
<1>1. CASE \/ \E a \in Archives : initrd_add(a)
           \/ initrd_create \/ initrd_descend \/ initrd_create_inode \/ initrd_mount_child
           \/ initrd_set_vtable
    BY <1>1, AfterBefore DEF AfterInv
<1>2. CASE initrd_init
    BY <1>2, AfterNoDisk
<1>3. CASE tar_next
    BY <1>3, AfterLastDisk
<1>4. CASE pipe_create \/ boot_done
    BY <1>4, AfterPipe
<1>5. CASE pipe_mount
    BY <1>5, AfterMount
<1>6. CASE \/ create_inode("NORMAL_FILE")
           \/ \E id \in Handles : change_type(id, "SYM_LINK") \/ delete_inode(id)
           \/ \E id \in 0 .. fs_counter - 1 : change_fs(id, ID_INVALID, "none") \/ delete_fs(id)
    BY <1>6, AfterCall
<1>7. CASE UNCHANGED vars
    BY <1>7, AfterStutter
<1> QED BY <1>1, <1>2, <1>3, <1>4, <1>5, <1>6, <1>7 DEF Next

-----------------------------------------------------------------------------
(* What this says of the paths after boot. *)

LEMMA LookIs ==
    ASSUME TypeInv, NEW id \in AnyId
    PROVE  /\ get_vtable(id) = Ops[id]
           /\ has(inode_table, id) <=> id \in Held
           /\ id \in Held => get_type(id) = Kind[id]
           /\ Source[id] = IF has(inodes, id) THEN <<get(inodes, id)>> ELSE <<>>
           /\ Piped[id] = IF has(pipes, id) THEN <<get(pipes, id)>> ELSE <<>>
<1>1. (has(inode_table, id) <=> id \in Held) /\ Kind[id] = get(inode_table, id).type
    BY DEF Held, HeldIn, Kind, TypesIn
<1>2. get_vtable(id) = Ops[id]
    BY DEF get_vtable, Ops, VtablesIn
<1>3. id \in Held => get_type(id) = Kind[id]
    BY <1>1 DEF get_type
<1>4. Source[id] = IF has(inodes, id) THEN <<get(inodes, id)>> ELSE <<>>
    BY DEF Source, ItemsIn
<1>5. Piped[id] = IF has(pipes, id) THEN <<get(pipes, id)>> ELSE <<>>
    BY DEF Piped, ItemsIn
<1> QED BY <1>1, <1>2, <1>3, <1>4, <1>5

LEMMA ItemIs ==
    ASSUME NEW some, NEW found, NEW item, <<item>> = IF some THEN <<found>> ELSE <<>>
    PROVE  some /\ found = item
<1>1. <<item>> # <<>> /\ (<<found>> = <<item>> => found = item)
    OBVIOUS
<1> QED BY <1>1, Zenon

LEMMA PathsIn ==
    ASSUME TypeInv, TreeInv
    PROVE  Paths \subseteq Names
<1>1. KnownPaths \subseteq Names
    BY FilesIn
<1>2. PICK f : Depths(f)
    BY DisplayIs
<1>3. \A p \in display : p \in Lines
    BY <1>2 DEF Depths
<1>4. \A p \in display : p[1] \in Names
    BY <1>3 DEF Lines
<1> QED BY <1>1, <1>4 DEF Paths

LEMMA ListedAs ==
    ASSUME TypeInv, NEW e \in Names
    PROVE  /\ Listed(e) <=> ListedIn(Files, Disks, e)
           /\ \A n : FirstAt(Files, e, n) =>
                 /\ Mention(e) = n /\ BlockOf(Mention(e)) = Pos(Files, n) /\ SomeAt(Files, e)
           /\ \A type : HasType(Files, e, type) => ListedType(e) = type
<1>1. Listed(e) <=> ListedIn(Files, Disks, e)
    BY MentionIs DEF ListedIn
<1>2. ASSUME NEW n, FirstAt(Files, e, n)
      PROVE  Mention(e) = n /\ BlockOf(Mention(e)) = Pos(Files, n) /\ SomeAt(Files, e)
  <2>1. Files \in Seq(File)
      BY FilesIn
  <2>2. SomeAt(Files, e)
      BY <1>2, <2>1, FirstIs
  <2>3. FirstAt(Files, e, Mention(e))
      BY <2>2, MentionIs
  <2>4. Mention(e) = n
      BY <1>2, <2>1, <2>3, FirstIs
  <2> QED BY <2>2, <2>4, MentionIs
<1>3. ASSUME NEW type, HasType(Files, e, type) PROVE ListedType(e) = type
  <2>1. CASE e = <<>>
      BY <1>3, <2>1 DEF HasType, ListedType
  <2>2. CASE e # <<>>
    <3>1. PICK n \in 1 .. Len(Files) :
              /\ FirstAt(Files, e, n)
              /\ type = IF Files[n].elements = e THEN TypeOfFlag(Files[n].flag) ELSE "DIRECTORY"
        BY <1>3, <2>2 DEF HasType
    <3>2. Mention(e) = n
        BY <1>2, <3>1
    <3> QED BY <2>2, <3>1, <3>2 DEF ListedType
  <2> QED BY <2>1, <2>2
<1> QED BY <1>1, <1>2, <1>3

LEMMA FilesAreFaithful ==
    ASSUME TypeInv, TreeInv, AfterInv
    PROVE  InitrdFaithful
<1> SUFFICES ASSUME boot.pc = "ready", NEW e \in Paths
             PROVE  /\ get_vtable(Walk(e)) = "initrd" =>
                          /\ Listed(e) /\ Files[Mention(e)].elements = e
                          /\ TypeOfFlag(Files[Mention(e)].flag) = "NORMAL_FILE"
                          /\ get(inodes, Walk(e)) = <<Max(Disks), BlockOf(Mention(e))>>
                    /\ (calls = 0 /\ Room /\ Listed(e)) =>
                          /\ has(inode_table, Walk(e))
                          /\ get_type(Walk(e)) = ListedType(e)
    BY DEF InitrdFaithful
<1> DEFINE id == Walk(e)
<1>1. e \in Names
    BY PathsIn
<1>2. id = Dest[e] /\ id \in AnyId
    BY <1>1, DestIs
<1>3. AfterAs(Files, Disks, Mounted, calls, inode_counter, Dest, Held, Kind, Ops, Source, Piped)
    BY DEF AfterInv, After
<1>4. Files \in Seq(File)
    BY FilesIn
<1> HIDE DEF id
<1>5. ASSUME get_vtable(id) = "initrd"
      PROVE  /\ Listed(e) /\ Files[Mention(e)].elements = e
             /\ TypeOfFlag(Files[Mention(e)].flag) = "NORMAL_FILE"
             /\ get(inodes, id) = <<Max(Disks), BlockOf(Mention(e))>>
  <2>1. Ops[Dest[e]] = "initrd"
      BY <1>2, <1>5, LookIs
  <2>2. FileAt(Files, Max(Disks), e, Source[id])
      BY <1>1, <1>2, <1>3, <2>1 DEF AfterAs, FilesAs
  <2>3. PICK n \in 1 .. Len(Files) : /\ FirstAt(Files, e, n) /\ Files[n].elements = e
                                     /\ TypeOfFlag(Files[n].flag) = "NORMAL_FILE"
                                     /\ Source[id] = <<<<Max(Disks), Pos(Files, n)>>>>
      BY <2>2 DEF FileAt
  <2>4. Mention(e) = n /\ BlockOf(Mention(e)) = Pos(Files, n) /\ SomeAt(Files, e)
      BY <1>1, <2>3, ListedAs
  <2>5. Listed(e)
    <3>1. e # <<>>
        BY <1>4, <2>3, FileNames
    <3>2. ListedIn(Files, Disks, e)
        BY <2>4, <3>1 DEF ListedIn
    <3> QED BY <1>1, <3>2, ListedAs
  <2>6. get(inodes, id) = <<Max(Disks), Pos(Files, n)>>
    <3> DEFINE item == <<Max(Disks), Pos(Files, n)>>
    <3>1. <<item>> = IF has(inodes, id) THEN <<get(inodes, id)>> ELSE <<>>
        BY <1>2, <2>3, LookIs
    <3> HIDE DEF item
    <3>2. get(inodes, id) = item
        BY <3>1, ItemIs
    <3> QED BY <3>2 DEF item
  <2> QED BY <2>3, <2>4, <2>5, <2>6
<1>6. ASSUME calls = 0 /\ Room /\ Listed(e)
      PROVE  has(inode_table, id) /\ get_type(id) = ListedType(e)
  <2>1. Fit(calls, inode_counter)
      BY <1>6 DEF Fit, Room
  <2>2. FoundAs(Files, Disks, Dest, Held, Kind)
      BY <1>3, <2>1 DEF AfterAs
  <2>3. ListedIn(Files, Disks, e)
      BY <1>1, <1>6, ListedAs
  <2>4. id \in Held /\ HasType(Files, e, Kind[id])
      BY <1>1, <1>2, <2>2, <2>3 DEF FoundAs
  <2>5. ListedType(e) = Kind[id]
      BY <1>1, <2>4, ListedAs
  <2> QED BY <1>2, <2>4, <2>5, LookIs
<1> QED BY <1>5, <1>6 DEF id

LEMMA PipesAreFaithful ==
    ASSUME TypeInv, TreeInv, AfterInv
    PROVE  PipesFaithful
<1> SUFFICES ASSUME boot.pc = "ready", NEW p \in 1 .. Len(PipePaths)
             PROVE  LET e == Elements(PipePaths[p])
                        id == get_inode(PipePaths[p])
                        there == get_vtable(id) = "pipe"
                    IN  /\ there => has(pipes, id) /\ get(pipes, id) = p
                        /\ (calls = 0 /\ Room) => (there <=> Listed(Front(e)) /\ ~Listed(e))
    BY DEF PipesFaithful
<1> DEFINE e == MountPath(p)
           f == Front(e)
           id == get_inode(PipePaths[p])
           there == get_vtable(id) = "pipe"
<1>1. e \in Names /\ f \in Names
    BY PipeNames DEF MountPath
<1>2. id = Walk(e)
    BY DEF get_inode, MountPath
<1>3. \A q \in 1 .. Len(PipePaths) : MountPath(q) = e => q = p
    BY PipeAssumption DEF MountPath
<1> HIDE DEF e
<1>4. id = Dest[e] /\ id \in AnyId
    BY <1>1, <1>2, DestIs
<1> HIDE DEF id, f
<1>5. AfterAs(Files, Disks, Mounted, calls, inode_counter, Dest, Held, Kind, Ops, Source, Piped)
    BY DEF AfterInv, After
<1>6. Mounted = 1 .. Len(PipePaths)
  <2>1. boot.k = Len(PipePaths) + 1 /\ Len(PipePaths) \in Nat
      BY PipeAssumption DEF TypeInv, Place
  <2>2. \A x \in Nat : 1 .. (x + 1) - 1 = 1 .. x
      OBVIOUS
  <2> QED BY <2>1, <2>2 DEF Mounted
<1>7. Vacant(Files, Disks, p) <=> Listed(f) /\ ~Listed(e)
    BY <1>1, ListedAs DEF Vacant, f, e
<1>8. ASSUME there
      PROVE  /\ has(pipes, id) /\ get(pipes, id) = p
             /\ Fit(calls, inode_counter) => Vacant(Files, Disks, p)
  <2>1. Ops[Dest[e]] = "pipe"
      BY <1>4, <1>8, LookIs
  <2>2. PICK q \in Mounted : /\ e = MountPath(q) /\ Piped[Dest[e]] = <<q>>
                             /\ Fit(calls, inode_counter) => Vacant(Files, Disks, q)
      BY <1>1, <1>5, <2>1 DEF AfterAs, PipesAs
  <2>3. q = p
      BY <1>3, <1>6, <2>2
  <2>4. <<p>> = IF has(pipes, id) THEN <<get(pipes, id)>> ELSE <<>>
      BY <1>4, <2>2, <2>3, LookIs
  <2> QED BY <2>2, <2>3, <2>4, ItemIs
<1>9. ASSUME calls = 0 /\ Room PROVE there <=> Listed(f) /\ ~Listed(e)
  <2>1. Fit(calls, inode_counter)
      BY <1>9 DEF Fit, Room
  <2>2. Vacant(Files, Disks, p) => Ops[Dest[e]] = "pipe"
      BY <1>5, <1>6, <2>1 DEF AfterAs, MountedAs, e
  <2>3. Ops[Dest[e]] = "pipe" <=> there
      BY <1>4, LookIs
  <2> QED BY <1>7, <1>8, <2>1, <2>2, <2>3
<1>10. e = Elements(PipePaths[p])
    BY DEF e, MountPath
<1> QED BY <1>8, <1>9, <1>10 DEF id, f

\* Files of the ram disk: whatever archives boot reads and whatever is called
\* after it, a path opens as an initrd file only if the archive of the last
\* disk lists a regular file there first, and then inodes has the header of
\* that file; and with room in the inode table every entry of that archive is
\* found under its path, with its type.
THEOREM VfsInitrdFaithful == Spec => []InitrdFaithful
<1>1. Init => TypeInv /\ TreeInv /\ PackInv /\ DiskInv /\ AfterInv
    BY InitTypes, TreeInit, InitPack, InitRead, InitAfter
<1>2. TypeInv /\ TreeInv /\ PackInv /\ DiskInv /\ AfterInv /\ [Next]_vars
          => (TypeInv /\ TreeInv /\ PackInv /\ DiskInv /\ AfterInv)'
    BY NextTypes, NextTree, NextPack, NextRead, NextAfter
<1>3. TypeInv /\ TreeInv /\ PackInv /\ DiskInv /\ AfterInv => InitrdFaithful
    BY FilesAreFaithful
<1> QED BY <1>1, <1>2, <1>3, PTL DEF Spec

\* The pipes of tty_init: a path that opens as a pipe is the path under which
\* tty_init mounted that very pipe; and with room in the inode table it does
\* exactly if the archive has the directory and no entry of that name.
THEOREM VfsPipesFaithful == Spec => []PipesFaithful
<1>1. Init => TypeInv /\ TreeInv /\ PackInv /\ DiskInv /\ AfterInv
    BY InitTypes, TreeInit, InitPack, InitRead, InitAfter
<1>2. TypeInv /\ TreeInv /\ PackInv /\ DiskInv /\ AfterInv /\ [Next]_vars
          => (TypeInv /\ TreeInv /\ PackInv /\ DiskInv /\ AfterInv)'
    BY NextTypes, NextTree, NextPack, NextRead, NextAfter
<1>3. TypeInv /\ TreeInv /\ PackInv /\ DiskInv /\ AfterInv => PipesFaithful
    BY PipesAreFaithful
<1> QED BY <1>1, <1>2, <1>3, PTL DEF Spec
=============================================================================
