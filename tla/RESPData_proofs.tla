--------------------------- MODULE RESPData_proofs ---------------------------
(* Theorems about RESPData: for any values, however long and however deeply   *)
(* nested, that checkData reads back what parseRESPString wrote, and what it   *)
(* takes the beginning of a value for.                                        *)
EXTENDS RESPData, SequenceTheorems, FiniteSetTheorems, WellFoundedInduction, TLAPS

-----------------------------------------------------------------------------
(* Induction and recursion, with sets and functions for formulas.             *)

\* A set of numbers that is not empty has a least element.
LEMMA LeastElement ==
    ASSUME NEW S \in SUBSET Nat, S # {}
    PROVE  \E m \in S : \A n \in S : m <= n
<1> DEFINE upTo == {0..n : n \in S}
<1>1. upTo \subseteq FiniteSubsetsOf(Nat) /\ upTo # {}
  <2>1. ASSUME NEW n \in S PROVE 0..n \in SUBSET Nat /\ IsFiniteSet(0..n)
    BY FS_Interval
  <2> QED
    BY <2>1 DEF FiniteSubsetsOf
<1>2. PICK x \in upTo : \A y \in upTo : ~(<<y, x>> \in StrictSubsetOrdering(Nat))
  <2> HIDE DEF upTo
  <2> QED
    BY <1>1, FS_StrictSubsetOrderingWellFounded, WFMin
<1>3. PICK m \in S : x = 0..m
  BY <1>2
<1>4. ASSUME NEW n \in S PROVE m <= n
  <2> SUFFICES ASSUME n < m PROVE FALSE
    OBVIOUS
  <2>1. 0..n \subseteq 0..m /\ m \in 0..m /\ m \notin 0..n
    OBVIOUS
  <2>2. <<0..n, x>> \in StrictSubsetOrdering(Nat)
    BY <2>1, <1>3 DEF StrictSubsetOrdering
  <2> QED
    BY <2>2, <1>2
<1> QED
  BY <1>4

\* A set that has 0 and, with each number, the next has all numbers.
LEMMA Induction ==
    ASSUME NEW T, 0 \in T, \A n \in Nat : n \in T => n + 1 \in T
    PROVE  \A n \in Nat : n \in T
<1> SUFFICES ASSUME {n \in Nat : n \notin T} # {} PROVE FALSE
  OBVIOUS
<1>1. PICK m \in {n \in Nat : n \notin T} : \A n \in {k \in Nat : k \notin T} : m <= n
  <2> DEFINE S == {n \in Nat : n \notin T}
  <2>1. S \in SUBSET Nat /\ S # {}
    OBVIOUS
  <2> QED
    BY <2>1, LeastElement
<1>2. m - 1 \in Nat /\ m - 1 \in T
  BY <1>1
<1> QED
  BY <1>1, <1>2

\* The same for the numbers up to n.
LEMMA InductionUpTo ==
    ASSUME NEW N \in Nat, NEW T, 0 \in T, \A i \in 1..N : i - 1 \in T => i \in T
    PROVE  \A i \in 0..N : i \in T
<1> DEFINE U == {k \in Nat : k \in T \/ k > N}
<1>1. 0 \in U /\ \A k \in Nat : k \in U => k + 1 \in U
  <2> SUFFICES ASSUME NEW k \in Nat, k \in U, k + 1 <= N PROVE k + 1 \in T
    OBVIOUS
  <2>1. k + 1 \in 1..N /\ (k + 1) - 1 = k /\ k \in T
    OBVIOUS
  <2> QED
    BY <2>1
<1>2. \A k \in Nat : k \in U
  <2> HIDE DEF U
  <2> QED
    BY <1>1, Induction
<1> QED
  BY <1>2

\* F is the body of a recursive definition on S, as a function of the argument and
\* of the function being defined; it looks only at arguments of lower rank.
LooksBelow(S, V, rank, F) ==
    \A x \in S, g \in [S -> V], h \in [S -> V] :
        (\A y \in S : rank[y] < rank[x] => g[y] = h[y]) => F[x][g] = F[x][h]
Solves(f, S, F) == \A x \in S : f[x] = F[x][f]

\* Such a definition defines a function.
LEMMA Recursion ==
    ASSUME NEW S, NEW V, V # {}, NEW rank \in [S -> Nat], NEW F \in [S -> [[S -> V] -> V]],
           LooksBelow(S, V, rank, F)
    PROVE  \E f \in [S -> V] : Solves(f, S, F)
<1>0. \A x \in S, g \in [S -> V], h \in [S -> V] :
         (\A y \in S : rank[y] < rank[x] => g[y] = h[y]) => F[x][g] = F[x][h]
  BY DEF LooksBelow
<1> DEFINE Below(k) == {g \in [S -> V] : \A x \in S : rank[x] < k => g[x] = F[x][g]}
<1>1. \A k \in Nat : Below(k) # {}
  <2> DEFINE T == {k \in Nat : Below(k) # {}}
  <2>1. 0 \in T
    <3>1. PICK a \in V : TRUE
      OBVIOUS
    <3>2. [x \in S |-> a] \in Below(0)
      BY <3>1
    <3> QED
      BY <3>2
  <2>2. ASSUME NEW k \in Nat, k \in T PROVE k + 1 \in T
    <3>1. PICK g \in [S -> V] : \A x \in S : rank[x] < k => g[x] = F[x][g]
      BY <2>2
    <3> DEFINE h == [x \in S |-> IF rank[x] < k THEN g[x] ELSE F[x][g]]
    <3>2. h \in [S -> V]
      BY <3>1
    <3>3. ASSUME NEW x \in S, rank[x] < k + 1 PROVE h[x] = F[x][h]
      <4>1. \A y \in S : rank[y] < rank[x] => h[y] = g[y]
        BY <3>1, <3>3
      <4>2. F[x][h] = F[x][g]
        <5> HIDE DEF h
        <5> QED
          BY <1>0, <3>1, <3>2, <4>1
      <4> QED
        BY <3>1, <4>2
    <3> HIDE DEF h
    <3>4. h \in Below(k + 1)
      BY <3>2, <3>3
    <3> QED
      BY <3>4
  <2> HIDE DEF T
  <2>3. \A k \in Nat : k \in T
    BY <2>1, <2>2, Induction
  <2> QED
    BY <2>3 DEF T
<1>2. ASSUME NEW j \in Nat, NEW k \in Nat, NEW g \in Below(j), NEW h \in Below(k)
      PROVE  \A x \in S : rank[x] < j /\ rank[x] < k => g[x] = h[x]
  <2> DEFINE T == {n \in Nat : \A x \in S : rank[x] < n /\ rank[x] < j /\ rank[x] < k => g[x] = h[x]}
  <2>1. 0 \in T
    OBVIOUS
  <2>2. ASSUME NEW n \in Nat, n \in T PROVE n + 1 \in T
    <3> SUFFICES ASSUME NEW x \in S, rank[x] < n + 1, rank[x] < j, rank[x] < k PROVE g[x] = h[x]
      OBVIOUS
    <3>1. \A y \in S : rank[y] < rank[x] => g[y] = h[y]
      BY <2>2
    <3>2. F[x][g] = F[x][h]
      BY <1>0, <3>1
    <3> QED
      BY <3>2
  <2>3. \A n \in Nat : n \in T
    <3> HIDE DEF T
    <3> QED
      BY <2>1, <2>2, Induction
  <2> QED
    BY <2>3
<1> DEFINE G(k) == CHOOSE g : g \in Below(k)
           f == [x \in S |-> G(rank[x] + 1)[x]]
<1>3. \A k \in Nat : G(k) \in Below(k)
  <2> HIDE DEF Below
  <2> QED
    BY <1>1
<1>4. f \in [S -> V]
  <2> SUFFICES ASSUME NEW x \in S PROVE G(rank[x] + 1)[x] \in V
    OBVIOUS
  <2>1. G(rank[x] + 1) \in [S -> V]
    <3>1. rank[x] + 1 \in Nat
      OBVIOUS
    <3> HIDE DEF G
    <3> QED
      BY <1>3, <3>1
  <2> HIDE DEF G
  <2> QED
    BY <2>1
<1>5. ASSUME NEW x \in S PROVE f[x] = F[x][f]
  <2>1. rank[x] + 1 \in Nat /\ G(rank[x] + 1) \in Below(rank[x] + 1)
    <3> HIDE DEF G, Below
    <3> QED
      BY <1>3
  <2>2. \A y \in S : rank[y] < rank[x] => f[y] = G(rank[x] + 1)[y]
    <3> SUFFICES ASSUME NEW y \in S, rank[y] < rank[x] PROVE G(rank[y] + 1)[y] = G(rank[x] + 1)[y]
      OBVIOUS
    <3>1. rank[y] + 1 \in Nat /\ G(rank[y] + 1) \in Below(rank[y] + 1)
      <4> HIDE DEF G, Below
      <4> QED
        BY <1>3
    <3>2. rank[y] < rank[y] + 1 /\ rank[y] < rank[x] + 1
      OBVIOUS
    <3> HIDE DEF G, Below, f
    <3> QED
      BY <1>2, <2>1, <3>1, <3>2
  <2>3. f[x] = G(rank[x] + 1)[x]
    OBVIOUS
  <2> HIDE DEF G, f
  <2>4. F[x][f] = F[x][G(rank[x] + 1)]
    BY <1>0, <1>4, <2>1, <2>2
  <2>5. \A g \in Below(rank[x] + 1) : g[x] = F[x][g]
    OBVIOUS
  <2> HIDE DEF Below
  <2> QED
    BY <2>1, <2>3, <2>4, <2>5
<1> HIDE DEF f
<1> QED
  BY <1>4, <1>5 DEF Solves

-----------------------------------------------------------------------------
(* Values: what they are, and induction over their parts.                     *)

\* What the assumption says of a value, type by type.
LEMMA Shapes ==
    ASSUME NEW v \in Parts
    PROVE  \/ v \in Lines /\ v.type \in {"+", "-"} /\ v.str \in Seq(Symbols \ {"CR"})
           \/ v \in Ints /\ v.type = ":" /\ v.int \in Numbers
           \/ v \in Strings /\ v.type = "$" /\ v.str = Null
           \/ v \in Strings /\ v.type = "$" /\ v.str # Null /\ v.str \in Seq(Symbols) /\ Len(v.str) \in 0..MaxNumber
           \/ v \in Arrays /\ v.type = "*" /\ v.vec \in Seq(Parts) /\ Len(v.vec) \in 0..MaxNumber
<1>1. v \in Lines \union Ints \union Strings \union Arrays
  BY RESPAssumption
<1>2. CASE v \in Lines
  BY <1>2 DEF Lines
<1>3. CASE v \in Ints
  BY <1>3 DEF Ints
<1>4. CASE v \in Strings
  <2>1. v.type = "$" /\ v.str \in {Null} \union {s \in Seq(Symbols) : Len(s) <= MaxNumber}
    BY <1>4 DEF Strings
  <2>2. \A s \in Seq(Symbols) : Len(s) \in Nat
    BY LenProperties
  <2> QED
    BY <1>4, <2>1, <2>2, RESPAssumption
<1>5. CASE v \in Arrays
  <2>1. v.type = "*" /\ v.vec \in {s \in Seq(Parts) : Len(s) <= MaxNumber}
    BY <1>5 DEF Arrays
  <2>2. Len(v.vec) \in Nat
    BY <2>1, LenProperties
  <2> QED
    BY <1>5, <2>1, <2>2, RESPAssumption
<1> QED
  BY <1>1, <1>2, <1>3, <1>4, <1>5

\* The elements of an array are values, less deep than the array.
LEMMA Elements ==
    ASSUME NEW v \in Parts, v.type = "*"
    PROVE  /\ Len(v.vec) \in 0..MaxNumber /\ MaxNumber \in Nat
           /\ DOMAIN v.vec = 1..Len(v.vec) /\ v.vec \in Seq(Parts)
           /\ v = [type |-> "*", vec |-> v.vec]
           /\ \A i \in 1..Len(v.vec) : v.vec[i] \in Parts /\ Height[v.vec[i]] < Height[v]
<1>1. v \in Arrays /\ v.vec \in Seq(Parts) /\ Len(v.vec) \in 0..MaxNumber
  BY Shapes
<1>2. DOMAIN v.vec = 1..Len(v.vec) /\ \A i \in 1..Len(v.vec) : v.vec[i] \in Parts
  BY <1>1, LenProperties, ElementOfSeq
<1>3. v = [type |-> "*", vec |-> v.vec]
  BY <1>1 DEF Arrays
<1> QED
  BY <1>1, <1>2, <1>3, RESPAssumption

\* What holds of a value when it holds of all that are less deep holds of all.
LEMMA HeightInduction ==
    ASSUME NEW T, \A v \in Parts : (\A w \in Parts : Height[w] < Height[v] => w \in T) => v \in T
    PROVE  \A v \in Parts : v \in T
<1> DEFINE S == {Height[v] : v \in Parts \ T}
<1> SUFFICES ASSUME NEW u \in Parts, u \notin T PROVE FALSE
  OBVIOUS
<1>1. S \in SUBSET Nat /\ S # {}
  BY RESPAssumption
<1>2. PICK m \in S : \A n \in S : m <= n
  <2> HIDE DEF S
  <2> QED
    BY <1>1, LeastElement
<1>3. PICK v \in Parts \ T : m = Height[v]
  BY <1>2
<1>4. ASSUME NEW w \in Parts, Height[w] < Height[v] PROVE w \in T
  <2> SUFFICES ASSUME w \notin T PROVE FALSE
    OBVIOUS
  <2>1. Height[w] \in S /\ Height[w] \in Nat /\ Height[v] \in Nat
    BY RESPAssumption
  <2>2. Height[v] <= Height[w]
    BY <1>2, <1>3, <2>1
  <2> QED
    BY <1>4, <2>1, <2>2
<1> QED
  BY <1>3, <1>4

-----------------------------------------------------------------------------
(* Sequences that are joined.                                                 *)

\* FlattenSeq joins its sequences from the first to the last.
Joins(f, n, ss) == /\ f[1] = ss[1] /\ FlattenSeq(ss) = f[n]
                   /\ \A i \in 2..n : f[i] = f[i - 1] \o ss[i]

LEMMA Flattened ==
    ASSUME NEW S, NEW n \in Nat \ {0}, NEW ss \in [1..n -> Seq(S)]
    PROVE  \E f \in [1..n -> Seq(S)] : Joins(f, n, ss)
<1>1. ss \in Seq(Seq(S)) /\ Len(ss) = n
  <2>1. \A i \in 1..n : ss[i] \in Seq(S)
    OBVIOUS
  <2>2. ss = [i \in 1..n |-> ss[i]]
    OBVIOUS
  <2> QED
    BY <2>1, <2>2
<1> DEFINE V == Seq(S)
           I == 1..n
           Body(i, g) == IF i = 1 THEN ss[i] ELSE g[i - 1] \o ss[i]
           F == [i \in I |-> [g \in [I -> V] |-> Body(i, g)]]
           rank == [i \in I |-> i]
           flatten == CHOOSE f : f = [i \in I |-> Body(i, f)]
<1>2. V # {} /\ rank \in [I -> Nat]
  BY EmptySeq
<1>3. \A i \in I : \A g \in [I -> V] : Body(i, g) \in V
  <2> SUFFICES ASSUME NEW i \in I, NEW g \in [I -> V] PROVE Body(i, g) \in V
    OBVIOUS
  <2>1. i # 1 => i - 1 \in I
    OBVIOUS
  <2> QED
    BY <2>1, ConcatProperties
<1>4. \A i \in I : \A g \in [I -> V] : F[i][g] = Body(i, g)
  <2> HIDE DEF Body, I, V
  <2> QED
    OBVIOUS
<1>5. F \in [I -> [[I -> V] -> V]]
  <2> HIDE DEF Body, I, V
  <2> QED
    BY <1>3
<1>6. LooksBelow(I, V, rank, F)
  <2> SUFFICES ASSUME NEW i \in I, NEW g \in [I -> V], NEW h \in [I -> V],
                      \A j \in I : rank[j] < rank[i] => g[j] = h[j]
               PROVE  F[i][g] = F[i][h]
    <3> HIDE DEF Body, F, I, V, rank
    <3> QED
      BY DEF LooksBelow
  <2>1. i # 1 => i - 1 \in I /\ g[i - 1] = h[i - 1]
    OBVIOUS
  <2>2. Body(i, g) = Body(i, h)
    BY <2>1
  <2>3. F[i][g] = Body(i, g) /\ F[i][h] = Body(i, h)
    <3> HIDE DEF Body, F, I, V
    <3> QED
      BY <1>4
  <2> HIDE DEF Body, F
  <2> QED
    BY <2>2, <2>3
<1>7. PICK f \in [I -> V] : Solves(f, I, F)
  <2> HIDE DEF F, rank, V, I
  <2> QED
    BY <1>2, <1>5, <1>6, Recursion
<1>8. f = [i \in I |-> Body(i, f)]
  <2> HIDE DEF Body, F, V, I
  <2> QED
    BY <1>4, <1>7 DEF Solves
<1>9. flatten = [i \in I |-> Body(i, flatten)]
  <2> HIDE DEF Body
  <2> QED
    BY <1>8
<1>10. FlattenSeq(ss) = flatten[n]
  BY <1>1 DEF FlattenSeq
<1> HIDE DEF flatten
<1>11. flatten[1] = ss[1] /\ \A i \in 2..n : flatten[i] = flatten[i - 1] \o ss[i]
  <2>1. \A i \in I : flatten[i] = Body(i, flatten)
    <3> HIDE DEF Body, I
    <3> QED
      BY <1>9
  <2>2. flatten[1] = ss[1]
    BY <2>1
  <2>3. ASSUME NEW i \in 2..n PROVE flatten[i] = flatten[i - 1] \o ss[i]
    <3>1. i \in I /\ i # 1
      OBVIOUS
    <3>2. flatten[i] = Body(i, flatten)
      BY <2>1, <3>1
    <3> QED
      BY <3>1, <3>2
  <2> QED
    BY <2>2, <2>3
<1>12. \A i \in 1..n : flatten[i] \in V
  <2> DEFINE T == {k \in Nat : k = 0 \/ flatten[k] \in V}
  <2>0. 0 \in T
    OBVIOUS
  <2>1. \A i \in 1..n : i - 1 \in T => i \in T
    <3> SUFFICES ASSUME NEW i \in 1..n, i - 1 \in T PROVE flatten[i] \in V
      OBVIOUS
    <3>1. CASE i = 1
      BY <1>11, <3>1
    <3>2. CASE i # 1
      <4>1. i \in 2..n /\ flatten[i - 1] \in Seq(S) /\ ss[i] \in Seq(S)
        BY <3>2
      <4>2. flatten[i - 1] \o ss[i] \in Seq(S)
        BY <4>1, ConcatProperties
      <4> QED
        BY <1>11, <4>1, <4>2
    <3> QED
      BY <3>1, <3>2
  <2> HIDE DEF T
  <2>2. \A i \in 0..n : i \in T
    BY <2>0, <2>1, InductionUpTo
  <2> QED
    BY <2>2 DEF T
<1>13. flatten \in [1..n -> V]
  <2> HIDE DEF Body, V
  <2> QED
    BY <1>9, <1>12
<1> HIDE DEF V
<1> QED
  BY <1>10, <1>11, <1>13 DEF V, Joins

\* The first i of the sequences joined.
Joined(ss, i) == FlattenSeq([j \in 1..i |-> ss[j]])

\* Each is the one before with the next sequence at its end.
LEMMA Joining ==
    ASSUME NEW S, NEW n \in Nat, NEW ss \in [1..n -> Seq(S)]
    PROVE  /\ Joined(ss, 0) = <<>> /\ Joined(ss, n) = FlattenSeq(ss)
           /\ \A i \in 0..n : Joined(ss, i) \in Seq(S)
           /\ \A i \in 1..n : Joined(ss, i) = Joined(ss, i - 1) \o ss[i]
<1>1. Joined(ss, 0) = <<>>
  <2>1. [j \in 1..0 |-> ss[j]] = <<>>
    OBVIOUS
  <2>2. Len(<<>>) = 0
    BY EmptySeq
  <2> QED
    BY <2>1, <2>2 DEF Joined, FlattenSeq
<1>2. Joined(ss, n) = FlattenSeq(ss)
  <2>1. [j \in 1..n |-> ss[j]] = ss
    OBVIOUS
  <2> QED
    BY <2>1 DEF Joined
<1> DEFINE First(i) == [j \in 1..i |-> ss[j]]
<1>3. ASSUME NEW i \in 1..n
      PROVE  \E f \in [1..i -> Seq(S)] : /\ f[1] = ss[1] /\ f[i] = Joined(ss, i)
                                         /\ \A k \in 2..i : f[k] = f[k - 1] \o ss[k]
  <2>1. First(i) \in [1..i -> Seq(S)] /\ i \in Nat \ {0}
    OBVIOUS
  <2>2. PICK f \in [1..i -> Seq(S)] : Joins(f, i, First(i))
    <3> HIDE DEF First
    <3> QED
      BY <2>1, Flattened
  <2>3. 1 \in 1..i /\ \A k \in 2..i : k \in 1..i
    BY <2>1
  <2>4. f[1] = ss[1] /\ f[i] = Joined(ss, i)
    BY <2>2, <2>3 DEF Joins, Joined
  <2>5. \A k \in 2..i : First(i)[k] = ss[k]
    BY <2>3
  <2>6. \A k \in 2..i : f[k] = f[k - 1] \o ss[k]
    <3> HIDE DEF First
    <3> QED
      BY <2>2, <2>5 DEF Joins
  <2> QED
    BY <2>4, <2>6
<1>4. ASSUME NEW i \in 1..n, i # 1 PROVE Joined(ss, i) = Joined(ss, i - 1) \o ss[i]
  <2>1. i - 1 \in 1..n /\ i \in 2..i
    BY <1>4
  <2>2. PICK f \in [1..i -> Seq(S)] : /\ f[1] = ss[1] /\ f[i] = Joined(ss, i)
                                      /\ \A k \in 2..i : f[k] = f[k - 1] \o ss[k]
    BY <1>3
  <2>3. PICK g \in [1..(i - 1) -> Seq(S)] : /\ g[1] = ss[1] /\ g[i - 1] = Joined(ss, i - 1)
                                            /\ \A k \in 2..(i - 1) : g[k] = g[k - 1] \o ss[k]
    BY <1>3, <2>1
  <2> DEFINE T == {k \in Nat : k = 0 \/ f[k] = g[k]}
  <2>4. 0 \in T
    OBVIOUS
  <2>5. \A k \in 1..(i - 1) : k - 1 \in T => k \in T
    <3> SUFFICES ASSUME NEW k \in 1..(i - 1), k - 1 \in T PROVE f[k] = g[k]
      OBVIOUS
    <3>1. CASE k = 1
      BY <2>2, <2>3, <3>1
    <3>2. CASE k # 1
      <4>1. k \in 2..i /\ k \in 2..(i - 1) /\ f[k - 1] = g[k - 1]
        BY <3>2
      <4>2. f[k] = f[k - 1] \o ss[k] /\ g[k] = g[k - 1] \o ss[k]
        BY <2>2, <2>3, <4>1
      <4> QED
        BY <4>1, <4>2
    <3> QED
      BY <3>1, <3>2
  <2>6. i - 1 \in T
    <3>1. i - 1 \in Nat /\ i - 1 \in 0..(i - 1)
      OBVIOUS
    <3> HIDE DEF T
    <3> QED
      BY <2>4, <2>5, <3>1, InductionUpTo
  <2>7. f[i - 1] = g[i - 1]
    BY <1>4, <2>6
  <2> QED
    BY <2>1, <2>2, <2>3, <2>7
<1>5. ASSUME n # 0 PROVE Joined(ss, 1) = ss[1]
  <2>1. 1 \in 1..n
    BY <1>5
  <2> QED
    BY <1>3, <2>1
<1>6. \A i \in 0..n : Joined(ss, i) \in Seq(S)
  <2> SUFFICES ASSUME NEW i \in 1..n PROVE Joined(ss, i) \in Seq(S)
    <3>1. <<>> \in Seq(S)
      BY EmptySeq
    <3>2. \A i \in 0..n : i = 0 \/ i \in 1..n
      OBVIOUS
    <3> QED
      BY <1>1, <3>1, <3>2, Zenon
  <2>1. i \in 1..i
    OBVIOUS
  <2>2. PICK f \in [1..i -> Seq(S)] : f[i] = Joined(ss, i)
    BY <1>3
  <2> QED
    BY <2>1, <2>2
<1>7. \A i \in 1..n : Joined(ss, i) = Joined(ss, i - 1) \o ss[i]
  <2> SUFFICES ASSUME NEW i \in 1..n PROVE Joined(ss, i) = Joined(ss, i - 1) \o ss[i]
    OBVIOUS
  <2>1. CASE i = 1
    <3>1. i - 1 = 0 /\ n # 0 /\ ss[1] \in Seq(S)
      BY <2>1
    <3>2. <<>> \o ss[1] = ss[1]
      BY <3>1, ConcatEmptySeq
    <3> QED
      BY <1>1, <1>5, <2>1, <3>1, <3>2
  <2> QED
    BY <1>4, <2>1
<1> QED
  BY <1>1, <1>2, <1>6, <1>7

\* So every sequence is found in the whole, at the length of those before it.
InPlace(n, ss) ==
    /\ \A i \in 0..n : Len(Joined(ss, i)) \in Nat /\ Len(Joined(ss, i)) <= Len(Joined(ss, n))
    /\ \A i \in 1..n : Len(ss[i]) \in Nat /\ Len(Joined(ss, i)) = Len(Joined(ss, i - 1)) + Len(ss[i])
    /\ \A i \in 1..n : \A k \in 1..Len(ss[i]) : FlattenSeq(ss)[Len(Joined(ss, i - 1)) + k] = ss[i][k]

LEMMA JoinedAt ==
    ASSUME NEW S, NEW n \in Nat, NEW ss \in [1..n -> Seq(S)]
    PROVE  InPlace(n, ss)
<1> DEFINE J(i) == Joined(ss, i)
<1>1. /\ J(0) = <<>> /\ J(n) = FlattenSeq(ss)
      /\ \A i \in 0..n : J(i) \in Seq(S)
      /\ \A i \in 1..n : J(i) = J(i - 1) \o ss[i]
  BY Joining
<1> HIDE DEF J
<1>2. ASSUME NEW i \in 1..n
      PROVE  /\ J(i - 1) \in Seq(S) /\ Len(J(i - 1)) \in Nat /\ Len(ss[i]) \in Nat
             /\ Len(J(i)) = Len(J(i - 1)) + Len(ss[i])
             /\ \A k \in 1..Len(J(i - 1)) : J(i)[k] = J(i - 1)[k]
             /\ \A k \in 1..Len(ss[i]) : J(i)[Len(J(i - 1)) + k] = ss[i][k]
  <2>0. i - 1 \in 0..n
    OBVIOUS
  <2>1. J(i - 1) \in Seq(S) /\ ss[i] \in Seq(S) /\ J(i) = J(i - 1) \o ss[i]
    BY <1>1, <2>0
  <2>2. Len(J(i - 1)) \in Nat /\ Len(ss[i]) \in Nat
    BY <2>1, LenProperties
  <2>3. /\ Len(J(i)) = Len(J(i - 1)) + Len(ss[i])
        /\ \A k \in 1..Len(J(i - 1)) + Len(ss[i]) :
              J(i)[k] = IF k <= Len(J(i - 1)) THEN J(i - 1)[k] ELSE ss[i][k - Len(J(i - 1))]
    BY <2>1, ConcatProperties
  <2> QED
    BY <2>1, <2>2, <2>3
<1>3. \A i \in 0..n : Len(J(i)) \in Nat
  BY <1>1, LenProperties
<1>4. ASSUME NEW i \in 0..n
      PROVE  Len(J(i)) <= Len(J(n)) /\ \A k \in 1..Len(J(i)) : J(n)[k] = J(i)[k]
  <2> DEFINE T == {d \in Nat : i + d <= n =>
                      Len(J(i)) <= Len(J(i + d)) /\ \A k \in 1..Len(J(i)) : J(i + d)[k] = J(i)[k]}
  <2>1. 0 \in T
    BY <1>3
  <2>2. \A d \in Nat : d \in T => d + 1 \in T
    <3> SUFFICES ASSUME NEW d \in Nat, d \in T, i + (d + 1) <= n
                 PROVE  /\ Len(J(i)) <= Len(J(i + (d + 1)))
                        /\ \A k \in 1..Len(J(i)) : J(i + (d + 1))[k] = J(i)[k]
      OBVIOUS
    <3> DEFINE m == i + (d + 1)
    <3>1. m \in 1..n /\ m - 1 = i + d /\ i + d <= n
      OBVIOUS
    <3>2. Len(J(i)) <= Len(J(m - 1)) /\ \A k \in 1..Len(J(i)) : J(m - 1)[k] = J(i)[k]
      BY <3>1
    <3> HIDE DEF m
    <3>3. /\ Len(J(m - 1)) \in Nat /\ Len(J(m)) = Len(J(m - 1)) + Len(ss[m]) /\ Len(ss[m]) \in Nat
          /\ \A k \in 1..Len(J(m - 1)) : J(m)[k] = J(m - 1)[k]
      BY <1>2, <3>1
    <3>4. Len(J(i)) \in Nat
      BY <1>3
    <3>5. Len(J(i)) <= Len(J(m)) /\ \A k \in 1..Len(J(i)) : k \in 1..Len(J(m - 1))
      <4> DEFINE a == Len(J(i))
                 b == Len(J(m - 1))
                 c == Len(ss[m])
      <4>1. a \in Nat /\ b \in Nat /\ c \in Nat /\ a <= b /\ Len(J(m)) = b + c
        BY <3>2, <3>3, <3>4
      <4> HIDE DEF a, b, c
      <4>2. a <= Len(J(m)) /\ \A k \in 1..a : k \in 1..b
        BY <4>1
      <4> QED
        BY <4>2 DEF a, b
    <3>6. \A k \in 1..Len(J(i)) : J(m)[k] = J(i)[k]
      BY <3>2, <3>3, <3>5
    <3> QED
      BY <3>5, <3>6 DEF m
  <2>3. n - i \in T
    <3>1. n - i \in Nat
      OBVIOUS
    <3> HIDE DEF T
    <3> QED
      BY <2>1, <2>2, <3>1, Induction
  <2>4. i + (n - i) = n
    OBVIOUS
  <2> QED
    BY <2>3, <2>4
<1>5. ASSUME NEW i \in 1..n, NEW k \in 1..Len(ss[i])
      PROVE  FlattenSeq(ss)[Len(J(i - 1)) + k] = ss[i][k]
  <2>1. Len(J(i - 1)) + k \in 1..Len(J(i)) /\ J(i)[Len(J(i - 1)) + k] = ss[i][k]
    BY <1>2
  <2>2. J(n)[Len(J(i - 1)) + k] = J(i)[Len(J(i - 1)) + k]
    BY <1>4, <2>1
  <2> QED
    BY <1>1, <2>1, <2>2
<1> QED
  BY <1>2, <1>3, <1>4, <1>5 DEF J, InPlace

-----------------------------------------------------------------------------
(* What parseRESPString writes.                                               *)

\* What two sequences joined have where.
Appends(S, a, b) ==
    /\ Len(a) \in Nat /\ Len(b) \in Nat /\ a \o b \in Seq(S) /\ Len(a \o b) = Len(a) + Len(b)
    /\ \A i \in 1..Len(a) : (a \o b)[i] = a[i]
    /\ \A i \in 1..Len(b) : (a \o b)[Len(a) + i] = b[i]

LEMMA Appended ==
    ASSUME NEW S, NEW a \in Seq(S), NEW b \in Seq(S)
    PROVE  Appends(S, a, b)
<1> DEFINE m == Len(a)
           n == Len(b)
<1>1. m \in Nat /\ n \in Nat
  BY LenProperties
<1>2. /\ a \o b \in Seq(S) /\ Len(a \o b) = m + n
      /\ \A i \in 1..(m + n) : (a \o b)[i] = IF i <= m THEN a[i] ELSE b[i - m]
  BY ConcatProperties
<1> HIDE DEF m, n
<1>3. \A i \in 1..m : i \in 1..(m + n) /\ i <= m
  BY <1>1
<1>4. \A i \in 1..n : m + i \in 1..(m + n) /\ ~(m + i <= m) /\ (m + i) - m = i
  BY <1>1
<1>5. /\ \A i \in 1..m : (a \o b)[i] = a[i]
      /\ \A i \in 1..n : (a \o b)[m + i] = b[i]
  BY <1>2, <1>3, <1>4
<1> QED
  BY <1>1, <1>2, <1>5 DEF m, n, Appends

\* The four symbols before a string's content or an array's elements.
LEMMA Header ==
    ASSUME NEW a \in Types, NEW n \in Numbers
    PROVE  /\ <<a, Digits[n]>> \o CRLF \in Seq(Symbols)
           /\ Len(<<a, Digits[n]>> \o CRLF) = 4
           /\ (<<a, Digits[n]>> \o CRLF)[1] = a /\ (<<a, Digits[n]>> \o CRLF)[2] = Digits[n]
           /\ (<<a, Digits[n]>> \o CRLF)[3] = "CR" /\ (<<a, Digits[n]>> \o CRLF)[4] = "LF"
<1>1. a \in Symbols /\ Digits[n] \in Symbols /\ "CR" \in Symbols /\ "LF" \in Symbols
  BY RESPAssumption
<1> DEFINE s == <<a, Digits[n]>>
           t == <<"CR", "LF">>
<1>2. s \in Seq(Symbols) /\ t \in Seq(Symbols)
  BY <1>1
<1>3. Len(s) = 2 /\ Len(t) = 2 /\ s[1] = a /\ s[2] = Digits[n] /\ t[1] = "CR" /\ t[2] = "LF"
  OBVIOUS
<1> HIDE DEF s, t
<1>4. /\ s \o t \in Seq(Symbols) /\ Len(s \o t) = 4
      /\ (s \o t)[1] = s[1] /\ (s \o t)[2] = s[2] /\ (s \o t)[3] = t[1] /\ (s \o t)[4] = t[2]
  <2>1. /\ s \o t \in Seq(Symbols) /\ Len(s \o t) = Len(s) + Len(t)
        /\ \A i \in 1..(Len(s) + Len(t)) : (s \o t)[i] = IF i <= Len(s) THEN s[i] ELSE t[i - Len(s)]
    BY <1>2, ConcatProperties
  <2>2. Len(s) + Len(t) = 4
    BY <1>3
  <2> QED
    BY <1>3, <2>1, <2>2
<1> QED
  BY <1>3, <1>4 DEF s, t, CRLF

LEMMA CRLFIs == CRLF \in Seq(Symbols) /\ Len(CRLF) = 2 /\ CRLF[1] = "CR" /\ CRLF[2] = "LF"
<1>1. "CR" \in Symbols /\ "LF" \in Symbols
  BY RESPAssumption
<1> DEFINE t == <<"CR", "LF">>
<1>2. t \in Seq(Symbols)
  BY <1>1
<1>3. Len(t) = 2 /\ t[1] = "CR" /\ t[2] = "LF"
  OBVIOUS
<1> HIDE DEF t
<1> QED
  BY <1>2, <1>3 DEF t, CRLF

LEMMA EncodingTypes ==
    ASSUME NEW f \in [Parts -> Seq(Symbols)], NEW v \in Parts
    PROVE  EncodedBy(f, v) \in Seq(Symbols)
<1>1. CASE v.type \in {"+", "-"}
  <2>1. v.str \in Seq(Symbols \ {"CR"}) /\ v.type \in Symbols
    BY <1>1, Shapes, RESPAssumption DEF Types
  <2>2. v.str \in Seq(Symbols) /\ <<v.type>> \in Seq(Symbols)
    BY <2>1, SeqMonotonic
  <2>3. <<v.type>> \o v.str \o CRLF \in Seq(Symbols)
    BY <2>2, CRLFIs, ConcatProperties
  <2> QED
    BY <1>1, <2>3 DEF EncodedBy
<1>2. CASE v.type = ":"
  <2>1. v.int \in Numbers
    BY <1>2, Shapes
  <2>2. <<":", Digits[v.int]>> \o CRLF \in Seq(Symbols)
    BY <2>1, Header DEF Types
  <2> QED
    BY <1>2, <2>2 DEF EncodedBy
<1>3. CASE v.type = "$" /\ v.str = Null
  <2>1. -1 \in Numbers
    BY RESPAssumption DEF Numbers
  <2>2. <<"$", Digits[-1]>> \o CRLF \in Seq(Symbols)
    BY <2>1, Header DEF Types
  <2> QED
    BY <1>3, <2>2 DEF EncodedBy
<1>4. CASE v.type = "$" /\ v.str # Null
  <2>1. v.str \in Seq(Symbols) /\ Len(v.str) \in Numbers
    <3>1. v.str \in Seq(Symbols) /\ Len(v.str) \in 0..MaxNumber
      BY <1>4, Shapes
    <3>2. MaxNumber \in Nat
      BY RESPAssumption
    <3> QED
      BY <3>1, <3>2 DEF Numbers
  <2>2. <<"$", Digits[Len(v.str)]>> \o CRLF \in Seq(Symbols)
    BY <2>1, Header DEF Types
  <2>3. (<<"$", Digits[Len(v.str)]>> \o CRLF) \o v.str \in Seq(Symbols)
    BY <2>1, <2>2, ConcatProperties
  <2>4. ((<<"$", Digits[Len(v.str)]>> \o CRLF) \o v.str) \o CRLF \in Seq(Symbols)
    BY <2>3, CRLFIs, ConcatProperties
  <2> QED
    BY <1>4, <2>4 DEF EncodedBy
<1>5. CASE v.type = "*"
  <2> DEFINE ss == [i \in DOMAIN v.vec |-> f[v.vec[i]]]
  <2>1. Len(v.vec) \in Numbers /\ Len(v.vec) \in Nat /\ ss \in [1..Len(v.vec) -> Seq(Symbols)]
    BY <1>5, Elements DEF Numbers
  <2>2. <<"*", Digits[Len(v.vec)]>> \o CRLF \in Seq(Symbols)
    BY <2>1, Header DEF Types
  <2>3. FlattenSeq(ss) \in Seq(Symbols)
    <3>1. Len(v.vec) \in 0..Len(v.vec)
      BY <2>1
    <3> HIDE DEF ss
    <3> QED
      BY <2>1, <3>1, Joining
  <2>4. (<<"*", Digits[Len(v.vec)]>> \o CRLF) \o FlattenSeq(ss) \in Seq(Symbols)
    BY <2>2, <2>3, ConcatProperties
  <2> QED
    BY <1>5, <2>4 DEF EncodedBy
<1> QED
  BY <1>1, <1>2, <1>3, <1>4, <1>5, Shapes

\* parseRESPString is the function its recursive definition describes.
LEMMA Encoding ==
    /\ parseRESPString \in [Parts -> Seq(Symbols)]
    /\ \A v \in Parts : parseRESPString[v] = EncodedBy(parseRESPString, v)
<1> DEFINE V == Seq(Symbols)
           F == [v \in Parts |-> [f \in [Parts -> V] |-> EncodedBy(f, v)]]
<1>1. V # {} /\ Height \in [Parts -> Nat]
  BY EmptySeq, RESPAssumption
<1>2. F \in [Parts -> [[Parts -> V] -> V]] /\ \A v \in Parts : \A f \in [Parts -> V] : F[v][f] = EncodedBy(f, v)
  BY EncodingTypes
<1>3. LooksBelow(Parts, V, Height, F)
  <2> SUFFICES ASSUME NEW v \in Parts, NEW g \in [Parts -> V], NEW h \in [Parts -> V],
                      \A w \in Parts : Height[w] < Height[v] => g[w] = h[w]
               PROVE  EncodedBy(g, v) = EncodedBy(h, v)
    <3> HIDE DEF F, V
    <3> QED
      BY <1>2 DEF LooksBelow
  <2>1. CASE v.type = "*"
    <3>1. \A i \in DOMAIN v.vec : g[v.vec[i]] = h[v.vec[i]]
      BY <2>1, Elements
    <3>2. [i \in DOMAIN v.vec |-> g[v.vec[i]]] = [i \in DOMAIN v.vec |-> h[v.vec[i]]]
      BY <3>1
    <3> QED
      BY <2>1, <3>2 DEF EncodedBy
  <2>2. CASE v.type # "*"
    <3>1. v.type \in {"+", "-"} \/ v.type = ":" \/ (v.type = "$" /\ v.str = Null) \/ (v.type = "$" /\ v.str # Null)
      BY <2>2, Shapes
    <3> QED
      BY <3>1 DEF EncodedBy
  <2> QED
    BY <2>1, <2>2
<1>4. PICK f \in [Parts -> V] : Solves(f, Parts, F)
  <2> HIDE DEF F, V
  <2> QED
    BY <1>1, <1>2, <1>3, Recursion
<1>5. f = [v \in Parts |-> EncodedBy(f, v)]
  <2> HIDE DEF F, V
  <2> QED
    BY <1>2, <1>4 DEF Solves
<1>6. parseRESPString = CHOOSE g : g = [v \in Parts |-> EncodedBy(g, v)]
  BY DEF parseRESPString
<1>7. parseRESPString = [v \in Parts |-> EncodedBy(parseRESPString, v)]
  BY <1>5, <1>6
<1>8. \A v \in Parts : parseRESPString[v] \in V
  <2> DEFINE T == {v \in Parts : parseRESPString[v] \in V}
  <2>1. ASSUME NEW v \in Parts, \A w \in Parts : Height[w] < Height[v] => w \in T
        PROVE  v \in T
    <3> DEFINE g == [w \in Parts |-> IF w \in T THEN parseRESPString[w] ELSE <<>>]
    <3>1. g \in [Parts -> Seq(Symbols)]
      BY EmptySeq
    <3>2. EncodedBy(g, v) = EncodedBy(parseRESPString, v)
      <4>1. CASE v.type = "*"
        <5>1. \A i \in DOMAIN v.vec : g[v.vec[i]] = parseRESPString[v.vec[i]]
          BY <2>1, <4>1, Elements
        <5>2. [i \in DOMAIN v.vec |-> g[v.vec[i]]] = [i \in DOMAIN v.vec |-> parseRESPString[v.vec[i]]]
          BY <5>1
        <5> HIDE DEF g
        <5> QED
          BY <4>1, <5>2 DEF EncodedBy
      <4>2. CASE v.type # "*"
        <5>1. v.type \in {"+", "-"} \/ v.type = ":" \/ (v.type = "$" /\ v.str = Null) \/ (v.type = "$" /\ v.str # Null)
          BY <4>2, Shapes
        <5> HIDE DEF g
        <5> QED
          BY <5>1 DEF EncodedBy
      <4> QED
        BY <4>1, <4>2
    <3> HIDE DEF g
    <3>3. EncodedBy(g, v) \in Seq(Symbols)
      BY <3>1, EncodingTypes
    <3> QED
      BY <1>7, <3>2, <3>3
  <2> HIDE DEF T
  <2>2. \A v \in Parts : v \in T
    BY <2>1, HeightInduction
  <2> QED
    BY <2>2 DEF T
<1> HIDE DEF V
<1>9. parseRESPString \in [Parts -> V]
  <2> DEFINE G(v) == EncodedBy(parseRESPString, v)
  <2>1. parseRESPString = [v \in Parts |-> G(v)]
    BY <1>7
  <2> HIDE DEF G
  <2> QED
    BY <1>8, <2>1
<1>10. \A v \in Parts : parseRESPString[v] = EncodedBy(parseRESPString, v)
  <2> DEFINE G(v) == EncodedBy(parseRESPString, v)
  <2>1. parseRESPString = [v \in Parts |-> G(v)]
    BY <1>7
  <2>2. \A v \in Parts : parseRESPString[v] = G(v)
    <3> HIDE DEF G
    <3> QED
      BY <2>1
  <2> QED
    BY <2>2
<1> QED
  BY <1>9, <1>10 DEF V

\* Where everything is in what is written: a line,
LineLaid(v) ==
    LET e == parseRESPString[v]
        n == Len(v.str) IN
    /\ n \in Nat /\ Len(e) = n + 3
    /\ e[1] = v.type /\ e[n + 2] = "CR"
    /\ \A k \in 1..n : e[1 + k] = v.str[k] /\ v.str[k] # "CR"
    /\ v.str \in Seq(Symbols) /\ v = [type |-> v.type, str |-> v.str]

LEMMA LineLayout ==
    ASSUME NEW v \in Parts, v.type \in {"+", "-"}
    PROVE  LineLaid(v)
<1> DEFINE e == parseRESPString[v]
           n == Len(v.str)
<1>1. v \in Lines /\ v.str \in Seq(Symbols \ {"CR"}) /\ v.type \in Symbols
  BY Shapes, RESPAssumption DEF Types
<1>2. v = [type |-> v.type, str |-> v.str]
  BY <1>1 DEF Lines
<1>3. n \in Nat /\ \A k \in 1..n : v.str[k] # "CR"
  BY <1>1, LenProperties, ElementOfSeq
<1> DEFINE a == <<v.type>>
           b == a \o v.str
<1>4. v.str \in Seq(Symbols) /\ a \in Seq(Symbols) /\ Len(a) = 1 /\ a[1] = v.type
  BY <1>1, SeqMonotonic
<1>5. e = b \o CRLF
  BY Encoding DEF EncodedBy
<1> HIDE DEF a
<1>6. /\ b \in Seq(Symbols) /\ Len(b) = 1 + n
      /\ b[1] = v.type /\ \A k \in 1..n : b[1 + k] = v.str[k]
  <2>1. /\ b \in Seq(Symbols) /\ Len(b) = Len(a) + n
        /\ \A i \in 1..Len(a) : b[i] = a[i]
        /\ \A i \in 1..n : b[Len(a) + i] = v.str[i]
    <3>1. Appends(Symbols, a, v.str)
      BY <1>4, Appended
    <3> QED
      BY <3>1 DEF Appends
  <2> HIDE DEF b
  <2> QED
    BY <1>4, <2>1
<1> HIDE DEF b
<1>7. /\ Len(e) = n + 3 /\ e[n + 2] = "CR"
      /\ \A k \in 1..(n + 1) : e[k] = b[k]
  <2>1. /\ Len(e) = Len(b) + 2
        /\ \A i \in 1..Len(b) : e[i] = b[i]
        /\ \A i \in 1..2 : e[Len(b) + i] = CRLF[i]
    <3>1. /\ Len(b \o CRLF) = Len(b) + Len(CRLF)
          /\ \A i \in 1..Len(b) : (b \o CRLF)[i] = b[i]
          /\ \A i \in 1..Len(CRLF) : (b \o CRLF)[Len(b) + i] = CRLF[i]
      <4>1. Appends(Symbols, b, CRLF)
        BY <1>6, CRLFIs, Appended
      <4> QED
        BY <4>1 DEF Appends
    <3> QED
      BY <1>5, <3>1, CRLFIs
  <2>2. Len(b) + 2 = n + 3 /\ Len(b) + 1 = n + 2 /\ Len(b) = n + 1
    BY <1>3, <1>6
  <2>3. e[Len(b) + 1] = "CR"
    BY <2>1, CRLFIs
  <2> QED
    BY <2>1, <2>2, <2>3
<1>8. e[1] = b[1] /\ \A k \in 1..n : e[1 + k] = b[1 + k]
  BY <1>3, <1>7
<1> QED
  BY <1>2, <1>3, <1>4, <1>6, <1>7, <1>8 DEF LineLaid

\* an integer,
IntLaid(v) ==
    LET e == parseRESPString[v] IN
    /\ v.int \in Numbers /\ Len(e) = 4
    /\ e[1] = ":" /\ e[2] = Digits[v.int] /\ e[3] = "CR"
    /\ v = [type |-> ":", int |-> v.int]

LEMMA IntLayout ==
    ASSUME NEW v \in Parts, v.type = ":"
    PROVE  IntLaid(v)
<1> DEFINE e == parseRESPString[v]
<1>1. v \in Ints /\ v.int \in Numbers
  BY Shapes
<1>2. v = [type |-> ":", int |-> v.int]
  BY <1>1 DEF Ints
<1>3. e = <<":", Digits[v.int]>> \o CRLF
  BY Encoding DEF EncodedBy
<1>4. Len(e) = 4 /\ e[1] = ":" /\ e[2] = Digits[v.int] /\ e[3] = "CR"
  BY <1>1, <1>3, Header DEF Types
<1> QED
  BY <1>1, <1>2, <1>4 DEF IntLaid

\* a null string,
NullLaid(v) ==
    LET e == parseRESPString[v] IN
    -1 \in Numbers /\ Len(e) = 4 /\ e[1] = "$" /\ e[2] = Digits[-1] /\ e[3] = "CR"

LEMMA NullLayout ==
    ASSUME NEW v \in Parts, v.type = "$", v.str = Null
    PROVE  NullLaid(v)
<1> DEFINE e == parseRESPString[v]
<1>1. -1 \in Numbers
  BY RESPAssumption DEF Numbers
<1>2. e = <<"$", Digits[-1]>> \o CRLF
  BY Encoding DEF EncodedBy
<1>3. Len(e) = 4 /\ e[1] = "$" /\ e[2] = Digits[-1] /\ e[3] = "CR"
  BY <1>1, <1>2, Header DEF Types
<1> QED
  BY <1>1, <1>3 DEF NullLaid

\* a string,
StringLaid(v) ==
    LET e == parseRESPString[v]
        n == Len(v.str) IN
    /\ n \in Nat /\ n \in Numbers /\ Len(e) = n + 6
    /\ e[1] = "$" /\ e[2] = Digits[n] /\ e[3] = "CR"
    /\ \A k \in 1..n : e[4 + k] = v.str[k]
    /\ v.str \in Seq(Symbols) /\ v = [type |-> "$", str |-> v.str]

LEMMA StringLayout ==
    ASSUME NEW v \in Parts, v.type = "$", v.str # Null
    PROVE  StringLaid(v)
<1> DEFINE e == parseRESPString[v]
           n == Len(v.str)
<1>1. v \in Strings /\ v.str \in Seq(Symbols) /\ n \in 0..MaxNumber
  BY Shapes
<1>2. v = [type |-> "$", str |-> v.str]
  BY <1>1 DEF Strings
<1>3. n \in Nat /\ n \in Numbers
  <2>1. MaxNumber \in Nat
    BY RESPAssumption
  <2> QED
    BY <1>1, <2>1 DEF Numbers
<1> DEFINE a == <<"$", Digits[n]>> \o CRLF
           b == a \o v.str
<1>4. e = b \o CRLF
  BY Encoding DEF EncodedBy
<1>5. /\ a \in Seq(Symbols) /\ Len(a) = 4
      /\ a[1] = "$" /\ a[2] = Digits[n] /\ a[3] = "CR"
  BY <1>3, Header DEF Types
<1> HIDE DEF a
<1>6. /\ b \in Seq(Symbols) /\ Len(b) = 4 + n
      /\ \A i \in 1..4 : b[i] = a[i]
      /\ \A i \in 1..n : b[4 + i] = v.str[i]
  <2>1. /\ b \in Seq(Symbols) /\ Len(b) = Len(a) + n
        /\ \A i \in 1..Len(a) : b[i] = a[i]
        /\ \A i \in 1..n : b[Len(a) + i] = v.str[i]
    <3>1. Appends(Symbols, a, v.str)
      BY <1>1, <1>5, Appended
    <3> QED
      BY <3>1 DEF Appends
  <2> HIDE DEF b
  <2> QED
    BY <1>5, <2>1
<1> HIDE DEF b
<1>7. Len(e) = (4 + n) + 2 /\ \A i \in 1..(4 + n) : e[i] = b[i]
  <2>1. Len(b \o CRLF) = Len(b) + Len(CRLF) /\ \A i \in 1..Len(b) : (b \o CRLF)[i] = b[i]
    <3>1. Appends(Symbols, b, CRLF)
      BY <1>6, CRLFIs, Appended
    <3> QED
      BY <3>1 DEF Appends
  <2> QED
    BY <1>4, <1>6, <2>1, CRLFIs
<1>8. /\ 1 \in 1..4 /\ 2 \in 1..4 /\ 3 \in 1..4
      /\ \A k \in 1..4 : k \in 1..(4 + n)
      /\ \A k \in 1..n : 4 + k \in 1..(4 + n)
  BY <1>3
<1>9. e[1] = a[1] /\ e[2] = a[2] /\ e[3] = a[3] /\ \A k \in 1..n : e[4 + k] = v.str[k]
  BY <1>6, <1>7, <1>8
<1>10. (4 + n) + 2 = n + 6
  BY <1>3
<1> QED
  BY <1>1, <1>2, <1>3, <1>5, <1>7, <1>9, <1>10 DEF StringLaid

\* and an array: its elements one after the other.
ElementLaid(v, i) ==
    LET e == parseRESPString[v]
        w == parseRESPString[v.vec[i]] IN
    /\ Begin(v, i) \in Nat /\ Begin(v, i) >= 4 /\ Len(w) \in Nat
    /\ Begin(v, i + 1) = Begin(v, i) + Len(w) /\ Begin(v, i + 1) <= Len(e)
    /\ \A k \in 1..Len(w) : e[Begin(v, i) + k] = w[k]
ArrayLaid(v) ==
    LET e == parseRESPString[v]
        n == Len(v.vec) IN
    /\ n \in Nat /\ n \in Numbers /\ Len(e) \in Nat
    /\ e[1] = "*" /\ e[2] = Digits[n] /\ e[3] = "CR"
    /\ Begin(v, 1) = 4 /\ Begin(v, n + 1) = Len(e)
    /\ \A i \in 1..n : ElementLaid(v, i)

LEMMA ArrayLayout ==
    ASSUME NEW v \in Parts, v.type = "*"
    PROVE  ArrayLaid(v)
<1> DEFINE e == parseRESPString[v]
           n == Len(v.vec)
<1>1. n \in Nat /\ n \in 0..MaxNumber /\ DOMAIN v.vec = 1..n /\ \A i \in 1..n : v.vec[i] \in Parts
  BY Elements
<1>2. n \in Numbers
  <2>1. MaxNumber \in Nat
    BY RESPAssumption
  <2> QED
    BY <1>1, <2>1 DEF Numbers
<1> DEFINE ss == [i \in 1..n |-> parseRESPString[v.vec[i]]]
           a == <<"*", Digits[n]>> \o CRLF
           J(i) == Joined(ss, i)
<1>3. ss \in [1..n -> Seq(Symbols)]
  BY <1>1, Encoding
<1>4. e = a \o FlattenSeq(ss)
  BY <1>1, Encoding DEF EncodedBy
<1>5. /\ a \in Seq(Symbols) /\ Len(a) = 4
      /\ a[1] = "*" /\ a[2] = Digits[n] /\ a[3] = "CR"
  BY <1>2, Header DEF Types
<1>6. ASSUME NEW i \in 1..(n + 1) PROVE Begin(v, i) = 4 + Len(J(i - 1))
  <2>1. \A j \in 1..(i - 1) : j \in 1..n
    BY <1>1
  <2>2. [j \in 1..(i - 1) |-> parseRESPString[v.vec[j]]] = [j \in 1..(i - 1) |-> ss[j]]
    BY <2>1
  <2> HIDE DEF ss
  <2> QED
    BY <2>2 DEF Begin, Joined
<1>7. \A i \in 1..n : ss[i] = parseRESPString[v.vec[i]]
  OBVIOUS
<1> HIDE DEF a, ss
<1>8. /\ J(0) = <<>> /\ J(n) = FlattenSeq(ss) /\ FlattenSeq(ss) \in Seq(Symbols)
      /\ \A i \in 0..n : Len(J(i)) \in Nat /\ Len(J(i)) <= Len(J(n))
      /\ \A i \in 1..n : Len(ss[i]) \in Nat /\ Len(J(i)) = Len(J(i - 1)) + Len(ss[i])
      /\ \A i \in 1..n : \A k \in 1..Len(ss[i]) : FlattenSeq(ss)[Len(J(i - 1)) + k] = ss[i][k]
  <2>1. J(0) = <<>> /\ J(n) = FlattenSeq(ss) /\ \A i \in 0..n : J(i) \in Seq(Symbols)
    BY <1>1, <1>3, Joining
  <2>2. n \in 0..n
    BY <1>1
  <2>3. FlattenSeq(ss) \in Seq(Symbols)
    BY <2>1, <2>2
  <2>4. /\ \A i \in 0..n : Len(J(i)) \in Nat /\ Len(J(i)) <= Len(J(n))
        /\ \A i \in 1..n : Len(ss[i]) \in Nat /\ Len(J(i)) = Len(J(i - 1)) + Len(ss[i])
        /\ \A i \in 1..n : \A k \in 1..Len(ss[i]) : FlattenSeq(ss)[Len(J(i - 1)) + k] = ss[i][k]
    <3>1. n \in Nat
      BY <1>1
    <3> QED
      <4>1. InPlace(n, ss)
        BY <1>3, <3>1, JoinedAt
      <4> QED
        BY <4>1 DEF InPlace
  <2> QED
    BY <2>1, <2>3, <2>4
<1> HIDE DEF J
<1>9. Len(J(0)) = 0
  BY <1>8, EmptySeq
<1> DEFINE m == Len(J(n))
<1>10. m \in Nat
  BY <1>1, <1>8
<1>11. /\ Len(e) = 4 + m
       /\ \A i \in 1..4 : e[i] = a[i]
       /\ \A i \in 1..m : e[4 + i] = FlattenSeq(ss)[i]
  <2> DEFINE b == FlattenSeq(ss)
  <2>1. m = Len(b) /\ b \in Seq(Symbols) /\ e = a \o b
    BY <1>4, <1>8
  <2> HIDE DEF b, m
  <2>2. /\ Len(e) = Len(a) + m
        /\ \A i \in 1..Len(a) : e[i] = a[i]
        /\ \A i \in 1..m : e[Len(a) + i] = b[i]
    <3>1. /\ Len(a \o b) = Len(a) + Len(b)
          /\ \A i \in 1..Len(a) : (a \o b)[i] = a[i]
          /\ \A i \in 1..Len(b) : (a \o b)[Len(a) + i] = b[i]
      <4>1. Appends(Symbols, a, b)
        BY <1>5, <2>1, Appended
      <4> QED
        BY <4>1 DEF Appends
    <3> QED
      BY <2>1, <3>1
  <2> QED
    BY <1>5, <2>2 DEF b
<1> HIDE DEF m
<1>12. e[1] = "*" /\ e[2] = Digits[n] /\ e[3] = "CR"
  BY <1>5, <1>11
<1>13. Begin(v, 1) = 4 /\ Begin(v, n + 1) = Len(e)
  <2>1. 1 \in 1..(n + 1) /\ n + 1 \in 1..(n + 1) /\ 1 - 1 = 0 /\ (n + 1) - 1 = n
    BY <1>1
  <2> QED
    BY <1>6, <1>9, <1>11, <2>1 DEF m
<1>14. ASSUME NEW i \in 1..n PROVE ElementLaid(v, i)
  <2> DEFINE w == parseRESPString[v.vec[i]]
  <2>1. i \in 1..(n + 1) /\ i + 1 \in 1..(n + 1) /\ (i + 1) - 1 = i /\ i - 1 \in 0..n /\ i \in 0..n
    BY <1>1
  <2>2. w = ss[i]
    BY <1>7
  <2> DEFINE p == Len(J(i - 1))
             q == Len(w)
  <2>3. p \in Nat /\ q \in Nat /\ Len(J(i)) = p + q /\ p + q <= m
    BY <1>8, <2>1, <2>2 DEF m
  <2>4. Begin(v, i) = 4 + p /\ Begin(v, i + 1) = 4 + (p + q)
    BY <1>6, <2>1, <2>3
  <2>5. \A k \in 1..q : FlattenSeq(ss)[p + k] = w[k]
    BY <1>8, <2>2
  <2> HIDE DEF p, q
  <2>6. \A k \in 1..q : p + k \in 1..m /\ (4 + p) + k = 4 + (p + k)
    BY <1>10, <2>3
  <2>7. \A k \in 1..q : e[(4 + p) + k] = w[k]
    BY <1>11, <2>5, <2>6
  <2>8. 4 + p \in Nat /\ 4 + p >= 4 /\ 4 + (p + q) = (4 + p) + q /\ 4 + (p + q) <= 4 + m
    BY <1>10, <2>3
  <2> QED
    BY <1>11, <2>3, <2>4, <2>7, <2>8 DEF q, ElementLaid
<1>15. Len(e) \in Nat
  BY <1>10, <1>11
<1> QED
  BY <1>1, <1>2, <1>12, <1>13, <1>14, <1>15 DEF ArrayLaid

\* hasNull and starts are the functions their recursive definitions describe.
NullIn(f, v) ==
    \/ v.type = "$" /\ v.str = Null
    \/ v.type = "*" /\ \E i \in DOMAIN v.vec : f[v.vec[i]]

LEMMA Nulls == \A v \in Parts : hasNull[v] <=> NullIn(hasNull, v)
<1> DEFINE F == [v \in Parts |-> [f \in [Parts -> BOOLEAN] |-> NullIn(f, v)]]
<1>1. \A v \in Parts : \A f \in [Parts -> BOOLEAN] : F[v][f] = NullIn(f, v)
  OBVIOUS
<1>2. F \in [Parts -> [[Parts -> BOOLEAN] -> BOOLEAN]]
  <2>1. \A v, f : NullIn(f, v) \in BOOLEAN
    BY DEF NullIn
  <2> QED
    BY <2>1
<1>3. LooksBelow(Parts, BOOLEAN, Height, F)
  <2> SUFFICES ASSUME NEW v \in Parts, NEW g \in [Parts -> BOOLEAN], NEW h \in [Parts -> BOOLEAN],
                      \A w \in Parts : Height[w] < Height[v] => g[w] = h[w]
               PROVE  NullIn(g, v) = NullIn(h, v)
    <3> HIDE DEF F
    <3> QED
      BY <1>1 DEF LooksBelow
  <2>1. CASE v.type = "*"
    <3>1. \A i \in DOMAIN v.vec : g[v.vec[i]] = h[v.vec[i]]
      BY <2>1, Elements
    <3> QED
      BY <2>1, <3>1 DEF NullIn
  <2>2. CASE v.type # "*"
    BY <2>2 DEF NullIn
  <2> QED
    BY <2>1, <2>2
<1>4. PICK f \in [Parts -> BOOLEAN] : Solves(f, Parts, F)
  <2>1. Height \in [Parts -> Nat] /\ BOOLEAN # {}
    BY RESPAssumption
  <2> HIDE DEF F
  <2> QED
    BY <1>2, <1>3, <2>1, Recursion
<1>5. f = [v \in Parts |-> NullIn(f, v)]
  <2> HIDE DEF F
  <2> QED
    BY <1>1, <1>4 DEF Solves
<1>6. hasNull = CHOOSE g : g = [v \in Parts |-> (
                  \/ v.type = "$" /\ v.str = Null
                  \/ v.type = "*" /\ \E i \in DOMAIN v.vec : g[v.vec[i]])]
  BY DEF hasNull
<1>7. hasNull = CHOOSE g : g = [v \in Parts |-> NullIn(g, v)]
  BY <1>6 DEF NullIn
<1>8. hasNull = [v \in Parts |-> NullIn(hasNull, v)]
  BY <1>5, <1>7
<1> QED
  <2> DEFINE G(v) == NullIn(hasNull, v)
  <2>1. hasNull = [v \in Parts |-> G(v)]
    BY <1>8
  <2>2. \A v \in Parts : hasNull[v] = G(v)
    <3> HIDE DEF G
    <3> QED
      BY <2>1
  <2> QED
    BY <2>2

StartsIn(f, v) ==
    {0} \union IF v.type = "*"
               THEN UNION {{Begin(v, i) + from : from \in f[v.vec[i]]} : i \in DOMAIN v.vec} ELSE {}

LEMMA Starts == \A v \in Parts : starts[v] = StartsIn(starts, v)
<1> DEFINE V == SUBSET Nat
           F == [v \in Parts |-> [f \in [Parts -> V] |-> StartsIn(f, v)]]
<1>1. \A v \in Parts : \A f \in [Parts -> V] : F[v][f] = StartsIn(f, v)
  OBVIOUS
<1>2. F \in [Parts -> [[Parts -> V] -> V]]
  <2>1. ASSUME NEW v \in Parts, NEW f \in [Parts -> V] PROVE StartsIn(f, v) \subseteq Nat
    <3>1. CASE v.type = "*"
      <4>1. \A i \in DOMAIN v.vec : Begin(v, i) \in Nat /\ f[v.vec[i]] \subseteq Nat
        <5>1. \A i \in DOMAIN v.vec : Begin(v, i) \in Nat
          BY <3>1, Elements, ArrayLayout DEF ArrayLaid, ElementLaid
        <5>2. \A i \in DOMAIN v.vec : v.vec[i] \in Parts
          BY <3>1, Elements
        <5> QED
          BY <5>1, <5>2
      <4>2. \A i \in DOMAIN v.vec : {Begin(v, i) + from : from \in f[v.vec[i]]} \subseteq Nat
        BY <4>1
      <4> QED
        BY <3>1, <4>2 DEF StartsIn
    <3>2. CASE v.type # "*"
      BY <3>2 DEF StartsIn
    <3> QED
      BY <3>1, <3>2
  <2> QED
    BY <2>1
<1>3. LooksBelow(Parts, V, Height, F)
  <2> SUFFICES ASSUME NEW v \in Parts, NEW g \in [Parts -> V], NEW h \in [Parts -> V],
                      \A w \in Parts : Height[w] < Height[v] => g[w] = h[w]
               PROVE  StartsIn(g, v) = StartsIn(h, v)
    <3> HIDE DEF F, V
    <3> QED
      BY <1>1 DEF LooksBelow
  <2>1. CASE v.type = "*"
    <3>1. \A i \in DOMAIN v.vec : g[v.vec[i]] = h[v.vec[i]]
      BY <2>1, Elements
    <3>2. \A i \in DOMAIN v.vec : {Begin(v, i) + from : from \in g[v.vec[i]]}
                                  = {Begin(v, i) + from : from \in h[v.vec[i]]}
      BY <3>1
    <3> QED
      BY <2>1, <3>2 DEF StartsIn
  <2>2. CASE v.type # "*"
    BY <2>2 DEF StartsIn
  <2> QED
    BY <2>1, <2>2
<1>4. PICK f \in [Parts -> V] : Solves(f, Parts, F)
  <2>1. Height \in [Parts -> Nat] /\ V # {}
    BY RESPAssumption
  <2> HIDE DEF F, V
  <2> QED
    BY <1>2, <1>3, <2>1, Recursion
<1>5. f = [v \in Parts |-> StartsIn(f, v)]
  <2> HIDE DEF F, V
  <2> QED
    BY <1>1, <1>4 DEF Solves
<1>6. starts = CHOOSE g : g = [v \in Parts |->
                  {0} \union IF v.type = "*"
                             THEN UNION {{Begin(v, i) + from : from \in g[v.vec[i]]} : i \in DOMAIN v.vec}
                             ELSE {}]
  BY DEF starts
<1>7. starts = CHOOSE g : g = [v \in Parts |-> StartsIn(g, v)]
  BY <1>6 DEF StartsIn
<1>8. starts = [v \in Parts |-> StartsIn(starts, v)]
  BY <1>5, <1>7
<1> QED
  <2> DEFINE G(v) == StartsIn(starts, v)
  <2>1. starts = [v \in Parts |-> G(v)]
    BY <1>8
  <2>2. \A v \in Parts : starts[v] = G(v)
    <3> HIDE DEF G
    <3> QED
      BY <2>1
  <2> QED
    BY <2>2

\* The elements of an array begin in their order.
LEMMA InOrder ==
    ASSUME NEW v \in Parts, v.type = "*", NEW n, n = Len(v.vec)
    PROVE  \A i \in 1..(n + 1) : \A j \in 1..(n + 1) :
              Begin(v, i) \in Nat /\ Begin(v, i) >= 4 /\ (i <= j => Begin(v, i) <= Begin(v, j))
<1>1. n \in Nat /\ Begin(v, 1) = 4
  BY ArrayLayout DEF ArrayLaid
<1>2. \A i \in 1..n : /\ Begin(v, i) \in Nat /\ Begin(v, i) >= 4
                      /\ Begin(v, i + 1) \in Nat /\ Begin(v, i + 1) >= Begin(v, i)
  <2> SUFFICES ASSUME NEW i \in 1..n
               PROVE  /\ Begin(v, i) \in Nat /\ Begin(v, i) >= 4
                      /\ Begin(v, i + 1) \in Nat /\ Begin(v, i + 1) >= Begin(v, i)
    OBVIOUS
  <2> DEFINE m == Len(parseRESPString[v.vec[i]])
  <2>1. /\ Begin(v, i) \in Nat /\ Begin(v, i) >= 4 /\ m \in Nat
        /\ Begin(v, i + 1) = Begin(v, i) + m
    BY ArrayLayout DEF ArrayLaid, ElementLaid
  <2> HIDE DEF m
  <2> QED
    BY <2>1
<1>3. \A i \in 1..(n + 1) : Begin(v, i) \in Nat /\ Begin(v, i) >= 4
  <2> SUFFICES ASSUME NEW i \in 1..(n + 1) PROVE Begin(v, i) \in Nat /\ Begin(v, i) >= 4
    OBVIOUS
  <2>1. CASE i = 1
    BY <1>1, <2>1
  <2>2. CASE i # 1
    <3>1. i - 1 \in 1..n /\ (i - 1) + 1 = i
      BY <1>1, <2>2
    <3>2. /\ Begin(v, i - 1) \in Nat /\ Begin(v, i - 1) >= 4
          /\ Begin(v, i) \in Nat /\ Begin(v, i) >= Begin(v, i - 1)
      BY <1>2, <3>1
    <3> QED
      BY <3>2
  <2> QED
    BY <2>1, <2>2
<1>4. ASSUME NEW i \in 1..(n + 1), NEW j \in 1..(n + 1), i <= j
      PROVE  Begin(v, i) <= Begin(v, j)
  <2> DEFINE T == {d \in Nat : i + d <= n + 1 => Begin(v, i) <= Begin(v, i + d)}
  <2>1. 0 \in T
    BY <1>3
  <2>2. \A d \in Nat : d \in T => d + 1 \in T
    <3> SUFFICES ASSUME NEW d \in Nat, d \in T, i + (d + 1) <= n + 1
                 PROVE  Begin(v, i) <= Begin(v, i + (d + 1))
      OBVIOUS
    <3>1. i + d \in 1..n /\ (i + d) + 1 = i + (d + 1) /\ i + d <= n + 1
      BY <1>1
    <3>2. Begin(v, i + d) \in Nat /\ Begin(v, i + (d + 1)) \in Nat /\ Begin(v, i + (d + 1)) >= Begin(v, i + d)
      BY <1>2, <3>1
    <3>3. Begin(v, i) <= Begin(v, i + d) /\ Begin(v, i) \in Nat
      BY <1>3, <3>1
    <3> QED
      BY <3>2, <3>3
  <2>3. j - i \in Nat /\ i + (j - i) = j /\ j <= n + 1
    BY <1>1, <1>4
  <2>4. j - i \in T
    <3> HIDE DEF T
    <3> QED
      BY <2>1, <2>2, <2>3, Induction
  <2> QED
    BY <2>3, <2>4
<1> QED
  BY <1>3, <1>4

\* What a value is written as has three symbols or more, and none of its parts
\* begins in the last three.
Room(v) == /\ Len(parseRESPString[v]) \in Nat /\ Len(parseRESPString[v]) >= 3
           /\ starts[v] \subseteq 0..(Len(parseRESPString[v]) - 3)

LEMMA Rooms == \A v \in Parts : Room(v)
<1> DEFINE T == {v \in Parts : Room(v)}
<1>1. ASSUME NEW v \in Parts, \A w \in Parts : Height[w] < Height[v] => w \in T
      PROVE  v \in T
  <2> DEFINE L == Len(parseRESPString[v])
  <2>1. CASE v.type # "*"
    <3>1. L \in Nat /\ L >= 3
      <4>1. CASE v.type \in {"+", "-"}
        <5>1. Len(v.str) \in Nat /\ L = Len(v.str) + 3
          BY <4>1, LineLayout DEF LineLaid
        <5> QED
          BY <5>1
      <4>2. CASE v.type = ":"
        BY <4>2, IntLayout DEF IntLaid
      <4>3. CASE v.type = "$" /\ v.str = Null
        BY <4>3, NullLayout DEF NullLaid
      <4>4. CASE v.type = "$" /\ v.str # Null
        <5>1. Len(v.str) \in Nat /\ L = Len(v.str) + 6
          BY <4>4, StringLayout DEF StringLaid
        <5> QED
          BY <5>1
      <4> QED
        BY <2>1, <4>1, <4>2, <4>3, <4>4, Shapes
    <3>2. starts[v] = {0}
      BY <2>1, Starts DEF StartsIn
    <3>3. 0 \in 0..(L - 3)
      BY <3>1
    <3> QED
      BY <3>1, <3>2, <3>3 DEF Room
  <2>2. CASE v.type = "*"
    <3> DEFINE n == Len(v.vec)
    <3>1. n \in Nat /\ L \in Nat /\ Begin(v, n + 1) = L
      BY <2>2, ArrayLayout DEF ArrayLaid
    <3>2. L >= 4
      <4>1. n + 1 \in 1..(n + 1)
        BY <3>1
      <4> QED
        BY <2>2, <3>1, <4>1, InOrder
    <3>3. ASSUME NEW i \in DOMAIN v.vec, NEW from \in starts[v.vec[i]]
          PROVE  Begin(v, i) + from \in 0..(L - 3)
      <4> DEFINE w == v.vec[i]
                 m == Len(parseRESPString[w])
      <4>1. i \in 1..n /\ w \in Parts /\ Height[w] < Height[v]
        BY <2>2, Elements
      <4>2. Room(w)
        BY <1>1, <4>1
      <4>3. m \in Nat /\ m >= 3 /\ from \in 0..(m - 3)
        BY <4>2 DEF Room
      <4>4. Begin(v, i) \in Nat /\ Begin(v, i + 1) = Begin(v, i) + m /\ Begin(v, i + 1) <= L
        BY <2>2, <4>1, ArrayLayout DEF ArrayLaid, ElementLaid
      <4> HIDE DEF m, L
      <4> QED
        BY <3>1, <4>3, <4>4
    <3>4. starts[v] \subseteq 0..(L - 3)
      <4>1. starts[v] = {0} \union UNION {{Begin(v, i) + from : from \in starts[v.vec[i]]} : i \in DOMAIN v.vec}
        BY <2>2, Starts DEF StartsIn
      <4>2. 0 \in 0..(L - 3)
        BY <3>1, <3>2
      <4> HIDE DEF L
      <4> QED
        BY <3>3, <4>1, <4>2
    <3>5. L >= 3
      BY <3>1, <3>2
    <3> QED
      BY <3>1, <3>4, <3>5 DEF Room
  <2> QED
    BY <2>1, <2>2
<1> HIDE DEF T
<1>2. \A v \in Parts : v \in T
  BY <1>1, HeightInduction
<1> QED
  BY <1>2 DEF T

\* From an element's beginning to that of the next, its parts are the array's.
LEMMA StartsWithin ==
    ASSUME NEW v \in Parts, v.type = "*", NEW i \in 1..Len(v.vec), NEW x \in Int, x >= 1,
           Begin(v, i) <= x + 1, x < Begin(v, i + 1)
    PROVE  x \in starts[v] <=> x - Begin(v, i) \in starts[v.vec[i]]
<1> DEFINE n == Len(v.vec)
<1>1. n \in Nat /\ DOMAIN v.vec = 1..n /\ \A j \in 1..n : v.vec[j] \in Parts
  BY Elements
<1>2. starts[v] = {0} \union UNION {{Begin(v, j) + from : from \in starts[v.vec[j]]} : j \in 1..n}
  BY <1>1, Starts DEF StartsIn
<1>3. Begin(v, i) \in Nat
  BY ArrayLayout DEF ArrayLaid, ElementLaid
<1>4. ASSUME x - Begin(v, i) \in starts[v.vec[i]] PROVE x \in starts[v]
  <2>1. Begin(v, i) + (x - Begin(v, i)) = x
    BY <1>3
  <2> QED
    BY <1>2, <1>4, <2>1
<1>5. ASSUME x \in starts[v] PROVE x - Begin(v, i) \in starts[v.vec[i]]
  <2>1. PICK j \in 1..n : \E from \in starts[v.vec[j]] : x = Begin(v, j) + from
    BY <1>2, <1>5
  <2>2. PICK from \in starts[v.vec[j]] : x = Begin(v, j) + from
    BY <2>1
  <2> DEFINE m == Len(parseRESPString[v.vec[j]])
  <2>3. m \in Nat /\ m >= 3 /\ from \in 0..(m - 3)
    BY <1>1, <2>2, Rooms DEF Room
  <2>4. Begin(v, j) \in Nat /\ Begin(v, j + 1) = Begin(v, j) + m
    BY ArrayLayout DEF ArrayLaid, ElementLaid
  <2> HIDE DEF m
  <2>5. j = i
    <3>1. i \in 1..(n + 1) /\ j \in 1..(n + 1) /\ i + 1 \in 1..(n + 1) /\ j + 1 \in 1..(n + 1)
      BY <1>1
    <3>2. /\ j + 1 <= i => Begin(v, j + 1) <= Begin(v, i)
          /\ i + 1 <= j => Begin(v, i + 1) <= Begin(v, j)
          /\ Begin(v, i + 1) \in Nat
      BY <3>1, InOrder
    <3>3. ~(j + 1 <= i)
      BY <1>3, <2>2, <2>3, <2>4, <3>2
    <3>4. ~(i + 1 <= j)
      BY <1>3, <2>2, <2>3, <2>4, <3>2
    <3> QED
      BY <3>3, <3>4
  <2>6. x - Begin(v, i) = from
    BY <1>3, <2>2, <2>3, <2>4, <2>5
  <2> QED
    BY <2>2, <2>5, <2>6
<1> QED
  BY <1>4, <1>5

-----------------------------------------------------------------------------
(* What checkData is: the loop over an array's elements, and the recursion.   *)

\* The distance to the next CR, where there is one.
LEMMA Distance ==
    ASSUME NEW s, Len(s) \in Nat, NEW sub \in Nat
    PROVE  /\ searchNextPr(s, sub) \in Nat \union {-1}
           /\ (\A i \in (sub + 1)..Len(s) : s[i] # "CR") => searchNextPr(s, sub) = -1
           /\ \A k \in Nat : (sub + k < Len(s) /\ s[sub + k + 1] = "CR" /\ \A j \in 1..k : s[sub + j] # "CR")
                             => searchNextPr(s, sub) = k
<1> DEFINE crs == {i \in sub..(Len(s) - 1) : s[i + 1] = "CR"}
<1>1. crs \in SUBSET Nat
  OBVIOUS
<1>2. searchNextPr(s, sub) = IF crs = {} THEN -1 ELSE (CHOOSE i \in crs : \A j \in crs : i <= j) - sub
  BY DEF searchNextPr
<1>3. crs # {} => (CHOOSE i \in crs : \A j \in crs : i <= j) \in crs
  <2> HIDE DEF crs
  <2> QED
    BY <1>1, LeastElement
<1>4. searchNextPr(s, sub) \in Nat \union {-1}
  <2> DEFINE m == CHOOSE i \in crs : \A j \in crs : i <= j
  <2>1. crs # {} => m \in sub..(Len(s) - 1)
    BY <1>3
  <2>2. searchNextPr(s, sub) = IF crs = {} THEN -1 ELSE m - sub
    BY <1>2
  <2> HIDE DEF crs, m
  <2> QED
    BY <2>1, <2>2
<1>5. ASSUME \A i \in (sub + 1)..Len(s) : s[i] # "CR" PROVE crs = {}
  BY <1>5
<1>6. ASSUME NEW k \in Nat, sub + k < Len(s), s[sub + k + 1] = "CR", \A j \in 1..k : s[sub + j] # "CR"
      PROVE  searchNextPr(s, sub) = k
  <2> DEFINE m == CHOOSE i \in crs : \A j \in crs : i <= j
  <2>1. sub + k \in crs
    BY <1>6
  <2>2. \A i \in crs : sub + k <= i
    <3> SUFFICES ASSUME NEW i \in crs, i < sub + k PROVE FALSE
      BY <2>1
    <3>1. i + 1 - sub \in 1..k /\ s[sub + (i + 1 - sub)] = "CR"
      <4>1. sub + (i + 1 - sub) = i + 1
        OBVIOUS
      <4> QED
        BY <4>1
    <3> QED
      BY <1>6, <3>1
  <2>3. m \in crs /\ \A j \in crs : m <= j
    <3>1. \E i \in crs : \A j \in crs : i <= j
      BY <2>1, <2>2
    <3> HIDE DEF crs
    <3> QED
      BY <3>1
  <2>4. searchNextPr(s, sub) = m - sub
    BY <1>2, <2>1
  <2>5. m = sub + k
    <3>1. m <= sub + k /\ sub + k <= m /\ m \in Nat
      BY <1>1, <2>1, <2>2, <2>3
    <3> HIDE DEF m
    <3> QED
      BY <3>1
  <2> HIDE DEF m
  <2> QED
    BY <2>4, <2>5
<1> QED
  BY <1>2, <1>4, <1>5, <1>6

\* Reading one more element.
ReadNext(checked, before) ==
    IF before.status # 0 THEN before
    ELSE IF checked[before.next].status # 0 THEN Failed(checked[before.next].status)
    ELSE Part([type |-> "*", vec |-> Append(before.data.vec, checked[before.next].data)], checked[before.next].next)

ReadAll(checked, from, n, r) ==
    /\ r[0] = Part([type |-> "*", vec |-> <<>>], from)
    /\ \A i \in 1..n : r[i] = ReadNext(checked, r[i - 1])

\* checkElements reads them one after the other.
LEMMA Loop ==
    ASSUME NEW checked, NEW from, NEW n \in Nat
    PROVE  \E r : ReadAll(checked, from, n, r) /\ checkElements(checked, from, n) = r[n]
<1> DEFINE I == 0..n
           First == Part([type |-> "*", vec |-> <<>>], from)
           Body(i, r) == IF i = 0 THEN First ELSE ReadNext(checked, r[i - 1])
           read == CHOOSE r : r = [i \in I |-> Body(i, r)]
           T == {k \in Nat : \E r : \A i \in I : i <= k => r[i] = Body(i, r)}
<1>1. 0 \in T
  <2> DEFINE r == [i \in I |-> First]
  <2>1. \A i \in I : i <= 0 => r[i] = Body(i, r)
    OBVIOUS
  <2> HIDE DEF r, I, Body
  <2> QED
    BY <2>1
<1>2. \A k \in Nat : k \in T => k + 1 \in T
  <2> SUFFICES ASSUME NEW k \in Nat, k \in T PROVE k + 1 \in T
    OBVIOUS
  <2>1. PICK g : \A i \in I : i <= k => g[i] = Body(i, g)
    <3> HIDE DEF I, Body
    <3> QED
      OBVIOUS
  <2> DEFINE h == [i \in I |-> IF i <= k THEN g[i] ELSE Body(i, g)]
  <2>2. ASSUME NEW i \in I, i <= k + 1 PROVE h[i] = Body(i, h)
    <3>1. h[i] = Body(i, g)
      <4>1. i <= k => g[i] = Body(i, g)
        BY <2>1
      <4> HIDE DEF Body
      <4> QED
        BY <2>2, <4>1
    <3>2. CASE i = 0
      <4> HIDE DEF h
      <4> QED
        BY <3>1, <3>2
    <3>3. CASE i # 0
      <4>1. i - 1 \in I /\ i - 1 <= k
        BY <2>2, <3>3
      <4>2. h[i - 1] = g[i - 1]
        <5> HIDE DEF Body, I
        <5> QED
          BY <4>1
      <4> HIDE DEF h
      <4> QED
        BY <3>1, <3>3, <4>2
    <3> QED
      BY <3>2, <3>3
  <2> HIDE DEF h, Body, I
  <2> QED
    BY <2>2
<1>3. n \in T
  <2> HIDE DEF T
  <2> QED
    BY <1>1, <1>2, Induction
<1>4. PICK g : \A i \in I : g[i] = Body(i, g)
  <2>1. \A i \in I : i <= n
    OBVIOUS
  <2> HIDE DEF I, Body
  <2> QED
    BY <1>3, <2>1
<1> DEFINE f == [i \in I |-> g[i]]
<1>5. f = [i \in I |-> Body(i, f)]
  <2>1. \A i \in I : Body(i, f) = Body(i, g)
    <3> SUFFICES ASSUME NEW i \in I PROVE Body(i, f) = Body(i, g)
      OBVIOUS
    <3>1. i # 0 => f[i - 1] = g[i - 1]
      OBVIOUS
    <3> HIDE DEF f
    <3> QED
      BY <3>1
  <2>2. \A i \in I : f[i] = Body(i, f)
    <3> HIDE DEF Body
    <3> QED
      BY <1>4, <2>1
  <2>3. f = [i \in I |-> f[i]]
    OBVIOUS
  <2> HIDE DEF f, Body, I
  <2> QED
    BY <2>2, <2>3
<1>6. read = [i \in I |-> Body(i, read)]
  <2> HIDE DEF f, Body, I
  <2> QED
    BY <1>5
<1>7. checkElements(checked, from, n) = read[n]
  BY DEF checkElements, ReadNext
<1>8. \A i \in I : read[i] = Body(i, read)
  <2> DEFINE G(i) == Body(i, read)
  <2>1. read = [i \in I |-> G(i)]
    BY <1>6
  <2> HIDE DEF I
  <2>2. \A i \in I : read[i] = G(i)
    <3> HIDE DEF G
    <3> QED
      BY <2>1
  <2> QED
    BY <2>2
<1> HIDE DEF read
<1>9. ReadAll(checked, from, n, read)
  <2>1. 0 \in I /\ \A i \in 1..n : i \in I /\ i # 0
    OBVIOUS
  <2> HIDE DEF I
  <2> QED
    BY <1>8, <2>1 DEF ReadAll
<1> QED
  BY <1>7, <1>9

\* What checkData gives at an offset, case by case: out of the text's bounds or at
\* its end,
LEMMA Outside ==
    ASSUME NEW s, Len(s) \in Nat, NEW checked, NEW o
    PROVE  /\ o \notin 0..Len(s) => checkPart(s, checked, o) = Failed(Undefined)
           /\ o = Len(s) => checkPart(s, checked, o) = Failed(-1)
<1>1. "NUL" \notin Types
  BY DEF Types
<1>2. o = Len(s) => o \in 0..Len(s)
  OBVIOUS
<1> QED
  BY <1>1, <1>2 DEF checkPart

\* and where a symbol is.
Judged(s, checked, o) ==
    LET sub == o + 1
        pr == searchNextPr(s, sub)
        start == sub + pr + 2
        number == Number(s[sub + 1])
        judged == checkPart(s, checked, o)
        others == {":", "$", "*"}
    IN  /\ s[o + 1] \notin Types => judged = Failed(-1)
        /\ s[o + 1] \in Types /\ pr = -1 => judged = Failed(1)
        /\ s[o + 1] \in {"+", "-"} /\ pr # -1 =>
              judged = Part([type |-> s[o + 1], str |-> SubSeq(s, sub + 1, sub + pr)], start)
        /\ s[o + 1] \in others /\ pr # -1 /\ ~IsNumber(s[sub + 1]) => judged = Failed(Thrown)
        /\ s[o + 1] = ":" /\ pr # -1 /\ IsNumber(s[sub + 1]) =>
              judged = Part([type |-> ":", int |-> number], start)
        /\ s[o + 1] = "$" /\ pr # -1 /\ IsNumber(s[sub + 1]) /\ number = -1 =>
              judged = Part([type |-> "$", str |-> Null], Unset)
        /\ s[o + 1] = "$" /\ pr # -1 /\ IsNumber(s[sub + 1]) /\ number # -1 =>
              judged = IF incomplete(Len(s), start, number) THEN Failed(1)
                       ELSE Part([type |-> "$", str |-> SubSeq(s, start + 1, start + number)],
                                 afterBulk(start, number))
        /\ s[o + 1] = "*" /\ pr # -1 /\ IsNumber(s[sub + 1]) =>
              judged = checkElements(checked, start, IF number < 0 THEN Len(s) + 2 ELSE number)

LEMMA Judging ==
    ASSUME NEW s, Len(s) \in Nat, NEW checked, NEW o \in 0..(Len(s) - 1)
    PROVE  Judged(s, checked, o)
<1> DEFINE sub == o + 1
           pr == searchNextPr(s, sub)
           start == sub + pr + 2
           number == Number(s[sub + 1])
           judged == checkPart(s, checked, o)
           t == s[o + 1]
           n == IF number < 0 THEN Len(s) + 2 ELSE number
<1>1. o \in 0..Len(s) /\ o # Len(s)
  OBVIOUS
<1>2. Types = {"+", "-", ":", "$", "*"}
  BY DEF Types
<1>3. judged =
        CASE t \notin Types -> Failed(-1)
          [] t \in Types /\ pr = -1 -> Failed(1)
          [] pr # -1 /\ t \in {"+", "-"} ->
                Part([type |-> t, str |-> SubSeq(s, sub + 1, sub + pr)], start)
          [] pr # -1 /\ t \in Types /\ t \notin {"+", "-"} /\ ~IsNumber(s[sub + 1]) -> Failed(Thrown)
          [] pr # -1 /\ t = ":" /\ IsNumber(s[sub + 1]) -> Part([type |-> ":", int |-> number], start)
          [] pr # -1 /\ t = "$" /\ IsNumber(s[sub + 1]) /\ number = -1 -> Part([type |-> "$", str |-> Null], Unset)
          [] pr # -1 /\ t = "$" /\ IsNumber(s[sub + 1]) /\ number # -1 ->
                IF incomplete(Len(s), start, number) THEN Failed(1)
                ELSE Part([type |-> "$", str |-> SubSeq(s, start + 1, start + number)],
                          afterBulk(start, number))
          [] pr # -1 /\ t = "*" /\ IsNumber(s[sub + 1]) -> checkElements(checked, start, n)
  BY <1>1, <1>2 DEF checkPart
<1> HIDE DEF judged, n, number, start, pr, t
<1>4. /\ t \notin Types => judged = Failed(-1)
      /\ t \in Types /\ pr = -1 => judged = Failed(1)
      /\ t \in {"+", "-"} /\ pr # -1 =>
            judged = Part([type |-> t, str |-> SubSeq(s, sub + 1, sub + pr)], start)
      /\ t \in {":", "$", "*"} /\ pr # -1 /\ ~IsNumber(s[sub + 1]) => judged = Failed(Thrown)
  BY <1>2, <1>3
<1>5. /\ t = ":" /\ pr # -1 /\ IsNumber(s[sub + 1]) => judged = Part([type |-> ":", int |-> number], start)
      /\ t = "$" /\ pr # -1 /\ IsNumber(s[sub + 1]) /\ number = -1 =>
            judged = Part([type |-> "$", str |-> Null], Unset)
  BY <1>2, <1>3
<1>6. t = "$" /\ pr # -1 /\ IsNumber(s[sub + 1]) /\ number # -1 =>
            judged = IF incomplete(Len(s), start, number) THEN Failed(1)
                     ELSE Part([type |-> "$", str |-> SubSeq(s, start + 1, start + number)],
                               afterBulk(start, number))
  BY <1>2, <1>3
<1>7. t = "*" /\ pr # -1 /\ IsNumber(s[sub + 1]) => judged = checkElements(checked, start, n)
  BY <1>2, <1>3
<1> QED
  BY <1>4, <1>5, <1>6, <1>7 DEF Judged, judged, n, number, start, pr, t

\* The next part is behind the one read, or never set.
Ahead(o, result) == result.status = 0 => result.next \in Int /\ (result.next > o \/ result.next = Unset)

\* Two tables of results that are alike from behind an offset on.
Alike(C, D, o) ==
    /\ C[Unset] = D[Unset] /\ C[Unset].status # 0
    /\ \A p \in Int : p > o => C[p] = D[p] /\ Ahead(p, C[p])

\* So the loop over an array's elements looks only there,
LEMMA LoopLocal ==
    ASSUME NEW o \in Int, NEW from \in Int, from > o, NEW n \in Nat, NEW C, NEW D, Alike(C, D, o)
    PROVE  /\ checkElements(C, from, n) = checkElements(D, from, n)
           /\ Ahead(o, checkElements(C, from, n))
<1>1. PICK r : ReadAll(C, from, n, r) /\ checkElements(C, from, n) = r[n]
  BY Loop
<1>2. PICK q : ReadAll(D, from, n, q) /\ checkElements(D, from, n) = q[n]
  BY Loop
<1> DEFINE T == {i \in Nat : r[i] = q[i] /\ Ahead(o, r[i])}
<1>3. 0 \in T
  BY <1>1, <1>2 DEF ReadAll, Ahead, Part
<1>4. \A i \in 1..n : i - 1 \in T => i \in T
  <2> SUFFICES ASSUME NEW i \in 1..n, i - 1 \in T PROVE r[i] = q[i] /\ Ahead(o, r[i])
    OBVIOUS
  <2> DEFINE b == r[i - 1]
             p == b.next
  <2>1. r[i] = ReadNext(C, b) /\ q[i] = ReadNext(D, b) /\ Ahead(o, b)
    BY <1>1, <1>2 DEF ReadAll
  <2> HIDE DEF b
  <2>2. CASE b.status # 0
    BY <2>1, <2>2 DEF ReadNext
  <2>3. CASE b.status = 0 /\ p = Unset
    <3>1. C[p] = D[p] /\ C[p].status # 0
      BY <2>3 DEF Alike
    <3>2. r[i] = Failed(C[p].status) /\ q[i] = Failed(C[p].status)
      BY <2>1, <2>3, <3>1 DEF ReadNext
    <3> QED
      BY <3>1, <3>2 DEF Ahead, Failed
  <2>4. CASE b.status = 0 /\ p # Unset
    <3>1. p \in Int /\ p > o
      BY <2>1, <2>4 DEF Ahead
    <3>2. C[p] = D[p] /\ Ahead(p, C[p])
      BY <3>1 DEF Alike
    <3>3. r[i] = q[i]
      BY <2>1, <3>2 DEF ReadNext
    <3>4. CASE C[p].status # 0
      <4>1. r[i] = Failed(C[p].status)
        BY <2>1, <2>4, <3>4 DEF ReadNext
      <4> QED
        BY <3>3, <3>4, <4>1 DEF Ahead, Failed
    <3>5. CASE C[p].status = 0
      <4>1. r[i].status = 0 /\ r[i].next = C[p].next
        BY <2>1, <2>4, <3>5 DEF ReadNext, Part
      <4>2. C[p].next \in Int /\ (C[p].next > p \/ C[p].next = Unset)
        BY <3>2, <3>5 DEF Ahead
      <4>3. C[p].next \in Int /\ (C[p].next > o \/ C[p].next = Unset)
        BY <3>1, <4>2
      <4> QED
        BY <3>3, <4>1, <4>3 DEF Ahead
    <3> QED
      BY <3>4, <3>5
  <2> QED
    BY <2>2, <2>3, <2>4
<1> HIDE DEF T
<1>5. \A i \in 0..n : i \in T
  BY <1>3, <1>4, InductionUpTo
<1>6. n \in T
  BY <1>5
<1> QED
  BY <1>1, <1>2, <1>6 DEF T

\* and so does one call of checkData.
LEMMA CallLocal ==
    ASSUME NEW s, Len(s) \in Nat, NEW o \in 0..Len(s), NEW C, NEW D, Alike(C, D, o)
    PROVE  checkPart(s, C, o) = checkPart(s, D, o) /\ Ahead(o, checkPart(s, C, o))
<1> DEFINE sub == o + 1
           pr == searchNextPr(s, sub)
           start == sub + pr + 2
           number == Number(s[sub + 1])
           t == s[o + 1]
           n == IF number < 0 THEN Len(s) + 2 ELSE number
           c == checkPart(s, C, o)
           d == checkPart(s, D, o)
<1>1. CASE o = Len(s)
  BY <1>1, Outside DEF Ahead, Failed
<1>2. CASE o # Len(s)
  <2>1. o \in 0..(Len(s) - 1)
    BY <1>2
  <2>2. Judged(s, C, o) /\ Judged(s, D, o)
    BY <2>1, Judging
  <2>3. pr \in Nat \union {-1}
    <3>1. sub \in Nat
      OBVIOUS
    <3> QED
      BY <3>1, Distance
  <2>4. IsNumber(s[sub + 1]) => number \in Int
    BY DEF IsNumber, Number, Numbers
  <2>5. CASE t \notin Types \/ pr = -1 \/ (t \in {":", "$", "*"} /\ ~IsNumber(s[sub + 1]))
    <3>1. \/ c = Failed(-1) /\ d = Failed(-1)
          \/ c = Failed(1) /\ d = Failed(1)
          \/ c = Failed(Thrown) /\ d = Failed(Thrown)
      BY <2>2, <2>3, <2>5 DEF Judged
    <3> QED
      BY <3>1 DEF Ahead, Failed, Thrown
  <2>6. CASE pr # -1 /\ t \in {"+", "-"}
    <3>1. c = d /\ c = Part([type |-> t, str |-> SubSeq(s, sub + 1, sub + pr)], start)
      BY <2>2, <2>6 DEF Judged
    <3>2. start \in Int /\ start > o
      BY <2>3, <2>6
    <3> QED
      BY <3>1, <3>2 DEF Ahead, Part
  <2>7. CASE pr # -1 /\ t = ":" /\ IsNumber(s[sub + 1])
    <3>1. c = d /\ c = Part([type |-> ":", int |-> number], start)
      BY <2>2, <2>7 DEF Judged
    <3>2. start \in Int /\ start > o
      BY <2>3, <2>7
    <3> QED
      BY <3>1, <3>2 DEF Ahead, Part
  <2>8. CASE pr # -1 /\ t = "$" /\ IsNumber(s[sub + 1]) /\ number = -1
    <3>1. c = d /\ c = Part([type |-> "$", str |-> Null], Unset)
      BY <2>2, <2>8 DEF Judged
    <3> QED
      BY <3>1 DEF Ahead, Part, Unset
  <2>9. CASE pr # -1 /\ t = "$" /\ IsNumber(s[sub + 1]) /\ number # -1
    <3>1. c = d /\ c = IF incomplete(Len(s), start, number) THEN Failed(1)
                       ELSE Part([type |-> "$", str |-> SubSeq(s, start + 1, start + number)],
                                 afterBulk(start, number))
      BY <2>2, <2>9 DEF Judged
    <3>2. number \in Nat
      BY <2>9 DEF IsNumber, Number, Numbers
    <3>3. start \in Int /\ start > o
      BY <2>3, <2>9
    <3>4. afterBulk(start, number) \in Int /\ afterBulk(start, number) > o
      BY <3>2, <3>3 DEF afterBulk
    <3>5. CASE incomplete(Len(s), start, number)
      BY <3>1, <3>5 DEF Ahead, Failed
    <3>6. CASE ~incomplete(Len(s), start, number)
      BY <3>1, <3>4, <3>6 DEF Ahead, Part
    <3> QED
      BY <3>1, <3>5, <3>6
  <2>10. CASE pr # -1 /\ t = "*" /\ IsNumber(s[sub + 1])
    <3>1. c = checkElements(C, start, n) /\ d = checkElements(D, start, n)
      BY <2>2, <2>10 DEF Judged
    <3>2. n \in Nat
      BY <2>4, <2>10
    <3>3. start \in Int /\ start > o
      BY <2>3, <2>10
    <3> HIDE DEF n, start
    <3> QED
      BY <3>1, <3>2, <3>3, LoopLocal
  <2> QED
    BY <2>5, <2>6, <2>7, <2>8, <2>9, <2>10 DEF Types
<1> QED
  BY <1>1, <1>2

\* So the recursion has a result at every offset, that of one call with the others.
LEMMA Calls ==
    ASSUME NEW s, Len(s) \in Nat
    PROVE  \E checked : \A o \in Int : /\ checked[o] = checkPart(s, checked, o)
                                       /\ checkData(s, o) = checked[o]
<1> DEFINE S == Int
           Out == Failed(Undefined)
           Right(g, o) == g[o] = checkPart(s, g, o) /\ Ahead(o, g[o])
           \* From this offset on the results are right.
           From(k) == Len(s) + 1 - k
           T == {k \in Nat : \E g : \A o \in S : o \notin 0..Len(s) \/ o >= From(k) => Right(g, o)}
<1>0. \A g : \A o \in S : o \notin 0..Len(s) => checkPart(s, g, o) = Out /\ Ahead(o, Out)
  BY Outside DEF Ahead, Failed, Undefined
<1>1. 0 \in T
  <2> DEFINE g == [o \in S |-> Out]
  <2>1. \A o \in S : o \notin 0..Len(s) \/ o >= From(0) => Right(g, o)
    <3> SUFFICES ASSUME NEW o \in S, o \notin 0..Len(s) \/ o >= From(0) PROVE Right(g, o)
      OBVIOUS
    <3>1. o \notin 0..Len(s)
      OBVIOUS
    <3>2. g[o] = Out
      OBVIOUS
    <3> HIDE DEF g
    <3> QED
      BY <1>0, <3>1, <3>2
  <2> HIDE DEF g, Right
  <2> QED
    BY <2>1
<1>2. \A k \in Nat : k \in T => k + 1 \in T
  <2> SUFFICES ASSUME NEW k \in Nat, k \in T PROVE k + 1 \in T
    OBVIOUS
  <2>1. PICK g : \A o \in S : o \notin 0..Len(s) \/ o >= From(k) => Right(g, o)
    <3> HIDE DEF Right
    <3> QED
      OBVIOUS
  <2> DEFINE at == From(k + 1)
             h == [o \in S |-> IF o = at THEN checkPart(s, g, o) ELSE g[o]]
  <2>2. at \in Int /\ From(k) = at + 1
    OBVIOUS
  <2>3. CASE at \notin 0..Len(s)
    <3>1. \A o \in S : o \notin 0..Len(s) \/ o >= From(k + 1) => Right(g, o)
      <4> SUFFICES ASSUME NEW o \in S, o \notin 0..Len(s) \/ o >= at PROVE Right(g, o)
        OBVIOUS
      <4>1. o \notin 0..Len(s) \/ o >= From(k)
        BY <2>2, <2>3
      <4> HIDE DEF Right
      <4> QED
        BY <2>1, <4>1
    <3> HIDE DEF Right
    <3> QED
      BY <3>1
  <2>4. CASE at \in 0..Len(s)
    <3>1. ASSUME NEW o \in S, o \notin 0..Len(s) \/ o >= at PROVE Right(h, o)
      <4>1. Unset \in S /\ Unset \notin 0..Len(s) /\ Unset # at
        BY <2>4 DEF Unset
      <4>2. \A p \in S : p > at => h[p] = g[p] /\ Right(g, p)
        <5> SUFFICES ASSUME NEW p \in S, p > at PROVE h[p] = g[p] /\ Right(g, p)
          OBVIOUS
        <5>1. p # at /\ p >= From(k)
          BY <2>2
        <5> HIDE DEF Right
        <5> QED
          BY <2>1, <5>1
      <4>3. h[Unset] = g[Unset] /\ g[Unset] = Out
        <5>1. h[Unset] = g[Unset]
          BY <4>1
        <5>2. Right(g, Unset)
          <6> HIDE DEF Right
          <6> QED
            BY <2>1, <4>1
        <5> QED
          BY <1>0, <4>1, <5>1, <5>2
      <4>4. ASSUME NEW q \in S, q >= at PROVE Alike(g, h, q)
        <5>1. \A p \in Int : p > q => g[p] = h[p] /\ Ahead(p, g[p])
          <6> SUFFICES ASSUME NEW p \in Int, p > q PROVE g[p] = h[p] /\ Ahead(p, g[p])
            OBVIOUS
          <6>1. p > at
            BY <2>2, <4>4
          <6> HIDE DEF h
          <6> QED
            BY <4>2, <6>1
        <5>2. Out.status # 0
          BY DEF Failed, Undefined
        <5> HIDE DEF h
        <5> QED
          BY <4>3, <5>1, <5>2 DEF Alike
      <4>5. CASE o \notin 0..Len(s)
        <5>1. h[o] = g[o] /\ g[o] = Out
          <6>1. o # at
            BY <2>4, <4>5
          <6>2. Right(g, o)
            <7> HIDE DEF Right
            <7> QED
              BY <2>1, <4>5
          <6>3. h[o] = g[o]
            BY <6>1
          <6> HIDE DEF h
          <6> QED
            BY <1>0, <4>5, <6>2, <6>3
        <5> HIDE DEF h
        <5> QED
          BY <1>0, <4>5, <5>1
      <4>6. CASE o \in 0..Len(s)
        <5>1. Alike(g, h, o)
          <6>1. o >= at
            BY <3>1, <4>6
          <6> HIDE DEF h, at
          <6> QED
            BY <4>4, <6>1
        <5>2. checkPart(s, g, o) = checkPart(s, h, o) /\ Ahead(o, checkPart(s, g, o))
          <6> HIDE DEF h
          <6> QED
            BY <4>6, <5>1, CallLocal
        <5>3. h[o] = checkPart(s, g, o)
          <6>1. CASE o = at
            BY <6>1
          <6>2. CASE o # at
            <7>1. o > at
              BY <3>1, <4>6, <6>2, <2>2
            <7> HIDE DEF h
            <7> QED
              BY <4>2, <7>1
          <6> QED
            BY <6>1, <6>2
        <5> HIDE DEF h
        <5> QED
          BY <5>2, <5>3
      <4> QED
        BY <4>5, <4>6
    <3> HIDE DEF h, Right
    <3> QED
      BY <3>1
  <2> QED
    BY <2>3, <2>4
<1>3. Len(s) + 1 \in T
  <2> HIDE DEF T
  <2>1. Len(s) + 1 \in Nat
    OBVIOUS
  <2> QED
    BY <1>1, <1>2, <2>1, Induction
<1>4. PICK g : \A o \in S : Right(g, o)
  <2>1. \A o \in S : o \notin 0..Len(s) \/ o >= From(Len(s) + 1)
    OBVIOUS
  <2> HIDE DEF Right, From
  <2> QED
    BY <1>3, <2>1
<1> DEFINE f == [o \in S |-> g[o]]
           checked == CHOOSE c : c = [o \in S |-> checkPart(s, c, o)]
<1>5. f = [o \in S |-> checkPart(s, f, o)]
  <2>1. ASSUME NEW o \in S PROVE checkPart(s, f, o) = g[o]
    <3>1. CASE o \notin 0..Len(s)
      BY <1>0, <1>4, <3>1
    <3>2. CASE o \in 0..Len(s)
      <4>1. Alike(g, f, o)
        <5>1. g[Unset] = Out /\ Unset \in Int
          <6>1. Unset \in S /\ Unset \notin 0..Len(s)
            BY DEF Unset
          <6> QED
            BY <1>0, <1>4, <6>1
        <5>2. Out.status # 0
          BY DEF Failed, Undefined
        <5> QED
          BY <1>4, <5>1, <5>2 DEF Alike
      <4> HIDE DEF f
      <4> QED
        BY <1>4, <3>2, <4>1, CallLocal
    <3> QED
      BY <3>1, <3>2
  <2>2. \A o \in S : g[o] = checkPart(s, f, o)
    BY <2>1
  <2>3. f = [o \in S |-> g[o]]
    OBVIOUS
  <2> HIDE DEF f
  <2> QED
    BY <2>2, <2>3
<1>6. checked = [o \in S |-> checkPart(s, checked, o)]
  <2> HIDE DEF f
  <2> QED
    BY <1>5
<1>7. \A o \in S : checked[o] = checkPart(s, checked, o)
  <2> DEFINE G(o) == checkPart(s, checked, o)
  <2>1. checked = [o \in S |-> G(o)]
    BY <1>6
  <2>2. \A o \in S : checked[o] = G(o)
    <3> HIDE DEF G
    <3> QED
      BY <2>1
  <2> QED
    BY <2>2
<1>8. \A o : checkData(s, o) = checked[o]
  BY DEF checkData
<1> HIDE DEF checked
<1> QED
  BY <1>7, <1>8

-----------------------------------------------------------------------------
(* Reading back a value that was written, or as much of it as has arrived.    *)

\* What the failure of a value is of which k symbols have arrived.
Early(k, v) == IF k \in starts[v] THEN -1 ELSE IF k + 1 \in starts[v] THEN Undefined ELSE 1

\* At an offset of the text v begins, or as much of it as has arrived.
At(s, o, v) == \A k \in 1..Len(parseRESPString[v]) : o + k <= Len(s) => s[o + k] = parseRESPString[v][k]

\* What is to be read there.
ToRead(s, o, v, result) ==
    LET past == o + Len(parseRESPString[v]) IN
    IF hasNull[v] THEN \/ result = Failed(-1) \/ result = Failed(1) \/ result = Failed(Undefined)
                       \/ result.status = 0 /\ result.next = Unset
    ELSE /\ past <= Len(s) + 1 => result = Part(v, past)
         /\ past > Len(s) + 1 => result = Failed(Early(Len(s) - o, v))

\* No part begins in the first three symbols but the value itself.
LEMMA EarlyAtFirst ==
    ASSUME NEW v \in Parts
    PROVE  /\ Early(-1, v) = Undefined /\ Early(0, v) = -1 /\ Early(1, v) = 1 /\ Early(2, v) = 1
           /\ v.type # "*" => \A k \in Nat : k >= 1 => Early(k, v) = 1
<1>1. 0 \in starts[v] /\ -1 \notin starts[v]
  BY Starts, Rooms DEF StartsIn, Room
<1>2. v.type # "*" => starts[v] = {0}
  BY Starts DEF StartsIn
<1>3. 1 \notin starts[v] /\ 2 \notin starts[v] /\ 3 \notin starts[v]
  <2>1. CASE v.type = "*"
    <3>1. starts[v] = {0} \union UNION {{Begin(v, i) + from : from \in starts[v.vec[i]]} : i \in DOMAIN v.vec}
      BY <2>1, Starts DEF StartsIn
    <3>2. ASSUME NEW i \in DOMAIN v.vec, NEW from \in starts[v.vec[i]] PROVE Begin(v, i) + from >= 4
      <4>1. i \in 1..Len(v.vec) /\ v.vec[i] \in Parts
        BY <2>1, Elements
      <4>2. from \in Nat
        BY <4>1, Rooms DEF Room
      <4>3. Begin(v, i) \in Nat /\ Begin(v, i) >= 4
        BY <2>1, <4>1, ArrayLayout DEF ArrayLaid, ElementLaid
      <4> QED
        BY <4>2, <4>3
    <3> QED
      BY <3>1, <3>2
  <2>2. CASE v.type # "*"
    BY <1>2, <2>2
  <2> QED
    BY <2>1, <2>2
<1>4. /\ Early(-1, v) = Undefined /\ Early(0, v) = -1 /\ Early(1, v) = 1 /\ Early(2, v) = 1
  BY <1>1, <1>3 DEF Early
<1>5. ASSUME v.type # "*", NEW k \in Nat, k >= 1 PROVE Early(k, v) = 1
  <2>1. k # 0 /\ k + 1 # 0
    BY <1>5
  <2> QED
    BY <1>2, <1>5, <2>1 DEF Early
<1> QED
  BY <1>4, <1>5

\* The symbol of a number is that number's.
LEMMA NumberOf ==
    ASSUME NEW n \in Numbers
    PROVE  IsNumber(Digits[n]) /\ Number(Digits[n]) = n /\ Digits[n] # "CR"
<1>1. \A m \in Numbers : Digits[m] = Digits[n] => m = n
  BY RESPAssumption
<1>2. Digits[n] # "CR"
  BY RESPAssumption
<1>3. Number(Digits[n]) \in Numbers /\ Digits[Number(Digits[n])] = Digits[n]
  BY DEF Number
<1> QED
  BY <1>1, <1>2, <1>3 DEF IsNumber

\* Where nothing of v has arrived: not even the byte before it, or just that.
LEMMA Nothing ==
    ASSUME NEW s, Len(s) \in Nat, NEW C, NEW o \in 0..(Len(s) + 1), o >= Len(s), NEW v \in Parts
    PROVE  ToRead(s, o, v, checkPart(s, C, o))
<1> DEFINE L == Len(parseRESPString[v])
<1>1. L \in Nat /\ L >= 3
  BY Rooms DEF Room
<1>2. o + L > Len(s) + 1
  BY <1>1
<1>3. checkPart(s, C, o) = Failed(Early(Len(s) - o, v))
  <2>1. CASE o = Len(s)
    <3>1. Len(s) - o = 0
      BY <2>1
    <3> QED
      BY <2>1, <3>1, Outside, EarlyAtFirst
  <2>2. CASE o # Len(s)
    <3>1. Len(s) - o = -1 /\ o \notin 0..Len(s)
      BY <2>2
    <3> QED
      BY <3>1, Outside, EarlyAtFirst
  <2> QED
    BY <2>1, <2>2
<1>4. Early(Len(s) - o, v) \in {-1, 1, Undefined}
  BY DEF Early
<1> HIDE DEF L
<1>5. ~(o + L <= Len(s) + 1)
  BY <1>1, <1>2
<1> QED
  BY <1>3, <1>4, <1>5 DEF ToRead, L

\* The symbols of a text that are another's, in their order, are that other.
LEMMA Content ==
    ASSUME NEW S, NEW s \in Seq(S), NEW u \in Seq(S), NEW from \in Nat, from + Len(u) <= Len(s),
           \A k \in 1..Len(u) : s[from + k] = u[k]
    PROVE  SubSeq(s, from + 1, from + Len(u)) = u
<1> DEFINE n == Len(u)
           a == from + 1
           b == from + n
           w == SubSeq(s, a, b)
<1>1. n \in Nat /\ Len(s) \in Nat
  BY LenProperties
<1>2. a \in Int /\ b \in Int /\ \A i \in a..b : i \in 1..Len(s)
  BY <1>1
<1>3. \A i \in a..b : s[i] \in S
  BY <1>2, ElementOfSeq
<1>4. b - a + 1 = n /\ (IF a <= b THEN b - a + 1 ELSE 0) = n /\ \A k \in 1..n : a + k - 1 = from + k
  BY <1>1
<1> HIDE DEF a, b
<1>5. /\ w \in Seq(S) /\ Len(w) = IF a <= b THEN b - a + 1 ELSE 0
      /\ \A k \in 1..(b - a + 1) : w[k] = s[a + k - 1]
  BY <1>2, <1>3, SubSeqProperties
<1> HIDE DEF w
<1>6. w \in Seq(S) /\ Len(w) = n /\ \A k \in 1..n : w[k] = s[from + k]
  BY <1>4, <1>5
<1>7. w = u
  BY <1>6, SeqEqual
<1> QED
  BY <1>7 DEF w, a, b

\* A line is read when its CR has arrived.
LEMMA ReadsLine ==
    ASSUME NEW s, Len(s) \in Nat, NEW C, NEW o \in 0..(Len(s) - 1), NEW v \in Parts, At(s, o, v),
           s \in Seq(Symbols), v.type \in {"+", "-"}
    PROVE  ToRead(s, o, v, checkPart(s, C, o))
<1> DEFINE e == parseRESPString[v]
           n == Len(v.str)
           c == checkPart(s, C, o)
<1>1. /\ n \in Nat /\ Len(e) = n + 3 /\ e[1] = v.type /\ e[n + 2] = "CR"
      /\ \A k \in 1..n : e[1 + k] = v.str[k] /\ v.str[k] # "CR"
      /\ v.str \in Seq(Symbols) /\ v = [type |-> v.type, str |-> v.str]
  BY LineLayout DEF LineLaid
<1>2. \A k \in 1..(n + 3) : o + k <= Len(s) => s[o + k] = e[k]
  BY <1>1 DEF At
<1>3. s[o + 1] = v.type /\ v.type \in Types
  <2>1. 1 \in 1..(n + 3) /\ o + 1 <= Len(s)
    BY <1>1
  <2> QED
    BY <1>1, <1>2, <2>1 DEF Types
<1>4. Judged(s, C, o)
  BY Judging
<1>5. ~hasNull[v]
  BY Nulls DEF NullIn
<1>6. \A k \in 1..n : (o + 1) + k <= Len(s) => s[(o + 1) + k] = v.str[k] /\ s[(o + 1) + k] # "CR"
  <2> SUFFICES ASSUME NEW k \in 1..n, (o + 1) + k <= Len(s)
               PROVE  s[(o + 1) + k] = v.str[k] /\ s[(o + 1) + k] # "CR"
    OBVIOUS
  <2>1. 1 + k \in 1..(n + 3) /\ o + (1 + k) <= Len(s) /\ o + (1 + k) = (o + 1) + k
    BY <1>1
  <2> QED
    BY <1>1, <1>2, <2>1
<1>7. CASE Len(s) < o + n + 2
  <2>1. \A i \in (o + 1 + 1)..Len(s) : s[i] # "CR"
    <3> SUFFICES ASSUME NEW i \in (o + 1 + 1)..Len(s) PROVE s[i] # "CR"
      OBVIOUS
    <3>1. i - (o + 1) \in 1..n /\ (o + 1) + (i - (o + 1)) = i /\ i <= Len(s)
      BY <1>1, <1>7
    <3> QED
      BY <1>6, <3>1
  <2>2. searchNextPr(s, o + 1) = -1
    <3>1. o + 1 \in Nat
      OBVIOUS
    <3> QED
      BY <2>1, <3>1, Distance
  <2>3. c = Failed(1)
    BY <1>3, <1>4, <2>2 DEF Judged
  <2>4. Early(Len(s) - o, v) = 1
    <3>1. Len(s) - o \in Nat /\ Len(s) - o >= 1
      OBVIOUS
    <3>2. v.type # "*"
      OBVIOUS
    <3> QED
      BY <3>1, <3>2, EarlyAtFirst
  <2>5. ~(o + (n + 3) <= Len(s) + 1)
    BY <1>1, <1>7
  <2> QED
    BY <1>1, <1>5, <2>3, <2>4, <2>5 DEF ToRead
<1>8. CASE Len(s) >= o + n + 2
  <2>1. searchNextPr(s, o + 1) = n
    <3>1. (o + 1) + n < Len(s) /\ \A k \in 1..n : (o + 1) + k <= Len(s)
      BY <1>1, <1>8
    <3>2. s[(o + 1) + n + 1] = "CR"
      <4>1. n + 2 \in 1..(n + 3) /\ o + (n + 2) = (o + 1) + n + 1 /\ o + (n + 2) <= Len(s)
        BY <1>1, <1>8
      <4> QED
        BY <1>1, <1>2, <4>1
    <3>3. \A k \in 1..n : s[(o + 1) + k] # "CR"
      BY <1>6, <3>1
    <3>4. o + 1 \in Nat
      OBVIOUS
    <3> QED
      BY <1>1, <3>1, <3>2, <3>3, <3>4, Distance
  <2>2. c = Part([type |-> v.type, str |-> SubSeq(s, (o + 1) + 1, (o + 1) + n)], (o + 1) + n + 2)
    <3>1. n # -1
      BY <1>1
    <3> QED
      BY <1>3, <1>4, <2>1, <3>1 DEF Judged
  <2>3. SubSeq(s, (o + 1) + 1, (o + 1) + n) = v.str
    <3>1. (o + 1) + n <= Len(s) /\ \A k \in 1..n : (o + 1) + k <= Len(s)
      BY <1>1, <1>8
    <3>2. o + 1 \in Nat /\ \A k \in 1..n : s[(o + 1) + k] = v.str[k]
      BY <1>6, <3>1
    <3> QED
      BY <1>1, <3>1, <3>2, Content
  <2>4. (o + 1) + n + 2 = o + (n + 3) /\ o + (n + 3) <= Len(s) + 1 /\ ~(o + (n + 3) > Len(s) + 1)
    <3>1. n \in Nat
      BY <1>1
    <3> HIDE DEF n
    <3> QED
      BY <1>8, <3>1
  <2>5. c = Part(v, o + (n + 3))
    BY <1>1, <2>2, <2>3, <2>4
  <2> QED
    BY <1>1, <1>5, <2>4, <2>5 DEF ToRead
<1> QED
  BY <1>1, <1>7, <1>8

\* Of anything else the type, a number and a CR come first: without the CR it is
\* not complete.
Opened(s, o, v, n) ==
    /\ s[o + 1] = v.type /\ searchNextPr(s, o + 1) = 1
    /\ IsNumber(s[(o + 1) + 1]) /\ Number(s[(o + 1) + 1]) = n

LEMMA Opening ==
    ASSUME NEW s, Len(s) \in Nat, NEW C, NEW o \in 0..(Len(s) - 1), NEW v \in Parts, At(s, o, v),
           v.type \in {":", "$", "*"}, NEW n \in Numbers,
           parseRESPString[v][1] = v.type, parseRESPString[v][2] = Digits[n], parseRESPString[v][3] = "CR"
    PROVE  /\ Len(s) < o + 3 => checkPart(s, C, o) = Failed(1) /\ Early(Len(s) - o, v) = 1
           /\ Len(s) >= o + 3 => Opened(s, o, v, n)
<1> DEFINE e == parseRESPString[v]
           L == Len(e)
<1>1. L \in Nat /\ L >= 3
  BY Rooms DEF Room
<1>2. \A k \in 1..L : o + k <= Len(s) => s[o + k] = e[k]
  BY DEF At
<1> HIDE DEF L, e
<1>3. /\ s[o + 1] = v.type /\ v.type \in Types
      /\ o + 2 <= Len(s) => s[o + 2] = Digits[n]
      /\ o + 3 <= Len(s) => s[o + 3] = "CR"
  <2>1. 1 \in 1..L /\ 2 \in 1..L /\ 3 \in 1..L /\ o + 1 <= Len(s)
    BY <1>1
  <2>2. v.type \in Types
    BY DEF Types
  <2> QED
    BY <1>2, <2>1, <2>2 DEF e
<1>4. IsNumber(Digits[n]) /\ Number(Digits[n]) = n /\ Digits[n] # "CR"
  BY NumberOf
<1>5. ASSUME Len(s) < o + 3
      PROVE  checkPart(s, C, o) = Failed(1) /\ Early(Len(s) - o, v) = 1
  <2>1. \A i \in (o + 1 + 1)..Len(s) : s[i] # "CR"
    <3> SUFFICES ASSUME NEW i \in (o + 1 + 1)..Len(s) PROVE s[i] # "CR"
      OBVIOUS
    <3>1. i = o + 2 /\ o + 2 <= Len(s)
      BY <1>5
    <3> QED
      BY <1>3, <1>4, <3>1
  <2>2. searchNextPr(s, o + 1) = -1
    <3>1. o + 1 \in Nat
      OBVIOUS
    <3> QED
      BY <2>1, <3>1, Distance
  <2>3. Judged(s, C, o)
    BY Judging
  <2>4. checkPart(s, C, o) = Failed(1)
    BY <1>3, <2>2, <2>3 DEF Judged
  <2>5. Len(s) - o = 1 \/ Len(s) - o = 2
    BY <1>5
  <2> QED
    BY <2>4, <2>5, EarlyAtFirst
<1>6. ASSUME Len(s) >= o + 3 PROVE Opened(s, o, v, n)
  <2>1. /\ (o + 1) + 1 < Len(s) /\ (o + 1) + 1 + 1 = o + 3 /\ (o + 1) + 1 = o + 2
        /\ o + 2 <= Len(s) /\ o + 3 <= Len(s) /\ o + 1 \in Nat
    BY <1>6
  <2>2. searchNextPr(s, o + 1) = 1
    <3>1. s[(o + 1) + 1 + 1] = "CR" /\ \A j \in 1..1 : s[(o + 1) + j] # "CR"
      <4>1. \A j \in 1..1 : j = 1
        OBVIOUS
      <4> QED
        BY <1>3, <1>4, <2>1, <4>1
    <3> QED
      BY <2>1, <3>1, Distance
  <2> QED
    BY <1>3, <1>4, <2>1, <2>2 DEF Opened
<1> QED
  BY <1>5, <1>6

LEMMA ReadsInt ==
    ASSUME NEW s, Len(s) \in Nat, NEW C, NEW o \in 0..(Len(s) - 1), NEW v \in Parts, At(s, o, v), v.type = ":"
    PROVE  ToRead(s, o, v, checkPart(s, C, o))
<1>1. IntLaid(v)
  BY IntLayout
<1>2. /\ Len(s) < o + 3 => checkPart(s, C, o) = Failed(1) /\ Early(Len(s) - o, v) = 1
      /\ Len(s) >= o + 3 => Opened(s, o, v, v.int)
  BY <1>1, Opening DEF IntLaid
<1>3. ~hasNull[v] /\ Len(parseRESPString[v]) = 4
  BY <1>1, Nulls DEF NullIn, IntLaid
<1>4. CASE Len(s) < o + 3
  <2>1. ~(o + 4 <= Len(s) + 1)
    BY <1>4
  <2> QED
    BY <1>2, <1>3, <1>4, <2>1 DEF ToRead
<1>5. CASE Len(s) >= o + 3
  <2>1. Judged(s, C, o)
    BY Judging
  <2>2. checkPart(s, C, o) = Part([type |-> ":", int |-> v.int], (o + 1) + 1 + 2)
    BY <1>2, <1>5, <2>1 DEF Judged, Opened
  <2>3. (o + 1) + 1 + 2 = o + 4 /\ ~(o + 4 > Len(s) + 1)
    BY <1>5
  <2> QED
    BY <1>1, <1>3, <2>2, <2>3 DEF ToRead, IntLaid
<1> QED
  BY <1>4, <1>5

LEMMA ReadsNull ==
    ASSUME NEW s, Len(s) \in Nat, NEW C, NEW o \in 0..(Len(s) - 1), NEW v \in Parts, At(s, o, v),
           v.type = "$", v.str = Null
    PROVE  ToRead(s, o, v, checkPart(s, C, o))
<1>1. NullLaid(v)
  BY NullLayout
<1>2. /\ Len(s) < o + 3 => checkPart(s, C, o) = Failed(1)
      /\ Len(s) >= o + 3 => Opened(s, o, v, -1)
  BY <1>1, Opening DEF NullLaid
<1>3. hasNull[v]
  BY Nulls DEF NullIn
<1>4. CASE Len(s) < o + 3
  BY <1>2, <1>3, <1>4 DEF ToRead
<1>5. CASE Len(s) >= o + 3
  <2>1. Judged(s, C, o)
    BY Judging
  <2>2. checkPart(s, C, o) = Part([type |-> "$", str |-> Null], Unset)
    BY <1>2, <1>5, <2>1 DEF Judged, Opened
  <2> QED
    BY <1>3, <2>2 DEF ToRead, Part
<1> QED
  BY <1>4, <1>5

\* A string is read when the byte behind its content has arrived.
LEMMA ReadsString ==
    ASSUME NEW s, s \in Seq(Symbols), Len(s) \in Nat, NEW C, NEW o \in 0..(Len(s) - 1), NEW v \in Parts,
           At(s, o, v), v.type = "$", v.str # Null
    PROVE  ToRead(s, o, v, checkPart(s, C, o))
<1> DEFINE n == Len(v.str)
           e == parseRESPString[v]
           c == checkPart(s, C, o)
<1>1. StringLaid(v)
  BY StringLayout
<1>2. n \in Nat /\ n \in Numbers /\ Len(e) = n + 6
  BY <1>1 DEF StringLaid
<1>3. /\ Len(s) < o + 3 => c = Failed(1) /\ Early(Len(s) - o, v) = 1
      /\ Len(s) >= o + 3 => Opened(s, o, v, n)
  BY <1>1, Opening DEF StringLaid
<1>4. ~hasNull[v]
  BY Nulls DEF NullIn
<1>5. Early(Len(s) - o, v) = 1
  <2>1. Len(s) - o \in Nat /\ Len(s) - o >= 1
    OBVIOUS
  <2>2. v.type # "*"
    OBVIOUS
  <2> QED
    BY <2>1, <2>2, EarlyAtFirst
<1>6. CASE Len(s) < o + 3
  <2>1. ~(o + (n + 6) <= Len(s) + 1)
    BY <1>2, <1>6
  <2> QED
    BY <1>2, <1>3, <1>4, <1>6, <2>1 DEF ToRead
<1>7. CASE Len(s) >= o + 3
  <2> DEFINE start == (o + 1) + 1 + 2
  <2>1. Judged(s, C, o)
    BY Judging
  <2>2. c = IF incomplete(Len(s), start, n) THEN Failed(1)
            ELSE Part([type |-> "$", str |-> SubSeq(s, start + 1, start + n)], afterBulk(start, n))
    <3>1. n # -1
      BY <1>2
    <3>2. Opened(s, o, v, n)
      BY <1>3, <1>7
    <3> DEFINE pr == searchNextPr(s, o + 1)
               number == Number(s[(o + 1) + 1])
               first == (o + 1) + pr + 2
    <3>3. s[o + 1] = "$" /\ pr = 1 /\ IsNumber(s[(o + 1) + 1]) /\ number = n
      BY <3>2 DEF Opened
    <3>4. c = IF incomplete(Len(s), first, number) THEN Failed(1)
              ELSE Part([type |-> "$", str |-> SubSeq(s, first + 1, first + number)], afterBulk(first, number))
      BY <2>1, <3>1, <3>3 DEF Judged
    <3> HIDE DEF n, c, pr, number
    <3> QED
      BY <3>3, <3>4
  <2>3. CASE start + n >= Len(s)
    <3>1. c = Failed(1)
      BY <2>2, <2>3 DEF incomplete
    <3>2. ~(o + (n + 6) <= Len(s) + 1)
      <4> HIDE DEF n
      <4> QED
        BY <1>2, <2>3
    <3> QED
      BY <1>2, <1>4, <1>5, <3>1, <3>2 DEF ToRead
  <2>4. CASE ~(start + n >= Len(s))
    <3>1. c = Part([type |-> "$", str |-> SubSeq(s, start + 1, start + n)], start + n + 2)
      BY <2>2, <2>4 DEF incomplete, afterBulk
    <3>2. SubSeq(s, start + 1, start + n) = v.str
      <4>1. start \in Nat /\ start = o + 4 /\ start + n <= Len(s)
        <5> HIDE DEF n
        <5> QED
          BY <1>2, <2>4
      <4>2. \A k \in 1..n : s[start + k] = v.str[k]
        <5> SUFFICES ASSUME NEW k \in 1..n PROVE s[start + k] = v.str[k]
          OBVIOUS
        <5>1. 4 + k \in 1..(n + 6) /\ o + (4 + k) <= Len(s) /\ o + (4 + k) = start + k
          <6>1. k \in Nat /\ k <= n
            BY <1>2
          <6> HIDE DEF n
          <6> QED
            BY <1>2, <4>1, <6>1
        <5>2. s[o + (4 + k)] = e[4 + k]
          BY <1>2, <5>1 DEF At
        <5>3. e[4 + k] = v.str[k]
          BY <1>1 DEF StringLaid
        <5> QED
          BY <5>1, <5>2, <5>3
      <4>3. v.str \in Seq(Symbols)
        BY <1>1 DEF StringLaid
      <4> HIDE DEF start
      <4> QED
        BY <4>1, <4>2, <4>3, Content
    <3>3. start + n + 2 = o + (n + 6) /\ ~(o + (n + 6) > Len(s) + 1)
      <4> HIDE DEF n
      <4> QED
        BY <1>2, <2>4
    <3>4. c = Part(v, o + (n + 6))
      BY <1>1, <3>1, <3>2, <3>3 DEF StringLaid
    <3> QED
      BY <1>2, <1>4, <3>3, <3>4 DEF ToRead
  <2> QED
    BY <2>3, <2>4
<1> QED
  BY <1>6, <1>7

\* The first i of a sequence's elements are the first i - 1 and element i.
LEMMA OneMore ==
    ASSUME NEW S, NEW u \in Seq(S)
    PROVE  /\ SubSeq(u, 1, 0) = <<>> /\ SubSeq(u, 1, Len(u)) = u
           /\ \A i \in 1..Len(u) : SubSeq(u, 1, i) = Append(SubSeq(u, 1, i - 1), u[i])
<1> DEFINE n == Len(u)
<1>1. n \in Nat
  BY LenProperties
<1>2. ASSUME NEW i \in 0..n
      PROVE  /\ SubSeq(u, 1, i) \in Seq(S) /\ Len(SubSeq(u, 1, i)) = i
             /\ \A k \in 1..i : SubSeq(u, 1, i)[k] = u[k]
  <2> DEFINE w == SubSeq(u, 1, i)
  <2>1. 1 \in Int /\ i \in Int /\ \A k \in 1..i : u[k] \in S
    BY <1>1, ElementOfSeq
  <2>2. /\ w \in Seq(S) /\ Len(w) = IF 1 <= i THEN i - 1 + 1 ELSE 0
        /\ \A k \in 1..(i - 1 + 1) : w[k] = u[1 + k - 1]
    BY <2>1, SubSeqProperties
  <2> HIDE DEF w
  <2>3. i - 1 + 1 = i /\ (IF 1 <= i THEN i - 1 + 1 ELSE 0) = i /\ \A k \in 1..i : 1 + k - 1 = k
    BY <1>1
  <2>4. w \in Seq(S) /\ Len(w) = i /\ \A k \in 1..i : w[k] = u[k]
    BY <2>2, <2>3
  <2> QED
    BY <2>4 DEF w
<1>3. SubSeq(u, 1, 0) = <<>>
  BY SubSeqEmpty
<1>4. SubSeq(u, 1, n) = u
  <2>1. n \in 0..n
    BY <1>1
  <2> QED
    BY <1>2, <2>1, SeqEqual
<1>5. ASSUME NEW i \in 1..n PROVE SubSeq(u, 1, i) = Append(SubSeq(u, 1, i - 1), u[i])
  <2> DEFINE a == SubSeq(u, 1, i - 1)
             b == SubSeq(u, 1, i)
  <2>1. i - 1 \in 0..n /\ i \in 0..n /\ u[i] \in S
    BY <1>1, ElementOfSeq
  <2>2. /\ a \in Seq(S) /\ Len(a) = i - 1 /\ \A k \in 1..(i - 1) : a[k] = u[k]
        /\ b \in Seq(S) /\ Len(b) = i /\ \A k \in 1..i : b[k] = u[k]
    BY <1>2, <2>1
  <2> HIDE DEF a, b
  <2>3. /\ Append(a, u[i]) \in Seq(S) /\ Len(Append(a, u[i])) = (i - 1) + 1
        /\ \A k \in 1..(i - 1) : Append(a, u[i])[k] = a[k]
        /\ Append(a, u[i])[(i - 1) + 1] = u[i]
    BY <2>1, <2>2, AppendProperties
  <2>4. (i - 1) + 1 = i
    OBVIOUS
  <2>5. \A k \in 1..i : Append(a, u[i])[k] = b[k]
    <3> SUFFICES ASSUME NEW k \in 1..i PROVE Append(a, u[i])[k] = b[k]
      OBVIOUS
    <3>1. k \in 1..(i - 1) \/ k = i
      OBVIOUS
    <3> QED
      BY <2>2, <2>3, <2>4, <3>1
  <2>6. Append(a, u[i]) = b
    BY <2>2, <2>3, <2>4, <2>5, SeqEqual
  <2> QED
    BY <2>6 DEF a, b
<1> QED
  BY <1>3, <1>4, <1>5

\* A value cut off in an element fails as that element does.
LEMMA EarlyWithin ==
    ASSUME NEW v \in Parts, v.type = "*", NEW i \in 1..Len(v.vec), NEW k \in Nat, k >= 1,
           Begin(v, i) <= k + 1, k + 1 < Begin(v, i + 1)
    PROVE  Early(k, v) = Early(k - Begin(v, i), v.vec[i])
<1>1. Begin(v, i) \in Nat /\ Begin(v, i + 1) \in Nat
  BY ArrayLayout DEF ArrayLaid, ElementLaid
<1>2. k \in starts[v] <=> k - Begin(v, i) \in starts[v.vec[i]]
  <2>1. k \in Int /\ k >= 1 /\ Begin(v, i) <= k + 1 /\ k < Begin(v, i + 1)
    BY <1>1
  <2> QED
    BY <2>1, StartsWithin
<1>3. k + 1 \in starts[v] <=> (k + 1) - Begin(v, i) \in starts[v.vec[i]]
  <2> DEFINE x == k + 1
  <2>1. x \in Int /\ x >= 1 /\ Begin(v, i) <= x + 1 /\ x < Begin(v, i + 1)
    BY <1>1
  <2> HIDE DEF x
  <2>2. x \in starts[v] <=> x - Begin(v, i) \in starts[v.vec[i]]
    BY <2>1, StartsWithin
  <2> QED
    BY <2>2 DEF x
<1>4. (k + 1) - Begin(v, i) = (k - Begin(v, i)) + 1
  BY <1>1
<1> QED
  BY <1>2, <1>3, <1>4 DEF Early

\* After i elements of an array: all of them have been read, or one is cut off, or
\* one holds a null string.
AllRead(s, o, v, i, result) ==
    /\ \A j \in 1..i : ~hasNull[v.vec[j]]
    /\ o + Begin(v, i + 1) <= Len(s) + 1
    /\ result = Part([type |-> "*", vec |-> SubSeq(v.vec, 1, i)], o + Begin(v, i + 1))

CutOff(s, o, v, i, result) ==
    \E j \in 1..i : /\ o + Begin(v, j) <= Len(s) + 1 /\ o + Begin(v, j + 1) > Len(s) + 1
                    /\ result = Failed(Early(Len(s) - (o + Begin(v, j)), v.vec[j]))

Nulled(v, i, result) ==
    /\ \E j \in 1..i : hasNull[v.vec[j]]
    /\ \/ result = Failed(-1) \/ result = Failed(1) \/ result = Failed(Undefined)
       \/ result.status = 0 /\ result.next = Unset

\* checked is the table of what checkData gives in s.
Table(s, checked) == \A p \in Int : checked[p] = checkPart(s, checked, p)

\* Every part that is less deep than v is read as it is to be.
ReadsBelow(s, checked, v) ==
    \A w \in Parts : \A p \in 0..(Len(s) + 1) :
        Height[w] < Height[v] /\ At(s, p, w) => ToRead(s, p, w, checked[p])

\* One element more.
LEMMA ReadsElement ==
    ASSUME NEW s, Len(s) \in Nat, NEW C, Table(s, C), NEW o \in Nat, NEW v \in Parts, At(s, o, v),
           v.type = "*", ReadsBelow(s, C, v), NEW i \in 1..Len(v.vec), NEW before, NEW after,
           after = ReadNext(C, before),
           \/ AllRead(s, o, v, i - 1, before) \/ CutOff(s, o, v, i - 1, before) \/ Nulled(v, i - 1, before)
    PROVE  AllRead(s, o, v, i, after) \/ CutOff(s, o, v, i, after) \/ Nulled(v, i, after)
<1> DEFINE n == Len(v.vec)
           w == v.vec[i]
           p == o + Begin(v, i)
           L == Len(parseRESPString[w])
<1>1. /\ n \in Nat /\ v.vec \in Seq(Parts) /\ w \in Parts /\ Height[w] < Height[v]
  BY Elements
<1>2. /\ Begin(v, i) \in Nat /\ L \in Nat /\ Begin(v, i + 1) = Begin(v, i) + L
      /\ Begin(v, i + 1) <= Len(parseRESPString[v])
      /\ \A k \in 1..L : parseRESPString[v][Begin(v, i) + k] = parseRESPString[w][k]
  BY ArrayLayout DEF ArrayLaid, ElementLaid
<1>3. \A j \in 1..(i - 1) : j \in 1..i
  OBVIOUS
<1>4. CASE CutOff(s, o, v, i - 1, before)
  <2>1. before.status # 0
    BY <1>4 DEF CutOff, Failed, Early, Undefined
  <2>2. after = before
    BY <2>1 DEF ReadNext
  <2>3. CutOff(s, o, v, i, before)
    BY <1>3, <1>4 DEF CutOff
  <2> QED
    BY <2>2, <2>3
<1>5. CASE Nulled(v, i - 1, before)
  <2>1. \E j \in 1..i : hasNull[v.vec[j]]
    BY <1>3, <1>5 DEF Nulled
  <2>2. CASE before.status # 0
    <3>1. after = before
      BY <2>2 DEF ReadNext
    <3> QED
      BY <1>5, <2>1, <3>1 DEF Nulled
  <2>3. CASE before.status = 0
    <3>1. before.next = Unset
      BY <1>5, <2>3 DEF Nulled, Failed, Undefined
    <3>2. C[Unset] = Failed(Undefined)
      <4>1. Unset \in Int /\ Unset \notin 0..Len(s)
        BY DEF Unset
      <4> QED
        BY <4>1, Outside DEF Table
    <3>3. after = Failed(Undefined)
      BY <2>3, <3>1, <3>2 DEF ReadNext, Failed, Undefined
    <3> QED
      BY <2>1, <3>3 DEF Nulled
  <2> QED
    BY <2>2, <2>3
<1>6. CASE AllRead(s, o, v, i - 1, before)
  <2>1. (i - 1) + 1 = i
    OBVIOUS
  <2>2. /\ \A j \in 1..(i - 1) : ~hasNull[v.vec[j]]
        /\ p <= Len(s) + 1
        /\ before = Part([type |-> "*", vec |-> SubSeq(v.vec, 1, i - 1)], p)
    BY <1>6, <2>1 DEF AllRead
  <2>3. p \in 0..(Len(s) + 1)
    BY <1>2, <2>2
  <2>4. At(s, p, w)
    <3> SUFFICES ASSUME NEW k \in 1..L, p + k <= Len(s) PROVE s[p + k] = parseRESPString[w][k]
      BY DEF At
    <3> DEFINE x == Begin(v, i) + k
    <3>1. x \in 1..Len(parseRESPString[v]) /\ o + x = p + k
      <4> DEFINE m == Len(parseRESPString[v])
      <4>1. m \in Nat
        BY Rooms DEF Room
      <4> HIDE DEF m, L
      <4>2. x \in 1..m
        BY <1>2, <4>1 DEF m
      <4>3. o + x = p + k
        BY <1>2
      <4> QED
        BY <4>2, <4>3 DEF m
    <3>2. s[o + x] = parseRESPString[v][x]
      <4> HIDE DEF x
      <4> QED
        BY <3>1 DEF At
    <3> QED
      BY <1>2, <3>1, <3>2
  <2>5. ToRead(s, p, w, C[p])
    <3> HIDE DEF w, p
    <3> QED
      BY <1>1, <2>3, <2>4 DEF ReadsBelow
  <2>6. before.status = 0 /\ before.next = p /\ before.data.vec = SubSeq(v.vec, 1, i - 1)
    BY <2>2 DEF Part
  <2>7. p + L = o + Begin(v, i + 1)
    BY <1>2
  <2> HIDE DEF p, L
  <2>8. CASE hasNull[w]
    <3>1. \E j \in 1..i : hasNull[v.vec[j]]
      BY <2>8
    <3>2. CASE C[p].status # 0
      <4>1. C[p] = Failed(-1) \/ C[p] = Failed(1) \/ C[p] = Failed(Undefined)
        BY <2>5, <2>8, <3>2 DEF ToRead
      <4>2. after = Failed(C[p].status)
        BY <2>6, <3>2 DEF ReadNext
      <4> QED
        BY <3>1, <4>1, <4>2 DEF Nulled, Failed
    <3>3. CASE C[p].status = 0
      <4>1. C[p].next = Unset
        BY <2>5, <2>8, <3>3 DEF ToRead, Failed, Undefined
      <4>2. after.status = 0 /\ after.next = Unset
        BY <2>6, <3>3, <4>1 DEF ReadNext, Part
      <4> QED
        BY <3>1, <4>2 DEF Nulled
    <3> QED
      BY <3>2, <3>3
  <2>9. CASE ~hasNull[w] /\ p + L <= Len(s) + 1
    <3>1. C[p] = Part(w, p + L)
      BY <2>5, <2>9 DEF ToRead, L
    <3>2. C[p].status = 0 /\ C[p].data = w /\ C[p].next = p + L
      BY <3>1 DEF Part
    <3>3. after = Part([type |-> "*", vec |-> Append(SubSeq(v.vec, 1, i - 1), w)], p + L)
      BY <2>6, <3>2 DEF ReadNext
    <3>4. Append(SubSeq(v.vec, 1, i - 1), w) = SubSeq(v.vec, 1, i)
      BY <1>1, OneMore
    <3>5. \A j \in 1..i : ~hasNull[v.vec[j]]
      <4>1. \A j \in 1..i : j \in 1..(i - 1) \/ j = i
        OBVIOUS
      <4> QED
        BY <2>2, <2>9, <4>1
    <3> QED
      BY <2>7, <2>9, <3>3, <3>4, <3>5 DEF AllRead
  <2>10. CASE ~hasNull[w] /\ p + L > Len(s) + 1
    <3>1. C[p] = Failed(Early(Len(s) - p, w))
      BY <2>5, <2>10 DEF ToRead, L
    <3>2. after = Failed(Early(Len(s) - p, w))
      BY <2>6, <3>1 DEF ReadNext, Failed, Early, Undefined
    <3>3. i \in 1..i
      OBVIOUS
    <3> QED
      BY <2>2, <2>7, <2>10, <3>2, <3>3 DEF CutOff, p
  <2>11. p + L \in Int
    BY <1>2, <2>3 DEF L
  <2> QED
    BY <2>8, <2>9, <2>10, <2>11
<1> QED
  BY <1>4, <1>5, <1>6

LEMMA ReadsArray ==
    ASSUME NEW s, Len(s) \in Nat, NEW C, Table(s, C), NEW o \in 0..(Len(s) - 1), NEW v \in Parts, At(s, o, v),
           v.type = "*", ReadsBelow(s, C, v)
    PROVE  ToRead(s, o, v, checkPart(s, C, o))
<1> DEFINE n == Len(v.vec)
           L == Len(parseRESPString[v])
           c == checkPart(s, C, o)
<1>1. /\ n \in Nat /\ n \in Numbers /\ L \in Nat /\ Begin(v, 1) = 4 /\ Begin(v, n + 1) = L
      /\ parseRESPString[v][1] = "*" /\ parseRESPString[v][2] = Digits[n] /\ parseRESPString[v][3] = "CR"
  BY ArrayLayout DEF ArrayLaid
<1>2. /\ Len(s) < o + 3 => c = Failed(1) /\ Early(Len(s) - o, v) = 1
      /\ Len(s) >= o + 3 => Opened(s, o, v, n)
  BY <1>1, Opening
<1>3. n + 1 \in 1..(n + 1) /\ L >= 4
  <2>1. n + 1 \in 1..(n + 1)
    <3> HIDE DEF n
    <3> QED
      BY <1>1
  <2> QED
    BY <1>1, <2>1, InOrder
<1>4. CASE Len(s) < o + 3
  <2>1. ~(o + L <= Len(s) + 1)
    <3> HIDE DEF L
    <3> QED
      BY <1>1, <1>3, <1>4
  <2>2. c = Failed(1) /\ Early(Len(s) - o, v) = 1
    BY <1>2, <1>4
  <2> QED
    BY <2>1, <2>2 DEF ToRead
<1>5. CASE Len(s) >= o + 3
  <2>1. c = checkElements(C, o + 4, n)
    <3> DEFINE pr == searchNextPr(s, o + 1)
               number == Number(s[(o + 1) + 1])
               first == (o + 1) + pr + 2
    <3>1. s[o + 1] = "*" /\ pr = 1 /\ IsNumber(s[(o + 1) + 1]) /\ number = n
      BY <1>2, <1>5 DEF Opened
    <3>2. Judged(s, C, o)
      BY Judging
    <3>3. c = checkElements(C, first, IF number < 0 THEN Len(s) + 2 ELSE number)
      BY <3>1, <3>2 DEF Judged
    <3>4. first = o + 4
      BY <3>1
    <3>5. (IF number < 0 THEN Len(s) + 2 ELSE number) = n
      BY <1>1, <3>1
    <3> HIDE DEF c, first, number, n
    <3> QED
      BY <3>3, <3>4, <3>5
  <2>2. PICK r : ReadAll(C, o + 4, n, r) /\ checkElements(C, o + 4, n) = r[n]
    BY <1>1, Loop
  <2> DEFINE Fine(i) == AllRead(s, o, v, i, r[i]) \/ CutOff(s, o, v, i, r[i]) \/ Nulled(v, i, r[i])
             T == {i \in Nat : Fine(i)}
  <2>3. 0 \in T
    <3>1. r[0] = Part([type |-> "*", vec |-> <<>>], o + 4)
      BY <2>2 DEF ReadAll
    <3>2. SubSeq(v.vec, 1, 0) = <<>>
      BY Elements, OneMore
    <3>3. 0 + 1 = 1 /\ o + 4 <= Len(s) + 1 /\ \A j \in 1..0 : FALSE
      BY <1>5
    <3>4. AllRead(s, o, v, 0, r[0])
      BY <1>1, <3>1, <3>2, <3>3 DEF AllRead
    <3> QED
      BY <3>4
  <2>4. \A i \in 1..n : i - 1 \in T => i \in T
    <3> SUFFICES ASSUME NEW i \in 1..n, i - 1 \in T PROVE Fine(i)
      BY <1>1
    <3>1. r[i] = ReadNext(C, r[i - 1])
      BY <2>2 DEF ReadAll
    <3>2. Fine(i - 1)
      OBVIOUS
    <3> QED
      BY <3>1, <3>2, ReadsElement
  <2> HIDE DEF T
  <2>5. \A i \in 0..n : i \in T
    BY <1>1, <2>3, <2>4, InductionUpTo
  <2>6. Fine(n) /\ c = r[n]
    <3>1. n \in 0..n
      BY <1>1
    <3> QED
      BY <2>1, <2>2, <2>5, <3>1 DEF T
  <2>7. hasNull[v] <=> \E j \in 1..n : hasNull[v.vec[j]]
    BY Nulls, Elements DEF NullIn
  <2>8. CASE AllRead(s, o, v, n, c)
    <3>1. ~hasNull[v]
      BY <2>7, <2>8 DEF AllRead
    <3>2. SubSeq(v.vec, 1, n) = v.vec /\ v = [type |-> "*", vec |-> v.vec]
      BY Elements, OneMore
    <3>3. o + L <= Len(s) + 1 /\ c = Part(v, o + L)
      BY <1>1, <2>8, <3>2 DEF AllRead
    <3>4. ~(o + L > Len(s) + 1)
      BY <1>1, <3>3
    <3> QED
      BY <3>1, <3>3, <3>4 DEF ToRead
  <2>9. CASE CutOff(s, o, v, n, c)
    <3>1. PICK j \in 1..n : /\ o + Begin(v, j) <= Len(s) + 1 /\ o + Begin(v, j + 1) > Len(s) + 1
                            /\ c = Failed(Early(Len(s) - (o + Begin(v, j)), v.vec[j]))
      BY <2>9 DEF CutOff
    <3> DEFINE k == Len(s) - o
               a == Begin(v, j)
               b == Begin(v, j + 1)
    <3>2. a \in Nat /\ b \in Nat /\ b <= L
      BY <1>1, ArrayLayout DEF ArrayLaid, ElementLaid
    <3>3. k \in Nat /\ k >= 1 /\ a <= k + 1 /\ k + 1 < b
      <4> HIDE DEF a, b
      <4> QED
        BY <1>5, <3>1, <3>2 DEF a, b
    <3>4. Early(k, v) = Early(k - a, v.vec[j])
      <4> HIDE DEF k
      <4> QED
        BY <3>3, EarlyWithin
    <3>5. Len(s) - (o + a) = k - a
      BY <3>2
    <3>6. c = Failed(Early(Len(s) - o, v))
      BY <3>1, <3>4, <3>5
    <3>7. ~(o + L <= Len(s) + 1)
      <4>1. o + b > Len(s) + 1
        BY <3>1
      <4> HIDE DEF b, L
      <4> QED
        BY <1>1, <3>2, <4>1
    <3>8. Early(Len(s) - o, v) \in {-1, 1, Undefined}
      BY DEF Early
    <3>9. c = Failed(-1) \/ c = Failed(1) \/ c = Failed(Undefined)
      BY <3>6, <3>8
    <3> HIDE DEF c, L
    <3> QED
      BY <3>6, <3>7, <3>9 DEF ToRead, L, c
  <2>10. CASE Nulled(v, n, c)
    <3>1. hasNull[v]
      BY <2>7, <2>10 DEF Nulled
    <3> QED
      BY <2>10, <3>1 DEF ToRead, Nulled
  <2> QED
    BY <2>6, <2>8, <2>9, <2>10
<1> QED
  BY <1>4, <1>5

\* Whatever begins at an offset is read as it is to be.
LEMMA ReadsPart ==
    ASSUME NEW s, s \in Seq(Symbols), NEW C, Table(s, C)
    PROVE  \A v \in Parts : \A o \in 0..(Len(s) + 1) : At(s, o, v) => ToRead(s, o, v, C[o])
<1> DEFINE T == {v \in Parts : \A o \in 0..(Len(s) + 1) : At(s, o, v) => ToRead(s, o, v, C[o])}
<1>0. Len(s) \in Nat
  BY LenProperties
<1>1. ASSUME NEW v \in Parts, \A w \in Parts : Height[w] < Height[v] => w \in T
      PROVE  v \in T
  <2> SUFFICES ASSUME NEW o \in 0..(Len(s) + 1), At(s, o, v) PROVE ToRead(s, o, v, C[o])
    OBVIOUS
  <2>1. C[o] = checkPart(s, C, o)
    BY <1>0 DEF Table
  <2>2. ReadsBelow(s, C, v)
    BY <1>1 DEF ReadsBelow
  <2> HIDE DEF T
  <2>3. CASE o >= Len(s)
    BY <1>0, <2>1, <2>3, Nothing
  <2>4. CASE ~(o >= Len(s))
    <3>1. o \in 0..(Len(s) - 1)
      BY <1>0, <2>4
    <3>2. CASE v.type \in {"+", "-"}
      BY <1>0, <2>1, <3>1, <3>2, ReadsLine
    <3>3. CASE v.type = ":"
      BY <1>0, <2>1, <3>1, <3>3, ReadsInt
    <3>4. CASE v.type = "$" /\ v.str = Null
      BY <1>0, <2>1, <3>1, <3>4, ReadsNull
    <3>5. CASE v.type = "$" /\ v.str # Null
      BY <1>0, <2>1, <3>1, <3>5, ReadsString
    <3>6. CASE v.type = "*"
      BY <1>0, <2>1, <2>2, <3>1, <3>6, ReadsArray
    <3> QED
      BY <3>2, <3>3, <3>4, <3>5, <3>6, Shapes
  <2> QED
    BY <2>3, <2>4
<1> HIDE DEF T
<1>2. \A v \in Parts : v \in T
  BY <1>1, HeightInduction
<1> QED
  BY <1>2 DEF T

-----------------------------------------------------------------------------
(* The text as it arrives.                                                    *)

\* The inductive invariant: what has arrived is the beginning of what was sent, or
\* all of it, and the outcome is what checkData gives of it.
sentText == parseRESPString[value] \o parseRESPString[behind]

Arrival ==
    /\ value \in Values /\ behind \in Followers
    /\ text \in Seq(Symbols) /\ Len(text) <= Len(sentText)
    /\ \A k \in 1..Len(text) : text[k] = sentText[k]
    /\ outcome = checkData(text, 0)

\* The sent text begins with the value's.
LEMMA SentText ==
    ASSUME value \in Values, behind \in Followers
    PROVE  /\ value \in Parts
           /\ Appends(Symbols, parseRESPString[value], parseRESPString[behind])
           /\ sentText \in Seq(Symbols)
<1>1. value \in Parts /\ behind \in Parts
  BY RESPAssumption
<1>2. parseRESPString[value] \in Seq(Symbols) /\ parseRESPString[behind] \in Seq(Symbols)
  BY <1>1, Encoding
<1>3. Appends(Symbols, parseRESPString[value], parseRESPString[behind])
  BY <1>2, Appended
<1> QED
  BY <1>1, <1>3 DEF Appends, sentText

LEMMA ArrivalInit == Init => Arrival
<1> SUFFICES ASSUME Init PROVE Arrival
  OBVIOUS
<1>1. value \in Values /\ behind \in Followers /\ text = <<>> /\ outcome = checkData(<<>>, 0)
  BY DEF Init
<1>2. text \in Seq(Symbols) /\ Len(text) = 0
  BY <1>1, EmptySeq
<1>3. Len(sentText) \in Nat
  BY <1>1, SentText, LenProperties
<1> QED
  BY <1>1, <1>2, <1>3 DEF Arrival

LEMMA ArrivalNext == Arrival /\ [Next]_vars => Arrival'
<1> SUFFICES ASSUME Arrival, [Next]_vars PROVE Arrival'
  OBVIOUS
<1>1. ASSUME NEW n \in 1..MaxSegment, Receive(n) PROVE Arrival'
  <2> DEFINE m == Len(text) + n
  <2>1. /\ m <= Len(sentText) /\ text' = SubSeq(sentText, 1, m) /\ outcome' = checkData(text', 0)
        /\ value' = value /\ behind' = behind
    BY <1>1 DEF Receive, sentText
  <2>2. sentText \in Seq(Symbols) /\ Len(sentText) \in Nat /\ sentText' = sentText
    BY <2>1, SentText, LenProperties DEF Arrival, sentText
  <2>3. m \in Nat
    <3>1. Len(text) \in Nat /\ n \in Nat
      BY LenProperties DEF Arrival
    <3> QED
      BY <3>1
  <2> HIDE DEF m
  <2>4. /\ text' \in Seq(Symbols) /\ Len(text') = m
        /\ \A k \in 1..m : text'[k] = sentText[k]
    <3>1. \A k \in 1..m : sentText[k] \in Symbols
      <4>1. \A k \in 1..m : k \in 1..Len(sentText)
        BY <2>1, <2>2, <2>3
      <4> QED
        BY <2>2, <4>1, ElementOfSeq
    <3> DEFINE u == SubSeq(sentText, 1, m)
    <3>2. /\ u \in Seq(Symbols) /\ Len(u) = IF 1 <= m THEN m - 1 + 1 ELSE 0
          /\ \A k \in 1..(m - 1 + 1) : u[k] = sentText[1 + k - 1]
      <4>1. m \in Int /\ 1 \in Int
        BY <2>3
      <4> QED
        BY <3>1, <4>1, SubSeqProperties
    <3> HIDE DEF u
    <3>3. m - 1 + 1 = m /\ (IF 1 <= m THEN m - 1 + 1 ELSE 0) = m /\ \A k \in 1..m : 1 + k - 1 = k
      BY <2>3
    <3>4. u \in Seq(Symbols) /\ Len(u) = m /\ \A k \in 1..m : u[k] = sentText[k]
      BY <3>2, <3>3
    <3> QED
      BY <2>1, <3>4 DEF u
  <2> QED
    BY <2>1, <2>2, <2>4 DEF Arrival
<1>2. CASE UNCHANGED vars
  BY <1>2 DEF vars, Arrival, sentText
<1> QED
  BY <1>1, <1>2 DEF Next

LEMMA ArrivalAlways == Spec => []Arrival
  BY ArrivalInit, ArrivalNext, PTL DEF Spec

\* So the outcome is what is to be read at the text's beginning.
LEMMA OutcomeIs ==
    ASSUME Arrival
    PROVE  ToRead(text, 0, value, outcome) /\ value \in Parts /\ Len(text) \in Nat
<1>1. /\ value \in Parts /\ Appends(Symbols, parseRESPString[value], parseRESPString[behind])
      /\ text \in Seq(Symbols) /\ Len(text) \in Nat
  BY SentText, LenProperties DEF Arrival
<1>2. PICK C : \A o \in Int : C[o] = checkPart(text, C, o) /\ checkData(text, o) = C[o]
  BY <1>1, Calls
<1>3. Table(text, C) /\ outcome = C[0]
  BY <1>2 DEF Table, Arrival
<1>4. At(text, 0, value)
  <2> SUFFICES ASSUME NEW k \in 1..Len(parseRESPString[value]), 0 + k <= Len(text)
               PROVE  text[0 + k] = parseRESPString[value][k]
    BY DEF At
  <2>1. Len(parseRESPString[value]) \in Nat
    BY <1>1 DEF Appends
  <2>2. 0 + k = k /\ k \in 1..Len(text)
    BY <1>1, <2>1
  <2>3. text[k] = sentText[k]
    BY <2>2 DEF Arrival
  <2>4. sentText[k] = parseRESPString[value][k]
    BY <1>1 DEF Appends, sentText
  <2> QED
    BY <2>2, <2>3, <2>4
<1>5. 0 \in 0..(Len(text) + 1)
  BY <1>1
<1>6. ToRead(text, 0, value, C[0])
  BY <1>1, <1>3, <1>4, <1>5, ReadsPart
<1> QED
  BY <1>1, <1>3, <1>6

\* checkData never goes wrong on what parseRESPString wrote: no length or number is
\* no number, the next part is never sought more than one byte past the end of the
\* text, and only a null string leaves it unset.
THEOREM TypeCorrect == Spec => []TypeOK
<1>1. Arrival => TypeOK
  <2> SUFFICES ASSUME Arrival PROVE TypeOK
    OBVIOUS
  <2> DEFINE L == Len(parseRESPString[value])
  <2>1. ToRead(text, 0, value, outcome) /\ value \in Parts /\ Len(text) \in Nat
    BY OutcomeIs
  <2>2. L \in Nat
    BY <2>1, Rooms DEF Room
  <2>3. CASE hasNull[value]
    <3>1. \/ outcome = Failed(-1) \/ outcome = Failed(1) \/ outcome = Failed(Undefined)
          \/ outcome.status = 0 /\ outcome.next = Unset
      BY <2>1, <2>3 DEF ToRead
    <3>2. outcome.status \in {-1, 0, 1, Undefined} /\ (outcome.next = 0 \/ outcome.next = Unset)
      BY <3>1 DEF Failed
    <3>3. 0 \in 0..(Len(text) + 1)
      BY <2>1
    <3> QED
      BY <2>3, <3>2, <3>3 DEF TypeOK, Arrival
  <2>4. CASE ~hasNull[value]
    <3>1. /\ 0 + L <= Len(text) + 1 => outcome = Part(value, 0 + L)
          /\ 0 + L > Len(text) + 1 => outcome = Failed(Early(Len(text) - 0, value))
      BY <2>1, <2>4 DEF ToRead
    <3> HIDE DEF L
    <3>2. CASE L <= Len(text) + 1
      <4>1. outcome = Part(value, 0 + L) /\ 0 + L \in 0..(Len(text) + 1)
        BY <2>1, <2>2, <3>1, <3>2
      <4>2. outcome.status = 0 /\ outcome.next \in 0..(Len(text) + 1)
        BY <4>1 DEF Part
      <4> QED
        BY <4>2 DEF TypeOK, Arrival
    <3>3. CASE ~(L <= Len(text) + 1)
      <4>1. outcome = Failed(Early(Len(text) - 0, value)) /\ 0 \in 0..(Len(text) + 1)
        BY <2>1, <2>2, <3>1, <3>3
      <4>2. outcome.status \in {-1, 0, 1, Undefined} /\ outcome.next = 0
        BY <4>1 DEF Failed, Early
      <4> QED
        BY <4>1, <4>2 DEF TypeOK, Arrival
    <3> QED
      BY <3>2, <3>3
  <2> QED
    BY <2>3, <2>4
<1> QED
  BY <1>1, ArrivalAlways, PTL

\* checkData reads back what parseRESPString wrote: a value without null strings
\* that has arrived, however deeply nested, whatever bytes its strings hold and
\* whatever is behind it, with the next part where it ends.
THEOREM ReadsBack == Spec => []RoundTrip
<1>1. Arrival => RoundTrip
  <2> SUFFICES ASSUME Arrival, Len(text) >= whole, ~hasNull[value]
               PROVE  outcome = Part(value, whole)
    BY DEF RoundTrip
  <2>1. ToRead(text, 0, value, outcome) /\ value \in Parts /\ Len(text) \in Nat
    BY OutcomeIs
  <2>2. whole \in Nat
    BY <2>1, Rooms DEF Room, whole
  <2>3. 0 + whole <= Len(text) + 1 => outcome = Part(value, 0 + whole)
    BY <2>1 DEF ToRead, whole
  <2>4. 0 + whole = whole /\ whole <= Len(text) + 1
    BY <2>1, <2>2
  <2> QED
    BY <2>3, <2>4
<1> QED
  BY <1>1, ArrivalAlways, PTL

\* What checkData makes of the beginning of a value without null strings: it gives a
\* value only where nothing but the last LF is missing, and that value; and a text
\* that breaks off inside a part is not complete.
THEOREM JudgesBeginnings == Spec => []PrefixVerdict
<1>1. Arrival => PrefixVerdict
  <2> DEFINE k == Len(text)
  <2> SUFFICES ASSUME Arrival, k < whole, ~hasNull[value]
               PROVE  /\ outcome.status = 0 => k + 1 = whole /\ outcome = Part(value, whole)
                      /\ \/ outcome.status = 1
                         \/ k + 1 = whole
                         \/ k \in starts[value] \/ k + 1 \in starts[value]
    BY DEF PrefixVerdict
  <2>1. ToRead(text, 0, value, outcome) /\ value \in Parts /\ k \in Nat
    BY OutcomeIs
  <2>2. whole \in Nat
    BY <2>1, Rooms DEF Room, whole
  <2>3. /\ 0 + whole <= k + 1 => outcome = Part(value, 0 + whole)
        /\ 0 + whole > k + 1 => outcome = Failed(Early(k - 0, value))
    BY <2>1 DEF ToRead, whole
  <2> HIDE DEF k
  <2>4. CASE k + 1 = whole
    BY <2>1, <2>2, <2>3, <2>4 DEF Part
  <2>5. CASE k + 1 # whole
    <3>1. 0 + whole > k + 1 /\ k - 0 = k
      BY <2>1, <2>2, <2>5
    <3>2. outcome.status = Early(k, value)
      BY <2>3, <3>1 DEF Failed
    <3> QED
      BY <3>2 DEF Early, Undefined
  <2> QED
    BY <2>4, <2>5
<1> QED
  BY <1>1, ArrivalAlways, PTL

-----------------------------------------------------------------------------
(* The same of any text, at any offset.                                       *)

\* At whatever offset of a text checkData begins, it reads the value that begins
\* there as it is to be read: what follows an element in an array, or a request on
\* its connection, changes nothing.
THEOREM ReadsAnywhere ==
    ASSUME NEW s \in Seq(Symbols), NEW v \in Parts, NEW o \in 0..(Len(s) + 1), At(s, o, v)
    PROVE  ToRead(s, o, v, checkData(s, o))
<1>1. Len(s) \in Nat
  BY LenProperties
<1>2. PICK C : \A p \in Int : C[p] = checkPart(s, C, p) /\ checkData(s, p) = C[p]
  BY <1>1, Calls
<1>3. Table(s, C)
  BY <1>2 DEF Table
<1>4. ToRead(s, o, v, C[o])
  BY <1>3, ReadsPart
<1>5. o \in Int
  BY <1>1
<1> QED
  BY <1>2, <1>4, <1>5

\* Different values without null strings are written differently, and none as the
\* beginning of another: parseRESPString needs no mark between them.
THEOREM WrittenApart ==
    ASSUME NEW v \in Parts, NEW w \in Parts, ~hasNull[v], ~hasNull[w],
           Len(parseRESPString[v]) <= Len(parseRESPString[w]),
           \A k \in 1..Len(parseRESPString[v]) : parseRESPString[w][k] = parseRESPString[v][k]
    PROVE  v = w
<1> DEFINE s == parseRESPString[w]
           m == Len(parseRESPString[v])
<1>1. s \in Seq(Symbols) /\ Len(s) \in Nat /\ m \in Nat /\ m <= Len(s)
  BY Encoding, LenProperties
<1>2. At(s, 0, v) /\ At(s, 0, w)
  <2>1. \A k \in 1..m : 0 + k = k
    OBVIOUS
  <2>2. \A k \in 1..Len(s) : 0 + k = k
    BY <1>1
  <2> QED
    BY <2>1, <2>2 DEF At
<1>3. 0 \in 0..(Len(s) + 1)
  BY <1>1
<1>4. ToRead(s, 0, v, checkData(s, 0)) /\ ToRead(s, 0, w, checkData(s, 0))
  <2> HIDE DEF s
  <2> QED
    BY <1>1, <1>2, <1>3, ReadsAnywhere
<1>5. 0 + m <= Len(s) + 1 /\ 0 + Len(s) <= Len(s) + 1
  <2> HIDE DEF m, s
  <2> QED
    BY <1>1
<1>6. checkData(s, 0) = Part(v, 0 + m) /\ checkData(s, 0) = Part(w, 0 + Len(s))
  BY <1>4, <1>5 DEF ToRead
<1>7. Part(v, 0 + m).data = v /\ Part(w, 0 + Len(s)).data = w
  BY DEF Part
<1> QED
  BY <1>6, <1>7
=============================================================================
