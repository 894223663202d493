--------------------------- MODULE FlattenTheorems ---------------------------
(***************************************************************************)
(* What FlattenSeq of the community module SequencesExt computes: the laws *)
(* by which the proofs about MatLogger follow samples through a queue of   *)
(* blocks, cut it in two (Cat), and say that it is sorted (Sorted) and     *)
(* what its latest elements are (Latest).  They hold for any elements.     *)
(*                                                                         *)
(* FlattenSeq is a recursive function.  Induction over it is replaced by   *)
(* least counterexamples: a set of naturals that is not empty has a least  *)
(* element, which follows from the well-foundedness of inclusion between   *)
(* finite sets (Least; the proofs about values in MatioBackendProofs and   *)
(* about objects in MatDataProofs rest on it too, and on Positions).       *)
(***************************************************************************)
EXTENDS Integers, SequencesExt, SequenceTheorems, FiniteSetTheorems, TLAPS

\* A non-empty set of naturals has a least element.
LEMMA Least ==
    ASSUME NEW T, T \subseteq Nat, T # {}
    PROVE  \E m \in T : \A k \in T : m <= k
<1> DEFINE below == {0 .. k - 1 : k \in T}
<1>1. below \subseteq FiniteSubsetsOf(Nat) /\ below # {}
  <2>1. ASSUME NEW k \in T PROVE 0 .. k - 1 \in FiniteSubsetsOf(Nat)
    <3>1. k \in Nat /\ 0 .. k - 1 \subseteq Nat
      OBVIOUS
    <3> QED BY <3>1, FS_Interval DEF FiniteSubsetsOf
  <2> QED BY <2>1
<1>2. PICK x \in below : \A y \in below : <<y, x>> \notin StrictSubsetOrdering(Nat)
  <2> HIDE DEF below
  <2> QED BY <1>1, FS_StrictSubsetOrderingWellFounded, WFMin
<1>3. PICK m \in T : x = 0 .. m - 1
  BY <1>2
<1>4. ASSUME NEW k \in T, ~ (m <= k) PROVE FALSE
  <2>1. k < m /\ k \in Nat /\ m \in Nat
    BY <1>4
  <2>2. 0 .. k - 1 \subseteq 0 .. m - 1 /\ k \in 0 .. m - 1 /\ k \notin 0 .. k - 1
    BY <2>1
  <2>3. <<0 .. k - 1, 0 .. m - 1>> \in StrictSubsetOrdering(Nat)
    BY <2>1, <2>2 DEF StrictSubsetOrdering
  <2>4. 0 .. k - 1 \in below
    OBVIOUS
  <2> QED BY <1>2, <1>3, <2>3, <2>4
<1> QED BY <1>3, <1>4

\* How many elements of a finite set of integers come before x.
Position(S, x) == Cardinality({y \in S : y < x})

\* The elements of a set have the positions 0, 1, ..., one each.
LEMMA Positions ==
    ASSUME NEW S, S \subseteq Int, IsFiniteSet(S)
    PROVE  /\ Cardinality(S) \in Nat
           /\ \A x \in S : Position(S, x) \in 0 .. Cardinality(S) - 1
           /\ \A x, y \in S : x < y => Position(S, x) < Position(S, y)
           /\ \A x, y \in S : Position(S, x) = Position(S, y) => x = y
           /\ \A i \in 0 .. Cardinality(S) - 1 : \E x \in S : Position(S, x) = i
<1> DEFINE k == Cardinality(S)
           place == [x \in S |-> Position(S, x) + 1]
<1>1. k \in Nat
  BY FS_CardinalityType
<1>2. ASSUME NEW x \in S PROVE Position(S, x) \in 0 .. k - 1
  <2> DEFINE before == {y \in S : y < x}
  <2>1. before \in SUBSET S /\ before # S
    <3>1. x \notin before
      OBVIOUS
    <3> QED BY <3>1
  <2> HIDE DEF before
  <2>2. /\ IsFiniteSet(before) /\ Cardinality(before) <= k
        /\ k = Cardinality(before) => S = before
    BY <2>1, FS_Subset
  <2>3. Cardinality(before) \in Nat
    BY <2>2, FS_CardinalityType
  <2>4. Cardinality(before) \in 0 .. k - 1
    BY <1>1, <2>1, <2>2, <2>3
  <2> QED BY <2>4 DEF Position, before
<1>3. ASSUME NEW x \in S, NEW y \in S, x < y PROVE Position(S, x) < Position(S, y)
  <2> DEFINE first == {z \in S : z < x}
             more == {z \in S : z < y}
  <2>1. first \in SUBSET more /\ first # more /\ more \in SUBSET S
    <3>1. x \in more /\ x \notin first
      BY <1>3
    <3>2. ASSUME NEW z \in first PROVE z \in more
      BY <1>3
    <3> QED BY <3>1, <3>2
  <2> HIDE DEF first, more
  <2>2. IsFiniteSet(more)
    BY <2>1, FS_Subset
  <2>3. /\ IsFiniteSet(first) /\ Cardinality(first) <= Cardinality(more)
        /\ Cardinality(first) # Cardinality(more)
    BY <2>1, <2>2, FS_Subset
  <2>4. Cardinality(first) \in Nat /\ Cardinality(more) \in Nat
    BY <2>2, <2>3, FS_CardinalityType
  <2>5. Cardinality(first) < Cardinality(more)
    BY <2>3, <2>4
  <2> QED BY <2>5 DEF Position, first, more
<1>4. ASSUME NEW x \in S, NEW y \in S, Position(S, x) = Position(S, y) PROVE x = y
  <2>1. x \in Int /\ y \in Int /\ Position(S, x) \in Int
    BY <1>2
  <2>2. ~ (x < y) /\ ~ (y < x)
    BY <1>3, <1>4, <2>1
  <2> QED BY <2>1, <2>2
<1>5. \A i \in 1 .. k : \E x \in S : Position(S, x) = i - 1
  <2>1. /\ place \in [S -> 1 .. k]
        /\ \A x, y \in S : place[x] = place[y] => x = y
    <3>1. ASSUME NEW x \in S PROVE place[x] = Position(S, x) + 1 /\ place[x] \in 1 .. k
      BY <1>1, <1>2
    <3>2. ASSUME NEW x \in S, NEW y \in S, place[x] = place[y] PROVE x = y
      BY <1>2, <1>4, <3>1, <3>2
    <3> QED BY <3>1, <3>2
  <2>2. IsFiniteSet(1 .. k) /\ Cardinality(1 .. k) = k
    <3> HIDE DEF k
    <3> QED BY <1>1, FS_Interval
  <2> HIDE DEF place
  <2>3. place \in Injection(S, 1 .. k)
    <3> HIDE DEF k
    <3> QED BY <2>1 DEF Injection, IsInjective
  <2>4. place \in Surjection(S, 1 .. k)
    BY <2>2, <2>3, FS_Injection
  <2>5. \A i \in 1 .. k : \E x \in S : place[x] = i
    <3> HIDE DEF k
    <3> QED BY <2>4 DEF Surjection
  <2>6. ASSUME NEW i \in 1 .. k PROVE \E x \in S : Position(S, x) = i - 1
    <3>1. PICK x \in S : place[x] = i
      BY <2>5
    <3>2. Position(S, x) + 1 = i /\ Position(S, x) \in Int
      BY <1>2, <3>1 DEF place
    <3>3. Position(S, x) = i - 1
      BY <3>2
    <3> QED BY <3>3
  <2> QED BY <2>6
<1>6. ASSUME NEW i \in 0 .. k - 1 PROVE \E x \in S : Position(S, x) = i
  <2>1. i + 1 \in 1 .. k /\ (i + 1) - 1 = i
    BY <1>1
  <2> QED BY <1>5, <2>1
<1> HIDE DEF k
<1>7. /\ \A x \in S : Position(S, x) \in 0 .. k - 1
      /\ \A x, y \in S : x < y => Position(S, x) < Position(S, y)
      /\ \A x, y \in S : Position(S, x) = Position(S, y) => x = y
      /\ \A i \in 0 .. k - 1 : \E x \in S : Position(S, x) = i
  BY <1>2, <1>3, <1>4, <1>6
<1> QED BY <1>1, <1>7 DEF k

\* What the LET of FlattenSeq defines.
Joined(ss, f, n) == f = [i \in 1 .. n |-> IF i = 1 THEN ss[i] ELSE f[i - 1] \o ss[i]]

\* There is one such function at most, and it has the expected type.
LEMMA JoinedUnique ==
    ASSUME NEW S, NEW ss, NEW n \in Nat, \A i \in 1 .. n : ss[i] \in Seq(S),
           NEW f, NEW g, Joined(ss, f, n), Joined(ss, g, n)
    PROVE  \A i \in 1 .. n : f[i] = g[i] /\ f[i] \in Seq(S)
<1> DEFINE T == {i \in 1 .. n : ~ (f[i] = g[i] /\ f[i] \in Seq(S))}
<1>1. SUFFICES ASSUME T # {} PROVE FALSE
  OBVIOUS
<1>2. T \subseteq Nat
  OBVIOUS
<1>3. PICK m \in T : \A k \in T : m <= k
  <2> HIDE DEF T
  <2> QED BY <1>1, <1>2, Least
<1>4. /\ f[m] = IF m = 1 THEN ss[m] ELSE f[m - 1] \o ss[m]
      /\ g[m] = IF m = 1 THEN ss[m] ELSE g[m - 1] \o ss[m]
  BY DEF Joined
<1>5. CASE m = 1
  BY <1>4, <1>5
<1>6. CASE m # 1
  <2>1. m - 1 \in 1 .. n /\ m - 1 \notin T
    BY <1>3, <1>6
  <2>2. f[m - 1] = g[m - 1] /\ f[m - 1] \in Seq(S) /\ ss[m] \in Seq(S)
    BY <2>1
  <2>3. f[m - 1] \o ss[m] \in Seq(S)
    BY <2>2, ConcatProperties
  <2>4. f[m] = f[m - 1] \o ss[m] /\ g[m] = f[m - 1] \o ss[m]
    BY <1>4, <1>6, <2>2
  <2> QED BY <2>3, <2>4
<1> QED BY <1>5, <1>6

\* There is such a function.
LEMMA JoinedExists ==
    ASSUME NEW S, NEW ss, NEW n \in Nat, \A i \in 1 .. n : ss[i] \in Seq(S)
    PROVE  \E f : Joined(ss, f, n)
<1> DEFINE T == {k \in 0 .. n : ~ \E f : Joined(ss, f, k)}
<1>1. SUFFICES ASSUME T # {} PROVE FALSE
  OBVIOUS
<1>2. T \subseteq Nat
  OBVIOUS
<1>3. PICK m \in T : \A k \in T : m <= k
  <2> HIDE DEF T
  <2> QED BY <1>1, <1>2, Least
<1>4. CASE m = 0
  <2> DEFINE f == [i \in 1 .. 0 |-> ss[i]]
  <2>1. Joined(ss, f, 0)
    BY DEF Joined
  <2> QED BY <1>4, <2>1
<1>5. CASE m # 0
  <2>1. m - 1 \in 0 .. n /\ m - 1 \notin T /\ m \in Nat
    BY <1>3, <1>5
  <2>2. PICK g : Joined(ss, g, m - 1)
    BY <2>1
  <2> DEFINE f == [i \in 1 .. m |-> IF i = m THEN IF i = 1 THEN ss[i] ELSE g[i - 1] \o ss[i]
                                    ELSE g[i]]
  <2>3. \A i \in 1 .. m - 1 : f[i] = g[i]
    BY <2>1
  <2>4. \A i \in 1 .. m - 1 : g[i] = IF i = 1 THEN ss[i] ELSE g[i - 1] \o ss[i]
    BY <2>2 DEF Joined
  <2>5. ASSUME NEW i \in 1 .. m
        PROVE  f[i] = IF i = 1 THEN ss[i] ELSE f[i - 1] \o ss[i]
    <3>1. CASE i = m
      <4>1. i = 1 \/ f[i - 1] = g[i - 1]
        BY <2>1, <2>3
      <4> QED BY <2>1, <3>1, <4>1
    <3>2. CASE i # m
      <4>1. i \in 1 .. m - 1 /\ (i = 1 \/ i - 1 \in 1 .. m - 1)
        BY <2>1, <3>2
      <4> QED BY <2>3, <2>4, <4>1
    <3> QED BY <3>1, <3>2
  <2>6. Joined(ss, f, m)
    <3>1. f = [i \in 1 .. m |-> f[i]]
      OBVIOUS
    <3> HIDE DEF f
    <3> QED BY <2>5, <3>1 DEF Joined
  <2> QED BY <2>6
<1> QED BY <1>4, <1>5

\* FlattenSeq is that function at the last index.
LEMMA Flattened ==
    ASSUME NEW S, NEW ss \in Seq(Seq(S)), ss # << >>
    PROVE  \E f : Joined(ss, f, Len(ss)) /\ FlattenSeq(ss) = f[Len(ss)]
<1>1. Len(ss) \in Nat /\ Len(ss) # 0 /\ \A i \in 1 .. Len(ss) : ss[i] \in Seq(S)
  BY EmptySeq
<1> DEFINE n == Len(ss)
<1>2. n \in Nat /\ \A i \in 1 .. n : ss[i] \in Seq(S)
  BY <1>1
<1> HIDE DEF n
<1>3. \E f : Joined(ss, f, n)
  BY <1>2, JoinedExists
<1> USE DEF n
<1>4. \E f : f = [i \in 1 .. Len(ss) |-> IF i = 1 THEN ss[i] ELSE f[i - 1] \o ss[i]]
  BY <1>3 DEF Joined
<1> QED BY <1>1, <1>4 DEF FlattenSeq, Joined

-----------------------------------------------------------------------------
\* The result is a sequence over the same set.
LEMMA FlattenType ==
    ASSUME NEW S, NEW ss \in Seq(Seq(S))
    PROVE  FlattenSeq(ss) \in Seq(S)
<1>1. CASE ss = << >>
  BY <1>1 DEF FlattenSeq
<1>2. CASE ss # << >>
  <2> DEFINE n == Len(ss)
  <2>1. n \in 1 .. n /\ n \in Nat /\ \A i \in 1 .. n : ss[i] \in Seq(S)
    BY <1>2, EmptySeq
  <2>2. PICK f : Joined(ss, f, n) /\ FlattenSeq(ss) = f[n]
    BY <1>2, Flattened
  <2> HIDE DEF n
  <2>3. f[n] \in Seq(S)
    BY <2>1, <2>2, JoinedUnique
  <2> QED BY <2>2, <2>3
<1> QED BY <1>1, <1>2

\* A block put at the end of the queue comes at the end.
LEMMA FlattenAppend ==
    ASSUME NEW S, NEW ss \in Seq(Seq(S)), NEW s \in Seq(S)
    PROVE  FlattenSeq(Append(ss, s)) = FlattenSeq(ss) \o s
<1> DEFINE n == Len(ss)
           tt == Append(ss, s)
<1>1. /\ n \in Nat /\ tt \in Seq(Seq(S)) /\ tt # << >> /\ Len(tt) = n + 1 /\ tt[n + 1] = s
      /\ \A i \in 1 .. n : tt[i] = ss[i] /\ ss[i] \in Seq(S)
  BY AppendProperties
<1> HIDE DEF n, tt
<1>2. PICK f : Joined(tt, f, n + 1) /\ FlattenSeq(tt) = f[n + 1]
  BY <1>1, Flattened
<1>3. \A i \in 1 .. n + 1 : f[i] = IF i = 1 THEN tt[i] ELSE f[i - 1] \o tt[i]
  BY <1>2 DEF Joined
<1>4. CASE n = 0
  <2>1. f[n + 1] = s
    BY <1>1, <1>3, <1>4
  <2>2. ss = << >>
    BY <1>4, EmptySeq DEF n
  <2>3. FlattenSeq(ss) = << >>
    BY <2>2 DEF FlattenSeq
  <2> QED BY <1>2, <2>1, <2>3, ConcatEmptySeq DEF tt
<1>5. CASE n # 0
  <2>1. ss # << >>
    BY <1>5 DEF n
  <2>2. PICK g : Joined(ss, g, n) /\ FlattenSeq(ss) = g[n]
    BY <2>1, Flattened DEF n
  <2> DEFINE h == [i \in 1 .. n |-> f[i]]
  <2>3. Joined(ss, h, n)
    <3>1. ASSUME NEW i \in 1 .. n
          PROVE  h[i] = IF i = 1 THEN ss[i] ELSE h[i - 1] \o ss[i]
      <4>1. i \in 1 .. n + 1 /\ (i = 1 \/ i - 1 \in 1 .. n) /\ tt[i] = ss[i]
        BY <1>1
      <4> QED BY <1>3, <4>1
    <3>2. h = [i \in 1 .. n |-> h[i]]
      OBVIOUS
    <3> HIDE DEF h
    <3> QED BY <3>1, <3>2 DEF Joined
  <2>4. n \in 1 .. n /\ n + 1 \in 1 .. n + 1 /\ n + 1 # 1 /\ (n + 1) - 1 = n
    BY <1>1, <1>5
  <2>5. h[n] = g[n]
    <3> HIDE DEF h
    <3> QED BY <1>1, <2>2, <2>3, <2>4, JoinedUnique
  <2>6. f[n] = g[n]
    BY <2>4, <2>5
  <2>7. f[n + 1] = f[n] \o s
    BY <1>1, <1>3, <2>4
  <2> QED BY <1>2, <2>2, <2>6, <2>7 DEF tt
<1> QED BY <1>4, <1>5

\* Concatenation as an operator without a definition that the provers see.
Cat(a, b) == a \o b

LEMMA CatAssociative ==
    ASSUME NEW S, NEW a \in Seq(S), NEW b \in Seq(S), NEW c \in Seq(S)
    PROVE  Cat(Cat(a, b), c) = Cat(a, Cat(b, c))
BY ConcatAssociative DEF Cat

\* Where the elements of a concatenation are.
\* t has the elements of a, then those of b.
Splits(t, a, b) ==
    /\ Len(t) = Len(a) + Len(b)
    /\ \A i \in 1 .. Len(a) : t[i] = a[i]
    /\ \A i \in 1 .. Len(b) : t[Len(a) + i] = b[i]

LEMMA CatSplits ==
    ASSUME NEW S, NEW a \in Seq(S), NEW b \in Seq(S)
    PROVE  Cat(a, b) \in Seq(S) /\ Splits(Cat(a, b), a, b)
<1>1. /\ a \o b \in Seq(S) /\ Len(a \o b) = Len(a) + Len(b)
      /\ \A i \in 1 .. Len(a) + Len(b) :
            (a \o b)[i] = IF i <= Len(a) THEN a[i] ELSE b[i - Len(a)]
  BY ConcatProperties
<1>2. Len(a) \in Nat /\ Len(b) \in Nat
  OBVIOUS
<1>3. \A i \in 1 .. Len(a) : Cat(a, b)[i] = a[i]
  BY <1>1, <1>2 DEF Cat
<1>4. ASSUME NEW i \in 1 .. Len(b) PROVE Cat(a, b)[Len(a) + i] = b[i]
  <2>1. /\ Len(a) + i \in 1 .. Len(a) + Len(b) /\ ~ (Len(a) + i <= Len(a))
        /\ (Len(a) + i) - Len(a) = i
    BY <1>2
  <2> QED BY <1>1, <2>1 DEF Cat
<1>5. Cat(a, b) \in Seq(S) /\ Len(Cat(a, b)) = Len(a) + Len(b)
  BY <1>1 DEF Cat
<1> QED BY <1>3, <1>4, <1>5 DEF Splits

LEMMA CatElements ==
    ASSUME NEW S, NEW a \in Seq(S), NEW b \in Seq(S)
    PROVE  /\ Cat(a, b) \in Seq(S) /\ Len(Cat(a, b)) = Len(a) + Len(b)
           /\ \A i \in 1 .. Len(a) : Cat(a, b)[i] = a[i]
           /\ \A i \in 1 .. Len(b) : Cat(a, b)[Len(a) + i] = b[i]
<1>1. Cat(a, b) \in Seq(S) /\ Splits(Cat(a, b), a, b)
  BY CatSplits
<1> QED BY <1>1 DEF Splits

LEMMA CatEmpty ==
    ASSUME NEW S, NEW a \in Seq(S)
    PROVE  Cat(<< >>, a) = a /\ Cat(a, << >>) = a
BY ConcatEmptySeq DEF Cat

LEMMA CatAppend ==
    ASSUME NEW S, NEW a \in Seq(S), NEW b \in Seq(S), NEW x \in S
    PROVE  Cat(a, Append(b, x)) = Append(Cat(a, b), x)
<1>1. /\ <<x>> \in Seq(S) /\ a \o b \in Seq(S) /\ Append(b, x) = b \o <<x>>
      /\ Append(a \o b, x) = (a \o b) \o <<x>>
  <2>1. <<x>> \in Seq(S)
    OBVIOUS
  <2>2. a \o b \in Seq(S)
    BY ConcatProperties
  <2> QED BY <2>1, <2>2, AppendIsConcat
<1>2. (a \o b) \o <<x>> = a \o (b \o <<x>>)
  BY <1>1, ConcatAssociative
<1> QED BY <1>1, <1>2 DEF Cat

\* A block taken from the head of the queue came first.
LEMMA FlattenHead ==
    ASSUME NEW S, NEW ss \in Seq(Seq(S)), ss # << >>
    PROVE  FlattenSeq(ss) = Head(ss) \o FlattenSeq(Tail(ss))
<1> DEFINE n == Len(ss)
           tt == Tail(ss)
<1>1. /\ n \in Nat \ {0} /\ tt \in Seq(Seq(S)) /\ Len(tt) = n - 1 /\ Head(ss) = ss[1]
      /\ \A i \in 1 .. n : ss[i] \in Seq(S)
      /\ \A i \in 1 .. n - 1 : tt[i] = ss[i + 1]
  BY EmptySeq
<1> HIDE DEF n, tt
<1>2. PICK f : Joined(ss, f, n) /\ FlattenSeq(ss) = f[n]
  BY Flattened DEF n
<1>3. \A i \in 1 .. n : f[i] = IF i = 1 THEN ss[i] ELSE f[i - 1] \o ss[i]
  BY <1>2 DEF Joined
<1>4. CASE n = 1
  <2>1. tt = << >>
    BY <1>1, <1>4, EmptySeq
  <2>2. FlattenSeq(tt) = << >>
    BY <2>1 DEF FlattenSeq
  <2>3. f[n] = ss[1] /\ ss[1] \in Seq(S)
    BY <1>1, <1>3, <1>4
  <2> QED BY <1>1, <1>2, <2>2, <2>3, ConcatEmptySeq DEF tt
<1>5. CASE n # 1
  <2>1. tt # << >> /\ n - 1 \in Nat
    BY <1>1, <1>5
  <2>2. PICK g : Joined(tt, g, n - 1) /\ FlattenSeq(tt) = g[n - 1]
    BY <1>1, <2>1, Flattened
  <2>3. \A i \in 1 .. n - 1 : g[i] = IF i = 1 THEN tt[i] ELSE g[i - 1] \o tt[i]
    BY <2>2 DEF Joined
  <2>4. \A i \in 1 .. n - 1 : g[i] \in Seq(S)
    <3>1. \A i \in 1 .. n - 1 : tt[i] \in Seq(S)
      BY <1>1
    <3> QED BY <2>1, <2>2, <3>1, JoinedUnique
  <2>5. ASSUME NEW k \in 1 .. n - 1, k # 1, f[k] = ss[1] \o g[k - 1]
        PROVE  f[k + 1] = ss[1] \o g[k]
    <3>1. /\ k + 1 \in 1 .. n /\ k + 1 # 1 /\ (k + 1) - 1 = k /\ k - 1 \in 1 .. n - 1
      BY <1>1, <2>1, <2>5
    <3>2. f[k + 1] = f[k] \o ss[k + 1] /\ g[k] = g[k - 1] \o ss[k + 1]
      BY <1>1, <1>3, <2>3, <2>5, <3>1
    <3>3. ss[1] \in Seq(S) /\ g[k - 1] \in Seq(S) /\ ss[k + 1] \in Seq(S)
      BY <1>1, <2>4, <3>1
    <3>4. (ss[1] \o g[k - 1]) \o ss[k + 1] = ss[1] \o (g[k - 1] \o ss[k + 1])
      <4>1. Cat(Cat(ss[1], g[k - 1]), ss[k + 1]) = Cat(ss[1], Cat(g[k - 1], ss[k + 1]))
        BY <3>3, CatAssociative
      <4> QED BY <4>1 DEF Cat
    <3> QED BY <2>5, <3>2, <3>3, <3>4
  <2> DEFINE h == [i \in 1 .. n - 1 |-> ss[1] \o g[i]]
  <2>6. \A i \in 1 .. n - 1 : h[i] = ss[1] \o g[i]
    OBVIOUS
  <2> HIDE DEF h
  <2> DEFINE T == {i \in 1 .. n - 1 : f[i + 1] # h[i]}
  <2>7. ASSUME T # {} PROVE FALSE
    <3>1. T \subseteq Nat
      BY <2>1
    <3>2. PICK m \in T : \A k \in T : m <= k
      <4> HIDE DEF T
      <4> QED BY <2>7, <3>1, Least
    <3>3. m \in 1 .. n - 1 /\ m \in Nat /\ f[m + 1] # ss[1] \o g[m]
      <4>1. m \in 1 .. n - 1 /\ f[m + 1] # h[m]
        OBVIOUS
      <4> HIDE DEF T
      <4>2. m \in Nat
        BY <2>1, <4>1
      <4>3. h[m] = ss[1] \o g[m]
        BY <2>6, <4>1
      <4> QED BY <4>1, <4>2, <4>3
    <3>4. f[m + 1] = f[m] \o ss[m + 1]
      <4>1. m + 1 \in 1 .. n /\ m + 1 # 1 /\ (m + 1) - 1 = m
        BY <1>1, <3>3
      <4> QED BY <1>3, <4>1
    <3>5. tt[m] = ss[m + 1] /\ ss[1] \in Seq(S) /\ ss[m + 1] \in Seq(S)
      BY <1>1, <3>3
    <3>6. CASE m = 1
      <4>1. f[m] = ss[1] /\ g[m] = tt[m]
        BY <1>1, <1>3, <2>3, <3>3, <3>6
      <4> QED BY <3>3, <3>4, <3>5, <4>1
    <3>7. CASE m # 1
      <4>1. m - 1 \in 1 .. n - 1 /\ m - 1 \notin T /\ (m - 1) + 1 = m
        <5>1. m - 1 \in 1 .. n - 1 /\ ~ (m <= m - 1) /\ (m - 1) + 1 = m
          BY <2>1, <3>3, <3>7
        <5> HIDE DEF T
        <5> QED BY <3>2, <5>1
      <4>2. f[m] = ss[1] \o g[m - 1]
        BY <2>6, <4>1
      <4> QED BY <2>5, <3>3, <3>7, <4>2
    <3> QED BY <3>6, <3>7
  <2>8. n - 1 \in 1 .. n - 1 /\ (n - 1) + 1 = n
    BY <1>1, <1>5
  <2>9. f[n] = ss[1] \o g[n - 1]
    BY <2>7, <2>8, <2>6
  <2> QED BY <1>1, <1>2, <2>2, <2>9 DEF tt
<1> QED BY <1>4, <1>5

\* The laws of queues of blocks in terms of Cat.
LEMMA FlattenCat ==
    ASSUME NEW S, NEW ss \in Seq(Seq(S))
    PROVE  /\ FlattenSeq(ss) \in Seq(S)
           /\ \A s \in Seq(S) : FlattenSeq(Append(ss, s)) = Cat(FlattenSeq(ss), s)
           /\ ss # << >> => FlattenSeq(ss) = Cat(Head(ss), FlattenSeq(Tail(ss)))
<1>1. FlattenSeq(ss) \in Seq(S)
  BY FlattenType
<1>2. ASSUME NEW s \in Seq(S) PROVE FlattenSeq(Append(ss, s)) = Cat(FlattenSeq(ss), s)
  BY FlattenAppend DEF Cat
<1>3. ASSUME ss # << >> PROVE FlattenSeq(ss) = Cat(Head(ss), FlattenSeq(Tail(ss)))
  BY <1>3, FlattenHead DEF Cat
<1> QED BY <1>1, <1>2, <1>3

-----------------------------------------------------------------------------
(* Sequences of numbered samples.                                           *)

\* The elements of s are in order, and none is beyond the n-th.
Sorted(s, n) ==
    /\ \A i \in 1 .. Len(s) : s[i] \in 1 .. n
    /\ \A i, j \in 1 .. Len(s) : i < j => s[i] < s[j]

LEMMA SortedAppend ==
    ASSUME NEW s \in Seq(Nat), NEW n \in Nat, Sorted(s, n)
    PROVE  Sorted(Append(s, n + 1), n + 1)
<1> DEFINE t == Append(s, n + 1)
<1>1. /\ Len(t) = Len(s) + 1 /\ t[Len(s) + 1] = n + 1
      /\ \A i \in 1 .. Len(s) : t[i] = s[i]
  BY AppendProperties
<1>2. Len(s) \in Nat
  OBVIOUS
<1> HIDE DEF t
<1>3. \A i \in 1 .. Len(t) : t[i] \in 1 .. n + 1
  BY <1>1, <1>2 DEF Sorted
<1>4. ASSUME NEW i \in 1 .. Len(t), NEW j \in 1 .. Len(t), i < j PROVE t[i] < t[j]
  <2>1. i \in 1 .. Len(s) /\ t[i] = s[i] /\ s[i] \in 1 .. n
    BY <1>1, <1>2, <1>4 DEF Sorted
  <2>2. CASE j = Len(s) + 1
    BY <1>1, <2>1, <2>2
  <2>3. CASE j # Len(s) + 1
    <3>1. j \in 1 .. Len(s) /\ t[j] = s[j]
      BY <1>1, <1>2, <2>3
    <3>2. s[i] < s[j]
      BY <1>4, <2>1, <3>1 DEF Sorted
    <3> QED BY <2>1, <3>1, <3>2
  <2> QED BY <2>2, <2>3
<1>5. Sorted(t, n + 1)
  BY <1>3, <1>4 DEF Sorted
<1> QED BY <1>5 DEF t

LEMMA SortedDrop ==
    ASSUME NEW a \in Seq(Nat), NEW b \in Seq(Nat), NEW c \in Seq(Nat), NEW n \in Nat
    PROVE  /\ Sorted(Cat(Cat(a, b), c), n) => Sorted(Cat(a, c), n)
           /\ Len(Cat(Cat(a, b), c)) = Len(Cat(a, c)) + Len(b)
<1>1. Len(a) \in Nat /\ Len(b) \in Nat /\ Len(c) \in Nat
  OBVIOUS
<1>a. PICK ab \in Seq(Nat) : ab = Cat(a, b)
  BY CatSplits
<1>b. Splits(Cat(a, b), a, b) /\ Splits(Cat(ab, c), ab, c) /\ Splits(Cat(a, c), a, c)
  BY CatSplits
<1>2. /\ Len(ab) = Len(a) + Len(b)
      /\ \A i \in 1 .. Len(a) : ab[i] = a[i]
  BY <1>a, <1>b DEF Splits
<1>3. /\ Len(Cat(ab, c)) = Len(ab) + Len(c)
      /\ \A i \in 1 .. Len(ab) : Cat(ab, c)[i] = ab[i]
      /\ \A i \in 1 .. Len(c) : Cat(ab, c)[Len(ab) + i] = c[i]
  BY <1>b DEF Splits
<1>4. /\ Len(Cat(a, c)) = Len(a) + Len(c)
      /\ \A i \in 1 .. Len(a) : Cat(a, c)[i] = a[i]
      /\ \A i \in 1 .. Len(c) : Cat(a, c)[Len(a) + i] = c[i]
  BY <1>b DEF Splits
<1> DEFINE s == Cat(ab, c)
           t == Cat(a, c)
           x == Len(a)
           y == Len(b)
           z == Len(c)
<1>5. /\ Len(s) = (x + y) + z /\ Len(t) = x + z
      /\ x \in Nat /\ y \in Nat /\ z \in Nat
      /\ \A i \in 1 .. x : s[i] = a[i]
      /\ \A i \in 1 .. z : s[(x + y) + i] = c[i]
      /\ \A i \in 1 .. x : t[i] = a[i]
      /\ \A i \in 1 .. z : t[x + i] = c[i]
  <2>1. \A i \in 1 .. x : i \in 1 .. Len(ab)
    BY <1>1, <1>2
  <2>2. \A i \in 1 .. x : s[i] = a[i]
    BY <1>2, <1>3, <2>1
  <2> QED BY <1>1, <1>2, <1>3, <1>4, <2>2
<1> HIDE DEF s, t, x, y, z
<1> DEFINE at1(i) == IF i <= x THEN i ELSE i + y
<1> HIDE DEF s, t, x, y, z
<1>6. ASSUME NEW i \in 1 .. x + z PROVE at1(i) \in 1 .. Len(s) /\ t[i] = s[at1(i)]
  <2>1. CASE i <= x
    <3>1. i \in 1 .. x /\ i \in 1 .. x + y /\ i \in 1 .. Len(s) /\ at1(i) = i
      BY <1>5, <2>1
    <3> QED BY <1>5, <3>1
  <2>2. CASE ~ (i <= x)
    <3>1. /\ i - x \in 1 .. z /\ x + (i - x) = i /\ (x + y) + (i - x) = i + y
          /\ i + y \in 1 .. Len(s) /\ at1(i) = i + y
      BY <1>5, <2>2
    <3>2. t[x + (i - x)] = c[i - x] /\ s[(x + y) + (i - x)] = c[i - x]
      BY <1>5, <3>1
    <3> QED BY <3>1, <3>2
  <2> QED BY <2>1, <2>2
<1>7. \A i, j \in 1 .. x + z : i < j => at1(i) < at1(j)
  BY <1>5
<1> HIDE DEF at1
<1>8. ASSUME Sorted(s, n) PROVE Sorted(t, n)
  <2>1. \A i \in 1 .. Len(t) : t[i] \in 1 .. n
    BY <1>5, <1>6, <1>8 DEF Sorted
  <2>2. ASSUME NEW i \in 1 .. x + z, NEW j \in 1 .. x + z, i < j PROVE t[i] < t[j]
    <3>1. at1(i) \in 1 .. Len(s) /\ at1(j) \in 1 .. Len(s) /\ at1(i) < at1(j)
      BY <1>6, <1>7, <2>2
    <3>2. s[at1(i)] < s[at1(j)]
      BY <1>8, <3>1 DEF Sorted
    <3> QED BY <1>6, <2>2, <3>2
  <2> QED BY <1>5, <2>1, <2>2 DEF Sorted
<1>9. Len(s) = Len(t) + y
  BY <1>5
<1> QED BY <1>a, <1>8, <1>9 DEF s, t, y

\* The elements of s are the last ones up to the n-th.
Latest(s, n) == \A i \in 1 .. Len(s) : s[i] = n - Len(s) + i

LEMMA LatestAppend ==
    ASSUME NEW s \in Seq(Nat), NEW n \in Nat, Latest(s, n)
    PROVE  Latest(Append(s, n + 1), n + 1)
<1> DEFINE t == Append(s, n + 1)
           x == Len(s)
<1>1. /\ Len(t) = x + 1 /\ t[x + 1] = n + 1 /\ x \in Nat
      /\ \A i \in 1 .. x : t[i] = s[i]
  BY AppendProperties
<1>2. \A i \in 1 .. x : s[i] = n - x + i
  BY DEF Latest
<1> HIDE DEF t, x
<1>3. ASSUME NEW i \in 1 .. Len(t) PROVE t[i] = (n + 1) - Len(t) + i
  <2>1. CASE i = x + 1
    BY <1>1, <2>1
  <2>2. CASE i # x + 1
    <3>1. i \in 1 .. x /\ t[i] = n - x + i
      BY <1>1, <1>2, <2>2
    <3>2. (n + 1) - (x + 1) + i = n - x + i
      BY <1>1
    <3> QED BY <1>1, <3>1, <3>2
  <2> QED BY <2>1, <2>2
<1>4. Latest(t, n + 1)
  BY <1>3 DEF Latest
<1> QED BY <1>4 DEF t

\* What is left when the head goes.
LEMMA LatestTail ==
    ASSUME NEW b \in Seq(Nat), NEW c \in Seq(Nat), NEW n \in Nat, Latest(Cat(b, c), n)
    PROVE  Latest(c, n)
<1> DEFINE s == Cat(b, c)
           x == Len(b)
           y == Len(c)
<1>1. /\ Len(s) = x + y /\ \A i \in 1 .. y : s[x + i] = c[i]
  BY CatElements
<1>2. x \in Nat /\ y \in Nat
  OBVIOUS
<1>3. \A i \in 1 .. Len(s) : s[i] = n - Len(s) + i
  BY DEF Latest
<1> HIDE DEF s, x, y
<1>4. ASSUME NEW i \in 1 .. y PROVE c[i] = n - y + i
  <2>1. x + i \in 1 .. Len(s) /\ n - (x + y) + (x + i) = n - y + i
    BY <1>1, <1>2
  <2> QED BY <1>1, <1>3, <2>1
<1>5. \A i \in 1 .. Len(c) : c[i] = n - Len(c) + i
  BY <1>4 DEF y
<1> QED BY <1>5 DEF Latest
=============================================================================
