---------------------------- MODULE MatDataProofs ---------------------------
(***************************************************************************)
(* Proofs about MatData: who owns the objects, and that copies are made of *)
(* objects alive.                                                          *)
(*                                                                         *)
(* The inductive invariant (ForestInv) says that the heap is a forest: the *)
(* pointers have no cycle, no two of them are equal, and the objects that  *)
(* nobody points to are Scope, the program's variables, and those of the   *)
(* queue of saved values.  It is proved in three layers:                   *)
(*   - what it takes to keep a forest when a pointer is given up, or takes *)
(*     a root that does not own it, when a root is destroyed with all it   *)
(*     owns and when another forest is added (the lemmas ...Forest);       *)
(*   - what Follow, Addresses and Owned, recursive functions of MatData,   *)
(*     compute in a forest: the ends of the routes along its pointers      *)
(*     (AddressesAre, OwnedIs), to each object at most one (OneAddress);   *)
(*   - what the operators on heaps do to the pointers (the lemmas          *)
(*     ...Effect), and from it that each operation keeps the forest (the   *)
(*     lemmas ...Sound).                                                   *)
(***************************************************************************)
EXTENDS MatData, FlattenTheorems

-----------------------------------------------------------------------------
(* Forests.  R is the set of roots other than Scope.                          *)

\* The pointer at k in the object n is m.
Edge(h, n, k, m) == n \in DOMAIN h /\ k \in DOMAIN h[n].child /\ h[n].child[k] = m

\* Every set of objects has one that owns none of the others: no cycles.
Grounded(h) ==
    \A S \in SUBSET DOMAIN h :
        S # {} => \E m \in S : \A k, x : Edge(h, m, k, x) => x \notin S

Forest(h, R) ==
    /\ DOMAIN h \subseteq 1 .. Scope
    /\ R \subseteq DOMAIN h \ {Scope}
    /\ \A n, k, m : Edge(h, n, k, m) => n \in DOMAIN h
    /\ \A n, k, m : Edge(h, n, k, m) /\ m # Null => m \in DOMAIN h \ ({Scope} \cup R)
    /\ \A m, n1, k1, n2, k2 :
          Edge(h, n1, k1, m) /\ Edge(h, n2, k2, m) /\ m # Null => n1 = n2 /\ k1 = k2
    /\ \A m \in DOMAIN h \ ({Scope} \cup R) : \E n, k : Edge(h, n, k, m)
    /\ Grounded(h)

\* D is what the object t owns, itself included.
Tree(h, t, D) ==
    /\ t \in D
    /\ \A n, k, m : n \in D /\ Edge(h, n, k, m) => m \in D
    /\ \A m \in D : m = t \/ \E n, k : n \in D /\ Edge(h, n, k, m)

\* Going from owned to owner comes to an end: objects each of which is owned by
\* another one of them there are none.
LEMMA Up ==
    ASSUME NEW h, NEW R, Forest(h, R), NEW S, S \subseteq DOMAIN h,
           \A m \in S : \E n \in S : \E k : Edge(h, n, k, m)
    PROVE  S = {}
<1> DEFINE family == {X \in SUBSET DOMAIN h :
                         X # {} /\ \A m \in X : \E n \in X : \E k : Edge(h, n, k, m)}
           T == {Cardinality(X) : X \in family}
<1>1. SUFFICES ASSUME S # {} PROVE FALSE
  OBVIOUS
<1>2. ASSUME NEW X \in SUBSET DOMAIN h PROVE IsFiniteSet(X) /\ Cardinality(X) \in Nat
  <2>1. IsFiniteSet(1 .. Scope) /\ X \subseteq 1 .. Scope
    BY MatDataAssumption, FS_Interval DEF Forest, Scope
  <2> QED BY <2>1, FS_Subset, FS_CardinalityType
<1>3. T \subseteq Nat /\ T # {}
  <2>1. S \in family
    BY <1>1
  <2> QED BY <1>2, <2>1
<1>4. PICK c \in T : \A k \in T : c <= k
  <2> HIDE DEF T
  <2> QED BY <1>3, Least
<1>5. PICK X \in family : Cardinality(X) = c
  BY <1>4
<1>6. PICK low \in X : \A k, x : Edge(h, low, k, x) => x \notin X
  BY <1>5 DEF Forest, Grounded
<1> DEFINE Y == {m \in X : \E k, x : x \in X /\ Edge(h, m, k, x)}
<1>7. Y \subseteq X /\ low \notin Y
  BY <1>6
<1>8. \A m \in X : \E n \in Y : \E k : Edge(h, n, k, m)
  BY <1>5
<1>9. Y \in family
  <2>1. X \in SUBSET DOMAIN h /\ X # {}
    BY <1>5
  <2>2. Y \in SUBSET DOMAIN h /\ Y # {}
    <3> HIDE DEF Y
    <3> QED BY <1>7, <1>8, <2>1
  <2>3. \A m \in Y : \E n \in Y : \E k : Edge(h, n, k, m)
    <3> HIDE DEF Y
    <3> QED BY <1>7, <1>8
  <2> HIDE DEF Y
  <2> QED BY <2>2, <2>3
<1>10. Cardinality(Y) < Cardinality(X)
  <2>1. IsFiniteSet(X) /\ Cardinality(X) \in Nat /\ Cardinality(Y) \in Nat
    <3> HIDE DEF Y
    <3> QED BY <1>2, <1>5, <1>9
  <2>2. Y \in SUBSET X /\ Y # X
    <3> HIDE DEF Y
    <3> QED BY <1>6, <1>7
  <2>3. Cardinality(Y) <= Cardinality(X) /\ Cardinality(Y) # Cardinality(X)
    <3> HIDE DEF Y
    <3> QED BY <2>1, <2>2, FS_Subset
  <2> HIDE DEF Y
  <2> QED BY <2>1, <2>3
<1>11. Cardinality(Y) \in T /\ c = Cardinality(X) /\ Cardinality(Y) \in Nat /\ c \in Nat
  <2> HIDE DEF Y
  <2> QED BY <1>2, <1>5, <1>9
<1> HIDE DEF T, Y
<1> QED BY <1>4, <1>10, <1>11

\* The owner of a root's tree are in it, and Scope is not.
LEMMA TreeFacts ==
    ASSUME NEW h, NEW R, Forest(h, R), NEW t, NEW D, Tree(h, t, D), t # Scope
    PROVE  /\ Scope \notin D
           /\ \A n, k, m : Edge(h, n, k, m) /\ m \in D /\ m # t /\ m # Null => n \in D
<1>1. Scope # Null
  BY MatDataAssumption DEF Scope, Null
<1>2. ASSUME Scope \in D PROVE FALSE
  BY <1>1, <1>2 DEF Tree, Forest
<1>3. ASSUME NEW n, NEW k, NEW m, Edge(h, n, k, m), m \in D, m # t, m # Null
      PROVE  n \in D
  <2>1. PICK n2, k2 : n2 \in D /\ Edge(h, n2, k2, m)
    BY <1>3 DEF Tree
  <2> QED BY <1>3, <2>1 DEF Forest
<1> QED BY <1>2, <1>3

\* Giving up a pointer makes its object a root.
LEMMA DetachForest ==
    ASSUME NEW h, NEW R, Forest(h, R), NEW a, NEW key, NEW t, Edge(h, a, key, t), t # Null,
           NEW g, DOMAIN g = DOMAIN h,
           \A n, k, m : Edge(g, n, k, m) => n \in DOMAIN h,
           \A n, k, m : m # Null => (Edge(g, n, k, m) <=> Edge(h, n, k, m) /\ m # t)
    PROVE  Forest(g, R \cup {t})
<1>1. Null \notin DOMAIN h
  BY DEF Forest, Null
<1>2. t \in DOMAIN h \ ({Scope} \cup R)
  BY DEF Forest
<1>3. Grounded(g)
  <2>1. ASSUME NEW S \in SUBSET DOMAIN g, S # {}
        PROVE  \E m \in S : \A k, x : Edge(g, m, k, x) => x \notin S
    <3>1. PICK m \in S : \A k, x : Edge(h, m, k, x) => x \notin S
      BY <2>1 DEF Forest, Grounded
    <3>2. ASSUME NEW k, NEW x, Edge(g, m, k, x) PROVE x \notin S
      BY <1>1, <3>1, <3>2
    <3> QED BY <3>2
  <2> QED BY <2>1 DEF Grounded
<1>4. \A n, k, m : Edge(g, n, k, m) /\ m # Null => m \in DOMAIN g \ ({Scope} \cup (R \cup {t}))
  BY DEF Forest
<1>5. \A m, n1, k1, n2, k2 :
          Edge(g, n1, k1, m) /\ Edge(g, n2, k2, m) /\ m # Null => n1 = n2 /\ k1 = k2
  BY DEF Forest
<1>6. \A m \in DOMAIN g \ ({Scope} \cup (R \cup {t})) : \E n, k : Edge(g, n, k, m)
  BY <1>1 DEF Forest
<1>7. DOMAIN g \subseteq 1 .. Scope
  BY DEF Forest
<1>8. R \cup {t} \subseteq DOMAIN g \ {Scope}
  BY <1>2 DEF Forest
<1> QED BY <1>3, <1>4, <1>5, <1>6, <1>7, <1>8 DEF Forest

\* Another pointer of h owns t.
Takes(g, h, a, key, t) ==
    \A n, k, m : m # Null =>
       (Edge(g, n, k, m) <=> Edge(h, n, k, m) \/ (n = a /\ k = key /\ m = t))

\* A pointer that takes a root which does not own it.
LEMMA AttachForest ==
    ASSUME NEW h, NEW R, Forest(h, R), NEW t \in R, NEW D, Tree(h, t, D),
           NEW a \in DOMAIN h, a \notin D, NEW key,
           NEW g, DOMAIN g = DOMAIN h, Takes(g, h, a, key, t),
           \A n, k, m : Edge(g, n, k, m) => n \in DOMAIN h
    PROVE  Forest(g, R \ {t})
<1>a. \A n, k, m : m # Null =>
         (Edge(g, n, k, m) <=> Edge(h, n, k, m) \/ (n = a /\ k = key /\ m = t))
  BY DEF Takes
<1>1. Null \notin DOMAIN h /\ t # Null /\ t \in DOMAIN h /\ t # Scope
  BY DEF Forest, Null
<1>2. \A n, k : ~ Edge(h, n, k, t)
  BY <1>1 DEF Forest
<1>3. Grounded(g)
  <2>1. ASSUME NEW S \in SUBSET DOMAIN g, S # {}
        PROVE  \E m \in S : \A k, x : Edge(g, m, k, x) => x \notin S
    <3>1. CASE S \cap D # {}
      <4>1. S \cap D \in SUBSET DOMAIN h
        BY <2>1
      <4>2. PICK m \in S \cap D : \A k, x : Edge(h, m, k, x) => x \notin S \cap D
        BY <3>1, <4>1 DEF Forest, Grounded
      <4>3. ASSUME NEW k, NEW x, Edge(g, m, k, x), x \in S PROVE FALSE
        <5>1. x # Null /\ m # a
          BY <1>1, <2>1, <4>2, <4>3
        <5>2. Edge(h, m, k, x)
          BY <1>a, <4>3, <5>1
        <5> QED BY <4>2, <4>3, <5>2 DEF Tree
      <4> QED BY <4>2, <4>3
    <3>2. CASE S \cap D = {}
      <4>1. PICK m \in S : \A k, x : Edge(h, m, k, x) => x \notin S
        BY <2>1 DEF Forest, Grounded
      <4>2. ASSUME NEW k, NEW x, Edge(g, m, k, x), x \in S PROVE FALSE
        <5>1. x # Null /\ x # t
          BY <1>1, <2>1, <3>2, <4>2 DEF Tree
        <5> QED BY <1>a, <4>1, <4>2, <5>1
      <4> QED BY <4>1, <4>2
    <3> QED BY <3>1, <3>2
  <2> QED BY <2>1 DEF Grounded
<1>4. \A n, k, m : Edge(g, n, k, m) /\ m # Null => m \in DOMAIN g \ ({Scope} \cup (R \ {t}))
  BY <1>1, <1>a DEF Forest
<1>5. \A m, n1, k1, n2, k2 :
          Edge(g, n1, k1, m) /\ Edge(g, n2, k2, m) /\ m # Null => n1 = n2 /\ k1 = k2
  BY <1>2, <1>a DEF Forest
<1>6. \A m \in DOMAIN g \ ({Scope} \cup (R \ {t})) : \E n, k : Edge(g, n, k, m)
  <2>1. Edge(g, a, key, t)
    BY <1>1, <1>a
  <2> QED BY <1>1, <1>a, <2>1 DEF Forest
<1>7. DOMAIN g \subseteq 1 .. Scope /\ R \ {t} \subseteq DOMAIN g \ {Scope}
  BY DEF Forest
<1> QED BY <1>3, <1>4, <1>5, <1>6, <1>7 DEF Forest

\* Destroying a root with all it owns.
LEMMA DropForest ==
    ASSUME NEW h, NEW R, Forest(h, R), NEW t \in R, NEW D, Tree(h, t, D),
           NEW g, DOMAIN g = DOMAIN h \ D,
           \A n, k, m : Edge(g, n, k, m) <=> Edge(h, n, k, m) /\ n \notin D
    PROVE  Forest(g, R \ {t})
<1>1. Null \notin DOMAIN h /\ t # Null /\ t \in DOMAIN h /\ t # Scope
  BY DEF Forest, Null
<1>2. \A n, k, m : Edge(h, n, k, m) /\ n \notin D /\ m # Null => m \notin D
  <2>1. \A n, k : ~ Edge(h, n, k, t)
    BY <1>1 DEF Forest
  <2> QED BY <1>1, <2>1, TreeFacts
<1>3. Grounded(g)
  <2>1. ASSUME NEW S \in SUBSET DOMAIN g, S # {}
        PROVE  \E m \in S : \A k, x : Edge(g, m, k, x) => x \notin S
    <3>1. PICK m \in S : \A k, x : Edge(h, m, k, x) => x \notin S
      BY <2>1 DEF Forest, Grounded
    <3> QED BY <3>1
  <2> QED BY <2>1 DEF Grounded
<1>4. \A n, k, m : Edge(g, n, k, m) /\ m # Null => m \in DOMAIN g \ ({Scope} \cup (R \ {t}))
  BY <1>2 DEF Forest
<1>5. \A m, n1, k1, n2, k2 :
          Edge(g, n1, k1, m) /\ Edge(g, n2, k2, m) /\ m # Null => n1 = n2 /\ k1 = k2
  BY DEF Forest
<1>6. ASSUME NEW m \in DOMAIN g \ ({Scope} \cup (R \ {t})) PROVE \E n, k : Edge(g, n, k, m)
  <2>1. m # t /\ m \notin D /\ m \in DOMAIN h \ ({Scope} \cup R)
    BY DEF Tree
  <2>2. PICK n, k : Edge(h, n, k, m)
    BY <2>1 DEF Forest
  <2>3. n \notin D
    BY <2>1, <2>2 DEF Tree
  <2> QED BY <2>2, <2>3
<1>7. DOMAIN g \subseteq 1 .. Scope
  BY DEF Forest
<1>8. R \ {t} \subseteq DOMAIN g \ {Scope}
  <2>1. ASSUME NEW r \in R, r # t PROVE r \notin D
    BY <2>1 DEF Tree, Forest, Null
  <2> QED BY <2>1 DEF Forest
<1>9. \A n, k, m : Edge(g, n, k, m) => n \in DOMAIN g
  BY DEF Forest
<1> QED BY <1>3, <1>4, <1>5, <1>6, <1>7, <1>8, <1>9 DEF Forest

\* Two forests without a common object.
LEMMA AddForest ==
    ASSUME NEW h, NEW R, Forest(h, R), NEW o, NEW Q, Forest(o, Q),
           DOMAIN h \cap DOMAIN o = {}, Scope \notin DOMAIN o,
           NEW g, DOMAIN g = DOMAIN h \cup DOMAIN o,
           \A n, k, m : Edge(g, n, k, m) <=> Edge(h, n, k, m) \/ Edge(o, n, k, m)
    PROVE  Forest(g, R \cup Q)
<1>1. Null \notin DOMAIN h /\ Null \notin DOMAIN o
  BY DEF Forest, Null
<1>a. /\ \A n, k, m : Edge(h, n, k, m) => n \in DOMAIN h
      /\ \A n, k, m : Edge(o, n, k, m) => n \in DOMAIN o
  BY DEF Forest
<1>b. /\ \A n, k, m : Edge(h, n, k, m) /\ m # Null => m \in DOMAIN h \ ({Scope} \cup R)
      /\ \A n, k, m : Edge(o, n, k, m) /\ m # Null => m \in DOMAIN o \ ({Scope} \cup Q)
      /\ R \subseteq DOMAIN h \ {Scope} /\ Q \subseteq DOMAIN o \ {Scope}
  BY DEF Forest
<1>3. Grounded(g)
  <2>1. ASSUME NEW S \in SUBSET DOMAIN g, S # {}
        PROVE  \E m \in S : \A k, x : Edge(g, m, k, x) => x \notin S
    <3>1. CASE S \cap DOMAIN h # {}
      <4> DEFINE P == S \cap DOMAIN h
      <4>1. PICK m \in P : \A k, x : Edge(h, m, k, x) => x \notin P
        BY <3>1 DEF Forest, Grounded
      <4>2. ASSUME NEW k, NEW x, Edge(g, m, k, x), x \in S PROVE FALSE
        <5>1. x # Null /\ Edge(h, m, k, x)
          BY <1>1, <1>a, <2>1, <4>1, <4>2
        <5> QED BY <1>b, <4>1, <4>2, <5>1
      <4> QED BY <4>1, <4>2
    <3>2. CASE S \cap DOMAIN h = {}
      <4>1. S \in SUBSET DOMAIN o
        BY <2>1, <3>2
      <4>2. PICK m \in S : \A k, x : Edge(o, m, k, x) => x \notin S
        BY <2>1, <4>1 DEF Forest, Grounded
      <4> QED BY <1>a, <3>2, <4>2
    <3> QED BY <3>1, <3>2
  <2> QED BY <2>1 DEF Grounded
<1>4. \A n, k, m : Edge(g, n, k, m) /\ m # Null => m \in DOMAIN g \ ({Scope} \cup (R \cup Q))
  BY <1>b
<1>5. \A m, n1, k1, n2, k2 :
          Edge(g, n1, k1, m) /\ Edge(g, n2, k2, m) /\ m # Null => n1 = n2 /\ k1 = k2
  <2>1. ASSUME NEW m, NEW n1, NEW k1, NEW n2, NEW k2,
               Edge(g, n1, k1, m), Edge(g, n2, k2, m), m # Null
        PROVE  n1 = n2 /\ k1 = k2
    <3>1. CASE Edge(h, n1, k1, m)
      <4>1. Edge(h, n2, k2, m)
        BY <1>b, <2>1, <3>1
      <4> QED BY <2>1, <3>1, <4>1 DEF Forest
    <3>2. CASE Edge(o, n1, k1, m)
      <4>1. Edge(o, n2, k2, m)
        BY <1>b, <2>1, <3>2
      <4> QED BY <2>1, <3>2, <4>1 DEF Forest
    <3> QED BY <2>1, <3>1, <3>2
  <2> QED BY <2>1
<1>6. \A m \in DOMAIN g \ ({Scope} \cup (R \cup Q)) : \E n, k : Edge(g, n, k, m)
  BY DEF Forest
<1>7. DOMAIN g \subseteq 1 .. Scope /\ R \cup Q \subseteq DOMAIN g \ {Scope}
  BY DEF Forest
<1>9. \A n, k, m : Edge(g, n, k, m) => n \in DOMAIN g
  BY <1>a
<1> QED BY <1>3, <1>4, <1>5, <1>6, <1>7, <1>9 DEF Forest

-----------------------------------------------------------------------------
(* Addresses.                                                                 *)

Keys == Variables \cup Fields \cup Nat

\* Induction over sequences, by a least counterexample.
LEMMA SeqInduction ==
    ASSUME NEW S, NEW P, << >> \in P,
           \A s \in Seq(S), e \in S : s \in P => Append(s, e) \in P
    PROVE  Seq(S) \subseteq P
<1> DEFINE T == {n \in Nat : \E s \in Seq(S) : Len(s) = n /\ s \notin P}
<1>1. SUFFICES ASSUME NEW s \in Seq(S), s \notin P PROVE FALSE
  OBVIOUS
<1>2. T \subseteq Nat /\ T # {}
  BY <1>1
<1>3. PICK m \in T : \A k \in T : m <= k
  <2> HIDE DEF T
  <2> QED BY <1>2, Least
<1>4. PICK r \in Seq(S) : Len(r) = m /\ r \notin P
  BY <1>3
<1>5. PICK q \in Seq(S), e \in S : r = Append(q, e)
  BY <1>4, SequenceEmptyOrAppend
<1>6. Len(q) \in Nat /\ Len(q) < m
  BY <1>4, <1>5, AppendProperties
<1>7. q \in P
  BY <1>3, <1>6
<1> QED BY <1>4, <1>5, <1>7

\* w lists the objects on the way from n along p.
Route(h, n, p, w) ==
    /\ w = [i \in 0 .. Len(p) |-> w[i]]
    /\ w[0] = n
    /\ \A i \in 1 .. Len(p) : Edge(h, w[i - 1], p[i], w[i])

Leads(h, n, p, m) == \E w : Route(h, n, p, w) /\ w[Len(p)] = m

\* Follow goes along the route, if there is one.
LEMMA RouteFollow ==
    ASSUME NEW h, NEW n, NEW p \in Seq(Keys), NEW m, Leads(h, n, p, m)
    PROVE  Follow(h, n, p) = m
<1> DEFINE At(f) == f = [i \in 0 .. Len(p) |-> IF i = 0 THEN n ELSE h[f[i - 1]].child[p[i]]]
           at == CHOOSE f : At(f)
<1>1. PICK w : Route(h, n, p, w) /\ w[Len(p)] = m
  BY DEF Leads
<1>2. Len(p) \in Nat
  OBVIOUS
<1>3. At(w)
  <2>1. ASSUME NEW i \in 0 .. Len(p)
        PROVE  w[i] = IF i = 0 THEN n ELSE h[w[i - 1]].child[p[i]]
    <3>1. CASE i = 0
      BY <1>1, <3>1 DEF Route
    <3>2. CASE i # 0
      <4>1. i \in 1 .. Len(p)
        BY <1>2, <3>2
      <4> QED BY <1>1, <3>2, <4>1 DEF Route, Edge
    <3> QED BY <3>1, <3>2
  <2>2. w = [i \in 0 .. Len(p) |-> w[i]]
    BY <1>1 DEF Route
  <2> QED BY <2>1, <2>2
<1>4. At(at)
  <2> HIDE DEF At
  <2> QED BY <1>3
<1> DEFINE T == {i \in 0 .. Len(p) : at[i] # w[i]}
<1>5. T = {}
  <2>1. SUFFICES ASSUME T # {} PROVE FALSE
    OBVIOUS
  <2>2. T \subseteq Nat
    BY <1>2
  <2>3. PICK j \in T : \A k \in T : j <= k
    <3> HIDE DEF T
    <3> QED BY <2>1, <2>2, Least
  <2> HIDE DEF at
  <2>4. /\ at[j] = IF j = 0 THEN n ELSE h[at[j - 1]].child[p[j]]
        /\ w[j] = IF j = 0 THEN n ELSE h[w[j - 1]].child[p[j]]
    BY <1>3, <1>4
  <2>5. j # 0 => at[j - 1] = w[j - 1]
    BY <1>2, <2>3
  <2> QED BY <2>3, <2>4, <2>5
<1>6. Follow(h, n, p) = at[Len(p)]
  BY DEF Follow
<1> HIDE DEF at
<1> QED BY <1>1, <1>2, <1>5, <1>6

LEMMA LeadsOnce ==
    ASSUME NEW h, NEW n, NEW p \in Seq(Keys), NEW m1, NEW m2,
           Leads(h, n, p, m1), Leads(h, n, p, m2)
    PROVE  m1 = m2
BY RouteFollow

LEMMA LeadsEmpty ==
    ASSUME NEW h, NEW n, NEW m
    PROVE  Leads(h, n, << >>, m) <=> m = n
<1>1. Len(<< >>) = 0
  OBVIOUS
<1>2. ASSUME Leads(h, n, << >>, m) PROVE m = n
  BY <1>1, <1>2 DEF Leads, Route
<1>3. Leads(h, n, << >>, n)
  <2> DEFINE w == [i \in 0 .. 0 |-> n]
  <2>1. w[0] = n /\ w = [i \in 0 .. 0 |-> w[i]]
    OBVIOUS
  <2>2. Route(h, n, << >>, w)
    BY <1>1, <2>1 DEF Route
  <2> QED BY <1>1, <2>1, <2>2 DEF Leads
<1> QED BY <1>2, <1>3

LEMMA LeadsLast ==
    ASSUME NEW h, NEW n, NEW s \in Seq(Keys), NEW k \in Keys, NEW m
    PROVE  Leads(h, n, Append(s, k), m) <=> \E x : Leads(h, n, s, x) /\ Edge(h, x, k, m)
<1> DEFINE p == Append(s, k)
           l == Len(s)
<1>1. /\ p \in Seq(Keys) /\ Len(p) = l + 1 /\ p[l + 1] = k
      /\ \A i \in 1 .. l : p[i] = s[i]
  BY AppendProperties
<1>2. l \in Nat
  OBVIOUS
<1> HIDE DEF p, l
<1>3. ASSUME Leads(h, n, p, m) PROVE \E x : Leads(h, n, s, x) /\ Edge(h, x, k, m)
  <2>1. PICK w : Route(h, n, p, w) /\ w[l + 1] = m
    BY <1>1, <1>3 DEF Leads
  <2> DEFINE v == [i \in 0 .. l |-> w[i]]
  <2>2. v = [i \in 0 .. l |-> v[i]] /\ v[0] = n /\ \A i \in 0 .. l : v[i] = w[i]
    BY <1>2, <2>1 DEF Route
  <2>3. ASSUME NEW i \in 1 .. l PROVE Edge(h, v[i - 1], s[i], v[i])
    <3>1. i \in 1 .. Len(p) /\ i \in 0 .. l /\ i - 1 \in 0 .. l
      BY <1>1, <1>2
    <3>2. Edge(h, w[i - 1], p[i], w[i])
      BY <2>1, <3>1 DEF Route
    <3> HIDE DEF v
    <3> QED BY <1>1, <2>2, <3>1, <3>2
  <2>4. Route(h, n, s, v)
    <3> HIDE DEF v
    <3> QED BY <2>2, <2>3 DEF Route, l
  <2>5. Edge(h, w[l], k, m)
    <3>1. l + 1 \in 1 .. Len(p) /\ (l + 1) - 1 = l
      BY <1>1, <1>2
    <3> QED BY <1>1, <2>1, <3>1 DEF Route
  <2>6. v[l] = w[l]
    BY <1>2
  <2>7. Leads(h, n, s, w[l])
    <3> HIDE DEF v
    <3> QED BY <2>4, <2>6 DEF Leads, l
  <2> QED BY <2>5, <2>7
<1>4. ASSUME NEW x, Leads(h, n, s, x), Edge(h, x, k, m) PROVE Leads(h, n, p, m)
  <2>1. PICK v : Route(h, n, s, v) /\ v[l] = x
    BY <1>4 DEF Leads, l
  <2> DEFINE w == [i \in 0 .. l + 1 |-> IF i = l + 1 THEN m ELSE v[i]]
  <2>2. /\ w = [i \in 0 .. l + 1 |-> w[i]] /\ w[l + 1] = m
        /\ \A i \in 0 .. l : w[i] = v[i]
    BY <1>2
  <2> HIDE DEF w
  <2>3. w[0] = n
    <3>1. 0 \in 0 .. l /\ v[0] = n
      BY <1>2, <2>1 DEF Route
    <3> QED BY <2>2, <3>1
  <2>4. ASSUME NEW i \in 1 .. l + 1 PROVE Edge(h, w[i - 1], p[i], w[i])
    <3>1. CASE i = l + 1
      <4>1. i - 1 = l /\ l \in 0 .. l
        BY <1>2, <3>1
      <4> QED BY <1>1, <1>4, <2>1, <2>2, <3>1, <4>1
    <3>2. CASE i # l + 1
      <4>1. i \in 1 .. l /\ i \in 0 .. l /\ i - 1 \in 0 .. l
        BY <1>2, <3>2
      <4>2. Edge(h, v[i - 1], s[i], v[i])
        BY <2>1, <4>1 DEF Route, l
      <4> QED BY <1>1, <2>2, <4>1, <4>2
    <3> QED BY <3>1, <3>2
  <2>5. Route(h, n, p, w)
    BY <1>1, <2>2, <2>3, <2>4 DEF Route
  <2> QED BY <1>1, <2>2, <2>5 DEF Leads
<1> QED BY <1>3, <1>4 DEF p

LEMMA LeadsCat ==
    ASSUME NEW h, NEW n, NEW s \in Seq(Keys), NEW r \in Seq(Keys), NEW m
    PROVE  Leads(h, n, s \o r, m) <=> \E x : Leads(h, n, s, x) /\ Leads(h, x, r, m)
<1> DEFINE Law(t) == \A y : Leads(h, n, s \o t, y) <=>
                               \E x : Leads(h, n, s, x) /\ Leads(h, x, t, y)
           P == {t \in Seq(Keys) : Law(t)}
<1>1. << >> \in P
  <2>1. s \o << >> = s /\ << >> \in Seq(Keys)
    BY ConcatEmptySeq
  <2> QED BY <2>1, LeadsEmpty
<1>2. ASSUME NEW t \in Seq(Keys), NEW k \in Keys, Law(t) PROVE Law(Append(t, k))
  <2>1. s \o Append(t, k) = Append(s \o t, k) /\ s \o t \in Seq(Keys)
    BY CatAppend, ConcatProperties DEF Cat
  <2>2. ASSUME NEW y
        PROVE  Leads(h, n, Append(s \o t, k), y) <=>
                  \E x : Leads(h, n, s, x) /\ Leads(h, x, Append(t, k), y)
    <3>1. Leads(h, n, Append(s \o t, k), y) <=>
             \E z : Leads(h, n, s \o t, z) /\ Edge(h, z, k, y)
      BY <2>1, LeadsLast
    <3>2. \A x : Leads(h, x, Append(t, k), y) <=> \E z : Leads(h, x, t, z) /\ Edge(h, z, k, y)
      BY LeadsLast
    <3> QED BY <1>2, <3>1, <3>2
  <2> QED BY <2>1, <2>2
<1>3. \A t \in Seq(Keys), k \in Keys : t \in P => Append(t, k) \in P
  <2>1. \A t \in Seq(Keys), k \in Keys : Append(t, k) \in Seq(Keys)
    OBVIOUS
  <2> HIDE DEF Law
  <2> QED BY <1>2, <2>1
<1>4. Seq(Keys) \subseteq P
  <2> HIDE DEF P
  <2> QED BY <1>1, <1>3, SeqInduction
<1> QED BY <1>4

LEMMA LeadsFirst ==
    ASSUME NEW h, NEW n, NEW k \in Keys, NEW r \in Seq(Keys), NEW m
    PROVE  Leads(h, n, <<k>> \o r, m) <=> \E x : Edge(h, n, k, x) /\ Leads(h, x, r, m)
<1>1. << >> \in Seq(Keys) /\ Append(<< >>, k) = <<k>> /\ <<k>> \in Seq(Keys)
  OBVIOUS
<1>2. ASSUME NEW x PROVE Leads(h, n, <<k>>, x) <=> Edge(h, n, k, x)
  <2>1. Leads(h, n, Append(<< >>, k), x) <=> \E y : Leads(h, n, << >>, y) /\ Edge(h, y, k, x)
    BY <1>1, LeadsLast
  <2>2. \A y : Leads(h, n, << >>, y) <=> y = n
    BY LeadsEmpty
  <2> QED BY <1>1, <2>1, <2>2
<1> QED BY <1>1, <1>2, LeadsCat

-----------------------------------------------------------------------------
(* The types of the heap, and the addresses in it.                            *)

IsObject(x) == x = [label |-> x.label, child |-> x.child]

\* What a value holds: a scalar, the fields of a struct or a cell's elements.
IsValue(x) ==
    /\ x.label \in Labels
    /\ DOMAIN x.child \subseteq Fields \cup Nat
    /\ x.label \in Scalars => x.child = << >>

IsHeap(h) ==
    /\ \A n \in DOMAIN h : IsObject(h[n]) /\ DOMAIN h[n].child \subseteq Keys
    /\ \A n \in DOMAIN h \ {Scope} : IsValue(h[n])

\* The right side of the recursion in Addresses.
Below(h, f, m) ==
    {<< >>} \cup (IF m \notin DOMAIN h THEN {}
                  ELSE UNION {{<<k>> \o r : r \in f[h[m].child[k]]} : k \in DOMAIN h[m].child})

Longer(h, f, m, p) ==
    \E k \in DOMAIN h[m].child : \E r \in f[h[m].child[k]] : p = <<k>> \o r

LEMMA BelowIs ==
    ASSUME NEW h, NEW f, NEW m, NEW p
    PROVE  p \in Below(h, f, m) <=> p = << >> \/ (m \in DOMAIN h /\ Longer(h, f, m, p))
<1>1. CASE m \notin DOMAIN h
  BY <1>1 DEF Below
<1>2. CASE m \in DOMAIN h
  <2> DEFINE U == UNION {{<<k>> \o r : r \in f[h[m].child[k]]} : k \in DOMAIN h[m].child}
  <2>1. p \in U <=> \E k \in DOMAIN h[m].child : p \in {<<k>> \o r : r \in f[h[m].child[k]]}
    BY Zenon
  <2>2. \A k : p \in {<<k>> \o r : r \in f[h[m].child[k]]} <=>
                  \E r \in f[h[m].child[k]] : p = <<k>> \o r
    BY Zenon
  <2> HIDE DEF U
  <2>3. p \in U <=> \E k \in DOMAIN h[m].child : \E r \in f[h[m].child[k]] : p = <<k>> \o r
    BY <2>1, <2>2
  <2>4. Below(h, f, m) = {<< >>} \cup U
    BY <1>2 DEF U, Below
  <2> QED BY <1>2, <2>3, <2>4 DEF Longer
<1> QED BY <1>1, <1>2

\* Addresses defines a recursive function: this is it.
LEMMA AddressesAre ==
    ASSUME NEW h, IsHeap(h), NEW R, Forest(h, R), NEW n \in 0 .. Scope
    PROVE  Addresses(h, n) = {p \in Seq(Keys) : \E m : Leads(h, n, p, m)}
<1> DEFINE Eq(f) == f = [m \in 0 .. Scope |-> Below(h, f, m)]
           B == [m \in 0 .. Scope |-> {p \in Seq(Keys) : \E x : Leads(h, m, p, x)}]
           below == CHOOSE f : Eq(f)
<1>1. \A m, k, x : Edge(h, m, k, x) => /\ m \in DOMAIN h /\ k \in DOMAIN h[m].child
                                       /\ x = h[m].child[k] /\ k \in Keys /\ x \in 0 .. Scope
  <2>1. ASSUME NEW m, NEW k, NEW x, Edge(h, m, k, x) PROVE k \in Keys /\ x \in 0 .. Scope
    <3>1. k \in Keys
      BY <2>1 DEF Edge, IsHeap
    <3>2. x = Null \/ x \in DOMAIN h
      BY <2>1 DEF Forest
    <3>3. 1 .. Scope \subseteq 0 .. Scope /\ Null \in 0 .. Scope
      BY MatDataAssumption DEF Scope, Null
    <3> QED BY <3>1, <3>2, <3>3 DEF Forest
  <2> QED BY <2>1 DEF Edge
<1>2. \A m, k : m \in DOMAIN h /\ k \in DOMAIN h[m].child => Edge(h, m, k, h[m].child[k])
  BY DEF Edge
<1>3. ASSUME NEW m \in 0 .. Scope PROVE B[m] = Below(h, B, m)
  <2>1. \A p : p \in B[m] <=> p \in Seq(Keys) /\ \E x : Leads(h, m, p, x)
    OBVIOUS
  <2>2. << >> \in B[m]
    BY LeadsEmpty
  <2>3. ASSUME NEW p \in B[m], p # << >> PROVE p \in Below(h, B, m)
    <3>1. PICK x : p \in Seq(Keys) /\ Leads(h, m, p, x)
      OBVIOUS
    <3>2. /\ Head(p) \in Keys /\ Tail(p) \in Seq(Keys) /\ p = <<Head(p)>> \o Tail(p)
      BY <2>3, <3>1
    <3>3. PICK y : Edge(h, m, Head(p), y) /\ Leads(h, y, Tail(p), x)
      BY <3>1, <3>2, LeadsFirst
    <3>4. /\ m \in DOMAIN h /\ Head(p) \in DOMAIN h[m].child /\ y = h[m].child[Head(p)]
          /\ y \in 0 .. Scope
      BY <1>1, <3>3
    <3>5. Tail(p) \in B[y]
      BY <3>2, <3>3, <3>4
    <3> HIDE DEF B
    <3>6. Longer(h, B, m, p)
      BY <3>2, <3>4, <3>5 DEF Longer
    <3> QED BY BelowIs, <3>4, <3>6
  <2>4. ASSUME m \in DOMAIN h, NEW k \in DOMAIN h[m].child, NEW r \in B[h[m].child[k]]
        PROVE  <<k>> \o r \in B[m]
    <3>1. Edge(h, m, k, h[m].child[k]) /\ k \in Keys /\ h[m].child[k] \in 0 .. Scope
      BY <1>1, <1>2, <2>4
    <3>2. PICK x : r \in Seq(Keys) /\ Leads(h, h[m].child[k], r, x)
      BY <3>1
    <3>3. Leads(h, m, <<k>> \o r, x)
      BY <3>1, <3>2, LeadsFirst
    <3>4. <<k>> \o r \in Seq(Keys)
      BY <3>1, <3>2, ConcatProperties
    <3> HIDE DEF B
    <3> QED BY <2>1, <3>3, <3>4
  <2>5. ASSUME NEW p, p \in Below(h, B, m) PROVE p \in B[m]
    <3> HIDE DEF B
    <3>1. CASE p = << >>
      BY <2>2, <3>1
    <3>2. CASE p # << >>
      <4>1. m \in DOMAIN h /\ Longer(h, B, m, p)
        BY BelowIs, <2>5, <3>2
      <4>2. PICK k \in DOMAIN h[m].child : \E r \in B[h[m].child[k]] : p = <<k>> \o r
        BY <4>1 DEF Longer
      <4>3. PICK r \in B[h[m].child[k]] : p = <<k>> \o r
        BY <4>2
      <4> QED BY <2>4, <4>1, <4>3
    <3> QED BY <3>1, <3>2
  <2> HIDE DEF B
  <2>6. \A p : p \in B[m] <=> p \in Below(h, B, m)
    BY BelowIs, <2>3, <2>5
  <2> QED BY <2>6, Zenon
<1>4. Eq(B)
  <2>1. B = [m \in 0 .. Scope |-> B[m]]
    OBVIOUS
  <2> HIDE DEF B
  <2> QED BY <1>3, <2>1
<1>5. Eq(below)
  <2> HIDE DEF Eq
  <2> QED BY <1>4
<1> HIDE DEF below
<1>6. \A m \in 0 .. Scope : below[m] = Below(h, below, m)
  <2> QED BY <1>5
<1> DEFINE S == {m \in DOMAIN h : below[m] # B[m]}
<1>7. ASSUME NEW m \in 0 .. Scope, \A k, x : Edge(h, m, k, x) => below[x] = B[x]
      PROVE  below[m] = B[m]
  <2>1. Below(h, below, m) = Below(h, B, m)
    <3>1. CASE m \notin DOMAIN h
      BY <3>1 DEF Below
    <3>2. CASE m \in DOMAIN h
      <4>1. \A k \in DOMAIN h[m].child : below[h[m].child[k]] = B[h[m].child[k]]
        BY <1>2, <1>7, <3>2
      <4> HIDE DEF B
      <4>2. ASSUME NEW p PROVE p \in Below(h, below, m) <=> p \in Below(h, B, m)
        <5>1. /\ p \in Below(h, below, m) <=> p = << >> \/ Longer(h, below, m, p)
              /\ p \in Below(h, B, m) <=> p = << >> \/ Longer(h, B, m, p)
          BY BelowIs, <3>2
        <5>2. Longer(h, below, m, p) <=> Longer(h, B, m, p)
          BY <4>1 DEF Longer
        <5> QED BY <5>1, <5>2
      <4> QED BY <4>2, Zenon
    <3> QED BY <3>1, <3>2
  <2> HIDE DEF B
  <2> QED BY <1>3, <1>6, <2>1
<1>8. DOMAIN h \subseteq 0 .. Scope
  BY <1>1, MatDataAssumption DEF Forest, Scope
<1>9. S = {}
  <2>1. SUFFICES ASSUME S # {} PROVE FALSE
    OBVIOUS
  <2>2. PICK m \in S : \A k, x : Edge(h, m, k, x) => x \notin S
    BY <2>1 DEF Forest, Grounded
  <2>3. ASSUME NEW k, NEW x, Edge(h, m, k, x) PROVE below[x] = B[x]
    <3>1. x \notin S /\ x \in 0 .. Scope
      BY <1>1, <2>2, <2>3
    <3>2. CASE x \in DOMAIN h
      BY <3>1, <3>2
    <3>3. CASE x \notin DOMAIN h
      <4>1. \A j, y : ~ Edge(h, x, j, y)
        BY <3>3 DEF Edge
      <4> HIDE DEF B
      <4> QED BY <1>7, <3>1, <4>1
    <3> QED BY <3>2, <3>3
  <2>4. below[m] = B[m]
    <3> HIDE DEF B
    <3> QED BY <1>7, <1>8, <2>3
  <2> QED BY <2>2, <2>4
<1>10. below[n] = B[n]
  <2>1. CASE n \in DOMAIN h
    BY <1>9, <2>1
  <2>2. CASE n \notin DOMAIN h
    <3>1. \A j, y : ~ Edge(h, n, j, y)
      BY <2>2 DEF Edge
    <3> HIDE DEF B
    <3> QED BY <1>7, <3>1
  <2> QED BY <2>1, <2>2
<1>11. Addresses(h, n) = below[n]
  BY DEF Addresses, Below, below
<1> QED BY <1>10, <1>11

\* What an object owns: whatever its addresses lead to.
LEMMA OwnedIs ==
    ASSUME NEW h, IsHeap(h), NEW R, Forest(h, R), NEW n \in 0 .. Scope, NEW m
    PROVE  m \in Owned(h, n) <=> \E p \in Seq(Keys) : Leads(h, n, p, m)
<1>1. \A p : p \in Addresses(h, n) <=> p \in Seq(Keys) /\ \E x : Leads(h, n, p, x)
  BY AddressesAre
<1>2. m \in Owned(h, n) <=> \E p \in Addresses(h, n) : m = Follow(h, n, p)
  BY DEF Owned
<1>3. \A p \in Seq(Keys) : \A x : Leads(h, n, p, x) => Follow(h, n, p) = x
  BY RouteFollow
<1> QED BY <1>1, <1>2, <1>3

LEMMA OwnedTree ==
    ASSUME NEW h, IsHeap(h), NEW R, Forest(h, R), NEW n \in 0 .. Scope
    PROVE  Tree(h, n, Owned(h, n))
<1>1. n \in Owned(h, n)
  <2>1. << >> \in Seq(Keys) /\ Leads(h, n, << >>, n)
    BY LeadsEmpty
  <2> QED BY <2>1, OwnedIs
<1>2. ASSUME NEW m, NEW k, NEW x, m \in Owned(h, n), Edge(h, m, k, x)
      PROVE  x \in Owned(h, n)
  <2>1. PICK p \in Seq(Keys) : Leads(h, n, p, m)
    BY <1>2, OwnedIs
  <2>2. k \in Keys
    BY <1>2 DEF Edge, IsHeap
  <2>3. Append(p, k) \in Seq(Keys) /\ Leads(h, n, Append(p, k), x)
    BY <1>2, <2>1, <2>2, LeadsLast, AppendProperties
  <2> QED BY <2>3, OwnedIs
<1>3. ASSUME NEW m, m \in Owned(h, n), m # n
      PROVE  \E x, k : x \in Owned(h, n) /\ Edge(h, x, k, m)
  <2>1. PICK p \in Seq(Keys) : Leads(h, n, p, m)
    BY <1>3, OwnedIs
  <2>2. p # << >>
    BY <1>3, <2>1, LeadsEmpty
  <2>3. PICK s \in Seq(Keys), k \in Keys : p = Append(s, k)
    BY <2>1, <2>2, SequenceEmptyOrAppend
  <2>4. PICK x : Leads(h, n, s, x) /\ Edge(h, x, k, m)
    BY <2>1, <2>3, LeadsLast
  <2> QED BY <2>3, <2>4, OwnedIs
<1> QED BY <1>1, <1>2, <1>3 DEF Tree

\* A set that holds t and what its members own holds all that t owns.
LEMMA TreeLeast ==
    ASSUME NEW h, NEW R, Forest(h, R), NEW t, NEW D, Tree(h, t, D), NEW E, t \in E,
           \A n, k, m : n \in E /\ Edge(h, n, k, m) => m \in E
    PROVE  D \subseteq E
<1> DEFINE S == (D \cap DOMAIN h) \ E
<1>1. ASSUME NEW m \in D, m \notin E
      PROVE  \E n, k : n \in S /\ Edge(h, n, k, m)
  <2>1. PICK n, k : n \in D /\ Edge(h, n, k, m)
    BY <1>1 DEF Tree
  <2> QED BY <1>1, <2>1 DEF Edge
<1>2. S = {}
  <2>1. \A m \in S : \E n \in S : \E k : Edge(h, n, k, m)
    BY <1>1
  <2>2. S \subseteq DOMAIN h
    OBVIOUS
  <2> HIDE DEF S
  <2> QED BY <2>1, <2>2, Up
<1> QED BY <1>1, <1>2

LEMMA OwnedByNull ==
    ASSUME NEW h, IsHeap(h), NEW R, Forest(h, R), NEW n \in 0 .. Scope, n \notin DOMAIN h
    PROVE  Owned(h, n) = {n}
<1>1. Tree(h, n, Owned(h, n))
  BY OwnedTree
<1>2. Owned(h, n) \subseteq {n}
  <2>1. \A m, k, x : m \in {n} /\ Edge(h, m, k, x) => x \in {n}
    BY DEF Edge
  <2> QED BY <1>1, <2>1, TreeLeast
<1> QED BY <1>1, <1>2 DEF Tree

\* No object has two addresses.
LEMMA OneAddress ==
    ASSUME NEW h, NEW R, Forest(h, R), NEW p \in Seq(Keys), NEW q \in Seq(Keys), NEW m,
           Leads(h, Scope, p, m), Leads(h, Scope, q, m), m # Null
    PROVE  p = q
<1> DEFINE P == {s \in Seq(Keys) : \A r \in Seq(Keys) : \A x :
                    Leads(h, Scope, s, x) /\ Leads(h, Scope, r, x) /\ x # Null => s = r}
<1>1. ASSUME NEW r \in Seq(Keys), NEW x, Leads(h, Scope, r, x), x # Null, r # << >>
      PROVE  /\ x # Scope
             /\ \E s \in Seq(Keys), k \in Keys : \E y :
                   r = Append(s, k) /\ Leads(h, Scope, s, y) /\ Edge(h, y, k, x)
  <2>1. PICK s \in Seq(Keys), k \in Keys : r = Append(s, k)
    BY <1>1, SequenceEmptyOrAppend
  <2>2. PICK y : Leads(h, Scope, s, y) /\ Edge(h, y, k, x)
    BY <1>1, <2>1, LeadsLast
  <2>3. x # Scope
    BY <1>1, <2>2 DEF Forest
  <2> QED BY <2>1, <2>2, <2>3
<1>2. << >> \in P
  <2>1. ASSUME NEW r \in Seq(Keys), NEW x, Leads(h, Scope, << >>, x),
               Leads(h, Scope, r, x), x # Null
        PROVE  << >> = r
    BY <1>1, <2>1, LeadsEmpty
  <2>2. << >> \in Seq(Keys)
    OBVIOUS
  <2> QED BY <2>1, <2>2
<1>3. ASSUME NEW s \in Seq(Keys), NEW k \in Keys, s \in P PROVE Append(s, k) \in P
  <2>1. Append(s, k) \in Seq(Keys) /\ Append(s, k) # << >>
    BY AppendProperties
  <2>2. ASSUME NEW r \in Seq(Keys), NEW x, Leads(h, Scope, Append(s, k), x),
               Leads(h, Scope, r, x), x # Null
        PROVE  Append(s, k) = r
    <3>1. PICK y : Leads(h, Scope, s, y) /\ Edge(h, y, k, x)
      BY <2>2, LeadsLast
    <3>2. r # << >>
      <4>1. x # Scope
        BY <1>1, <2>1, <2>2
      <4> QED BY <2>2, <4>1, LeadsEmpty
    <3>3. PICK r0 \in Seq(Keys), k0 \in Keys :
             \E z : r = Append(r0, k0) /\ Leads(h, Scope, r0, z) /\ Edge(h, z, k0, x)
      BY <1>1, <2>2, <3>2
    <3>a. PICK y0 : r = Append(r0, k0) /\ Leads(h, Scope, r0, y0) /\ Edge(h, y0, k0, x)
      BY <3>3
    <3>4. y = y0 /\ k = k0 /\ y # Null
      BY <2>2, <3>1, <3>a DEF Forest, Null
    <3>5. s = r0
      BY <1>3, <3>1, <3>a, <3>4
    <3> QED BY <3>a, <3>4, <3>5
  <2> QED BY <2>1, <2>2
<1>4. Seq(Keys) \subseteq P
  <2> HIDE DEF P
  <2> QED BY <1>2, <1>3, SeqInduction
<1> QED BY <1>4

\* An address that stays outside of a closed set D keeps its meaning when only
\* pointers of D, or to D, change.
LEMMA SameRoute ==
    ASSUME NEW h, NEW g, NEW D,
           \A n, k, m : n \in D /\ Edge(h, n, k, m) => m \in D,
           \A n, k, m : Edge(h, n, k, m) /\ n \notin D /\ m \notin D => Edge(g, n, k, m),
           NEW r \in Seq(Keys), NEW a, NEW x, Leads(h, a, r, x), x \notin D
    PROVE  Leads(g, a, r, x)
<1> DEFINE P == {s \in Seq(Keys) : \A y : Leads(h, a, s, y) /\ y \notin D => Leads(g, a, s, y)}
<1>1. << >> \in P
  <2>1. << >> \in Seq(Keys)
    OBVIOUS
  <2> QED BY <2>1, LeadsEmpty
<1>2. ASSUME NEW s \in Seq(Keys), NEW k \in Keys, s \in P PROVE Append(s, k) \in P
  <2>1. Append(s, k) \in Seq(Keys)
    BY AppendProperties
  <2>2. ASSUME NEW y, Leads(h, a, Append(s, k), y), y \notin D
        PROVE  Leads(g, a, Append(s, k), y)
    <3>1. PICK z : Leads(h, a, s, z) /\ Edge(h, z, k, y)
      BY <2>2, LeadsLast
    <3>2. z \notin D
      BY <2>2, <3>1
    <3>3. Leads(g, a, s, z) /\ Edge(g, z, k, y)
      BY <1>2, <2>2, <3>1, <3>2
    <3> QED BY <3>3, LeadsLast
  <2> QED BY <2>1, <2>2
<1>3. Seq(Keys) \subseteq P
  <2> HIDE DEF P
  <2> QED BY <1>1, <1>2, SeqInduction
<1> QED BY <1>3

-----------------------------------------------------------------------------
(* What the operators on heaps do to the pointers.                            *)

LEMMA FrontLast ==
    ASSUME NEW S, NEW p \in Seq(S), p # << >>
    PROVE  Front(p) \in Seq(S) /\ Last(p) \in S /\ p = Append(Front(p), Last(p))
<1>1. PICK s \in Seq(S), k \in S : p = Append(s, k)
  BY SequenceEmptyOrAppend
<1>2. Last(p) = k /\ Len(p) = Len(s) + 1
  BY <1>1, AppendProperties DEF Last
<1>3. Front(p) = s
  <2> DEFINE l == Len(s)
             f == SubSeq(p, 1, l)
  <2>1. l \in Nat /\ \A i \in 1 .. l : p[i] = s[i] /\ s[i] \in S
    BY <1>1, AppendProperties, ElementOfSeq
  <2> HIDE DEF l
  <2>2. f \in Seq(S) /\ Len(f) = l /\ \A i \in 1 .. l : f[i] = p[i]
    <3>1. \A i \in 1 .. l : p[i] \in S
      BY <2>1
    <3>2. /\ f \in Seq(S) /\ Len(f) = IF 1 <= l THEN l - 1 + 1 ELSE 0
          /\ \A i \in 1 .. l - 1 + 1 : f[i] = p[1 + i - 1]
      BY <2>1, <3>1, SubSeqProperties
    <3> HIDE DEF f
    <3> QED BY <2>1, <3>2
  <2> HIDE DEF f
  <2>3. f = s
    BY <2>1, <2>2, SeqEqual DEF l
  <2>4. Len(p) - 1 = l
    BY <1>2, <2>1 DEF l
  <2> QED BY <2>3, <2>4 DEF Front, f
<1> QED BY <1>1, <1>2, <1>3

\* p is the address of a pointer of the object a.
Slot(h, p, a) ==
    /\ p \in Seq(Keys) /\ p # << >>
    /\ Leads(h, Scope, Front(p), a)
    /\ a \in DOMAIN h /\ Last(p) \in DOMAIN h[a].child

Target(h, p, a) == h[a].child[Last(p)]

LEMMA SlotFacts ==
    ASSUME NEW h, NEW p, NEW a, Slot(h, p, a)
    PROVE  /\ Front(p) \in Seq(Keys) /\ Last(p) \in Keys
           /\ Follow(h, Scope, Front(p)) = a
           /\ Follow(h, Scope, p) = Target(h, p, a)
           /\ Leads(h, Scope, p, Target(h, p, a))
           /\ Edge(h, a, Last(p), Target(h, p, a))
<1>1. p \in Seq(Keys) /\ p # << >> /\ Leads(h, Scope, Front(p), a)
  BY DEF Slot
<1>2. Front(p) \in Seq(Keys) /\ Last(p) \in Keys /\ p = Append(Front(p), Last(p))
  BY <1>1, FrontLast
<1>3. Edge(h, a, Last(p), Target(h, p, a))
  BY DEF Slot, Edge, Target
<1>4. Leads(h, Scope, p, Target(h, p, a))
  <2>1. Leads(h, Scope, Append(Front(p), Last(p)), Target(h, p, a))
    BY <1>1, <1>2, <1>3, LeadsLast
  <2> QED BY <1>2, <2>1
<1>5. Follow(h, Scope, Front(p)) = a /\ Follow(h, Scope, p) = Target(h, p, a)
  BY <1>1, <1>2, <1>4, RouteFollow
<1> QED BY <1>2, <1>3, <1>4, <1>5

\* The addresses of pointers are those of slots.
LEMMA PlaceSlot ==
    ASSUME NEW h, IsHeap(h), NEW R, Forest(h, R), NEW p \in Addresses(h, Scope) \ {<< >>}
    PROVE  \E a : Slot(h, p, a)
<1>1. Scope \in 0 .. Scope
  BY MatDataAssumption DEF Scope
<1>2. p \in Seq(Keys) /\ p # << >> /\ \E m : Leads(h, Scope, p, m)
  BY <1>1, AddressesAre
<1>3. Front(p) \in Seq(Keys) /\ Last(p) \in Keys /\ p = Append(Front(p), Last(p))
  BY <1>2, FrontLast
<1>4. PICK m : Leads(h, Scope, Append(Front(p), Last(p)), m)
  BY <1>2, <1>3
<1>5. PICK a : Leads(h, Scope, Front(p), a) /\ Edge(h, a, Last(p), m)
  BY <1>3, <1>4, LeadsLast
<1> QED BY <1>2, <1>5 DEF Slot, Edge

LEMMA SlotPlace ==
    ASSUME NEW h, IsHeap(h), NEW R, Forest(h, R), NEW p, NEW a, Slot(h, p, a)
    PROVE  p \in Addresses(h, Scope) \ {<< >>}
<1>1. Scope \in 0 .. Scope
  BY MatDataAssumption DEF Scope
<1>2. Leads(h, Scope, p, Target(h, p, a)) /\ p \in Seq(Keys) /\ p # << >>
  BY SlotFacts DEF Slot
<1> QED BY <1>1, <1>2, AddressesAre

SameLabels(g, h) == \A n \in DOMAIN g \cap DOMAIN h : g[n].label = h[n].label

\* g is h with another pointer at the slot key of a.
Points(g, h, a, key, t) ==
    /\ DOMAIN g = DOMAIN h /\ SameLabels(g, h)
    /\ \A n, k, m : Edge(g, n, k, m) <=> IF n = a /\ k = key THEN m = t ELSE Edge(h, n, k, m)

LEMMA PointingEffect ==
    ASSUME NEW h, IsHeap(h), NEW p, NEW a, Slot(h, p, a), NEW t, NEW g, g = Pointing(h, p, t)
    PROVE  IsHeap(g) /\ Points(g, h, a, Last(p), t)
<1> DEFINE key == Last(p)
           object == [h[a] EXCEPT !.child = [h[a].child EXCEPT ![key] = t]]
<1>1. a \in DOMAIN h /\ key \in DOMAIN h[a].child /\ IsObject(h[a])
  BY DEF Slot, IsHeap
<1>2. g = [h EXCEPT ![a] = object]
  BY SlotFacts DEF Pointing
<1>3. /\ object = [label |-> h[a].label, child |-> [h[a].child EXCEPT ![key] = t]]
      /\ object.label = h[a].label
      /\ object.child = [h[a].child EXCEPT ![key] = t]
  BY <1>1 DEF IsObject
<1>4. /\ DOMAIN object.child = DOMAIN h[a].child
      /\ object.child[key] = t
      /\ \A k \in DOMAIN h[a].child : k # key => object.child[k] = h[a].child[k]
      /\ IsObject(object)
  BY <1>1, <1>3 DEF IsObject
<1> HIDE DEF object, key
<1>5. /\ DOMAIN g = DOMAIN h /\ g[a] = object
      /\ \A n \in DOMAIN h : n # a => g[n] = h[n]
  BY <1>1, <1>2
<1>6. IsHeap(g)
  <2>1. ASSUME NEW n \in DOMAIN g PROVE IsObject(g[n]) /\ DOMAIN g[n].child \subseteq Keys
    BY <1>4, <1>5 DEF IsHeap
  <2>2. ASSUME NEW n \in DOMAIN g \ {Scope} PROVE IsValue(g[n])
    <3>1. CASE n = a
      <4>1. IsValue(h[a]) /\ h[a].label \notin Scalars
        <5>1. IsValue(h[a])
          BY <1>5, <2>2, <3>1 DEF IsHeap
        <5>2. DOMAIN << >> = {}
          OBVIOUS
        <5> QED BY <1>1, <5>1, <5>2 DEF IsValue
      <4> QED BY <1>3, <1>4, <1>5, <3>1, <4>1 DEF IsValue
    <3>2. CASE n # a
      BY <1>5, <2>2, <3>2 DEF IsHeap
    <3> QED BY <3>1, <3>2
  <2> QED BY <2>1, <2>2 DEF IsHeap
<1>7. SameLabels(g, h)
  BY <1>3, <1>5 DEF SameLabels
<1>8. ASSUME NEW n, NEW k, NEW m
      PROVE  Edge(g, n, k, m) <=> IF n = a /\ k = key THEN m = t ELSE Edge(h, n, k, m)
  <2>1. CASE n = a
    BY <1>1, <1>4, <1>5, <2>1 DEF Edge
  <2>2. CASE n # a
    BY <1>5, <2>2 DEF Edge
  <2> QED BY <2>1, <2>2
<1> QED BY <1>5, <1>6, <1>7, <1>8 DEF Points, key

\* An object is not among what one of its pointers owns.
LEMMA OwnerOutside ==
    ASSUME NEW h, NEW R, Forest(h, R), NEW a, NEW k, NEW t, Edge(h, a, k, t),
           NEW D, Tree(h, t, D)
    PROVE  a \notin D
<1>1. SUFFICES ASSUME a \in D PROVE FALSE
  OBVIOUS
<1> DEFINE S == D \cap DOMAIN h
<1>2. a \in S
  BY <1>1 DEF Edge
<1>3. ASSUME NEW m \in S PROVE \E n \in S : \E j : Edge(h, n, j, m)
  <2>1. CASE m = t
    BY <1>2, <2>1
  <2>2. CASE m # t
    <3>1. PICK n, j : n \in D /\ Edge(h, n, j, m)
      BY <2>2 DEF Tree
    <3> QED BY <3>1 DEF Edge
  <2> QED BY <2>1, <2>2
<1>4. S \subseteq DOMAIN h
  OBVIOUS
<1> HIDE DEF S
<1> QED BY <1>2, <1>3, <1>4, Up

\* Part of a heap.
LEMMA RestrictEffect ==
    ASSUME NEW h, IsHeap(h), NEW D, NEW g, g = Restrict(h, DOMAIN h \ D)
    PROVE  /\ IsHeap(g) /\ DOMAIN g = DOMAIN h \ D /\ SameLabels(g, h)
           /\ \A n, k, m : Edge(g, n, k, m) <=> Edge(h, n, k, m) /\ n \notin D
<1>1. DOMAIN g = DOMAIN h \ D /\ \A n \in DOMAIN g : g[n] = h[n]
  BY DEF Restrict
<1> QED BY <1>1 DEF IsHeap, SameLabels, Edge

\* What reset() leaves.
Freed(g, h, p, a, D) ==
    /\ DOMAIN g = DOMAIN h \ D /\ SameLabels(g, h)
    /\ \A n, k, m : Edge(g, n, k, m) <=>
          /\ n \notin D
          /\ IF n = a /\ k = Last(p) THEN m = Null ELSE Edge(h, n, k, m)

\* Whether a heap is a forest depends on its objects and pointers alone.
LEMMA SameForest ==
    ASSUME NEW h, NEW R, Forest(h, R), NEW g, DOMAIN g = DOMAIN h,
           \A n, k, m : Edge(g, n, k, m) <=> Edge(h, n, k, m)
    PROVE  Forest(g, R)
<1>1. Grounded(g)
  <2>1. Grounded(h)
    BY DEF Forest
  <2> QED BY <2>1 DEF Grounded
<1>2. /\ DOMAIN g \subseteq 1 .. Scope
      /\ R \subseteq DOMAIN g \ {Scope}
      /\ \A n, k, m : Edge(g, n, k, m) => n \in DOMAIN g
      /\ \A n, k, m : Edge(g, n, k, m) /\ m # Null => m \in DOMAIN g \ ({Scope} \cup R)
  BY DEF Forest
<1>3. /\ \A m, n1, k1, n2, k2 :
            Edge(g, n1, k1, m) /\ Edge(g, n2, k2, m) /\ m # Null => n1 = n2 /\ k1 = k2
      /\ \A m \in DOMAIN g \ ({Scope} \cup R) : \E n, k : Edge(g, n, k, m)
  BY DEF Forest
<1> QED BY <1>1, <1>2, <1>3 DEF Forest

LEMMA ResetEffect ==
    ASSUME NEW h, IsHeap(h), NEW R, Forest(h, R), NEW p, NEW a, Slot(h, p, a),
           NEW g, g = Reset(h, p)
    PROVE  /\ IsHeap(g) /\ Forest(g, R) /\ Slot(g, p, a)
           /\ Target(g, p, a) = Null
           /\ Freed(g, h, p, a, Owned(h, Target(h, p, a)))
           /\ a \notin Owned(h, Target(h, p, a))
<1> DEFINE t == Target(h, p, a)
           key == Last(p)
           D == Owned(h, t)
           f == Pointing(h, p, Null)
<1>1. /\ Follow(h, Scope, p) = t /\ Edge(h, a, key, t)
      /\ Front(p) \in Seq(Keys) /\ key \in Keys
  BY SlotFacts
<1>2. t \in 0 .. Scope
  <2>1. t = Null \/ t \in DOMAIN h
    BY <1>1 DEF Forest
  <2> QED BY <2>1, MatDataAssumption DEF Forest, Null, Scope
<1>3. Tree(h, t, D)
  BY <1>2, OwnedTree
<1>4. a \notin D
  BY <1>1, <1>3, OwnerOutside
<1> HIDE DEF t, key, D, f
<1>5. IsHeap(f) /\ Points(f, h, a, key, Null)
  BY PointingEffect DEF f, key
<1>6. g = Restrict(f, DOMAIN f \ D)
  BY <1>1, <1>5 DEF Reset, f, D, Points
<1>7. /\ IsHeap(g) /\ DOMAIN g = DOMAIN f \ D /\ SameLabels(g, f)
      /\ \A n, k, m : Edge(g, n, k, m) <=> Edge(f, n, k, m) /\ n \notin D
  BY <1>5, <1>6, RestrictEffect
<1>8. Freed(g, h, p, a, D)
  <2>1. DOMAIN g = DOMAIN h \ D /\ SameLabels(g, h)
    BY <1>5, <1>7 DEF Points, SameLabels
  <2>2. \A n, k, m : Edge(g, n, k, m) <=>
           n \notin D /\ IF n = a /\ k = key THEN m = Null ELSE Edge(h, n, k, m)
    BY <1>5, <1>7 DEF Points
  <2> QED BY <2>1, <2>2 DEF Freed, key
<1>9. Forest(g, R)
  <2>1. CASE t = Null
    <3>1. Null \notin DOMAIN h /\ Null \in 0 .. Scope
      BY MatDataAssumption DEF Forest, Null, Scope
    <3>2. D = {Null}
      BY <2>1, <3>1, OwnedByNull DEF D
    <3>3. \A n, k, m : Edge(g, n, k, m) <=> Edge(h, n, k, m)
      <4>1. ASSUME NEW n, NEW k, NEW m PROVE Edge(g, n, k, m) <=> Edge(h, n, k, m)
        <5>1. Edge(h, n, k, m) => n # Null
          BY <3>1 DEF Edge
        <5>2. Edge(h, a, key, m) <=> m = Null
          BY <1>1, <2>1 DEF Edge
        <5> QED BY <1>8, <3>2, <5>1, <5>2 DEF Freed, key
      <4> QED BY <4>1
    <3>4. DOMAIN g = DOMAIN h
      BY <1>8, <3>1, <3>2 DEF Freed
    <3> QED BY <3>3, <3>4, SameForest
  <2>2. CASE t # Null
    <3>1. \A n, k, m : Edge(f, n, k, m) => n \in DOMAIN h
      BY <1>5 DEF Points, Edge
    <3>2. \A n, k, m : m # Null => (Edge(f, n, k, m) <=> Edge(h, n, k, m) /\ m # t)
      <4>1. ASSUME NEW n, NEW k, NEW m, m # Null
            PROVE  Edge(f, n, k, m) <=> Edge(h, n, k, m) /\ m # t
        <5>1. CASE n = a /\ k = key
          <6>1. Edge(h, n, k, m) => m = t
            BY <1>1, <5>1 DEF Edge
          <6>2. ~ Edge(f, n, k, m)
            BY <1>5, <4>1, <5>1 DEF Points
          <6> QED BY <6>1, <6>2
        <5>2. CASE ~ (n = a /\ k = key)
          <6>1. Edge(h, n, k, m) => m # t
            BY <1>1, <2>2, <5>2 DEF Forest
          <6>2. Edge(f, n, k, m) <=> Edge(h, n, k, m)
            BY <1>5, <5>2 DEF Points
          <6> QED BY <6>1, <6>2
        <5> QED BY <5>1, <5>2
      <4> QED BY <4>1
    <3>3. DOMAIN f = DOMAIN h
      BY <1>5 DEF Points
    <3>4. Forest(f, R \cup {t})
      BY <1>1, <2>2, <3>1, <3>2, <3>3, DetachForest
    <3>5. t \in R \cup {t} /\ (R \cup {t}) \ {t} = R
      BY <1>1, <2>2 DEF Forest
    <3>6. Tree(f, t, D)
      <4>1. \A n, k, m : n \in D => (Edge(f, n, k, m) <=> Edge(h, n, k, m))
        BY <1>4, <1>5 DEF Points
      <4> QED BY <1>3, <4>1 DEF Tree
    <3>7. Forest(g, (R \cup {t}) \ {t})
      BY <1>7, <3>4, <3>5, <3>6, DropForest
    <3> QED BY <3>5, <3>7
  <2> QED BY <2>1, <2>2
<1>10. Leads(g, Scope, Front(p), a)
  <2>1. \A n, k, m : n \in D /\ Edge(h, n, k, m) => m \in D
    BY <1>3 DEF Tree
  <2>2. \A n, k, m : Edge(h, n, k, m) /\ n \notin D /\ m \notin D => Edge(g, n, k, m)
    <3>1. \A m : Edge(h, a, key, m) => m \in D
      BY <1>1, <1>3 DEF Edge, Tree
    <3> QED BY <1>8, <3>1 DEF Freed, key
  <2>3. Leads(h, Scope, Front(p), a)
    BY DEF Slot
  <2> QED BY <1>1, <1>4, <2>1, <2>2, <2>3, SameRoute
<1>11. Slot(g, p, a) /\ Target(g, p, a) = Null
  <2>1. Edge(g, a, key, Null)
    BY <1>4, <1>8 DEF Freed, key
  <2>2. p \in Seq(Keys) /\ p # << >>
    BY DEF Slot
  <2> QED BY <1>10, <2>1, <2>2 DEF Slot, Edge, Target, key
<1> QED BY <1>4, <1>7, <1>8, <1>9, <1>11 DEF D, t

\* New objects beside those of the heap.
Added(g, h, o) ==
    /\ DOMAIN g = DOMAIN h \cup DOMAIN o
    /\ SameLabels(g, h) /\ SameLabels(g, o)
    /\ \A n, k, m : Edge(g, n, k, m) <=> Edge(h, n, k, m) \/ Edge(o, n, k, m)

LEMMA AddEffect ==
    ASSUME NEW h, IsHeap(h), NEW o, IsHeap(o), DOMAIN h \cap DOMAIN o = {},
           NEW g, g = Extended(h, o)
    PROVE  IsHeap(g) /\ Added(g, h, o)
<1>1. /\ DOMAIN g = DOMAIN h \cup DOMAIN o
      /\ \A n \in DOMAIN h : g[n] = h[n]
      /\ \A n \in DOMAIN o : g[n] = o[n]
  BY DEF Extended
<1>2. SameLabels(g, h) /\ SameLabels(g, o) /\ IsHeap(g)
  BY <1>1 DEF SameLabels, IsHeap
<1>3. \A n, k, m : Edge(g, n, k, m) <=> Edge(h, n, k, m) \/ Edge(o, n, k, m)
  BY <1>1 DEF Edge
<1> QED BY <1>1, <1>2, <1>3 DEF Added

\* A tree of objects that nobody owns yet, or the null pointer.
IsTree(t, o) ==
    /\ IsHeap(o) /\ Scope \notin DOMAIN o
    /\ \/ t = Null /\ DOMAIN o = {}
       \/ t \in DOMAIN o /\ Forest(o, {t})

\* The heap grows: every address keeps its meaning.
LEMMA MoreRoutes ==
    ASSUME NEW h, NEW g, \A n, k, m : Edge(h, n, k, m) => Edge(g, n, k, m),
           NEW n, NEW p \in Seq(Keys), NEW m, Leads(h, n, p, m)
    PROVE  Leads(g, n, p, m)
<1> DEFINE D == {}
<1>1. \A x, k, y : x \in D /\ Edge(h, x, k, y) => y \in D
  OBVIOUS
<1>2. \A x, k, y : Edge(h, x, k, y) /\ x \notin D /\ y \notin D => Edge(g, x, k, y)
  OBVIOUS
<1>3. m \notin D
  OBVIOUS
<1> HIDE DEF D
<1> QED BY <1>1, <1>2, <1>3, SameRoute

\* The pointer at p takes a tree.
Gave(g, h, p, a, t, o) ==
    /\ DOMAIN g = DOMAIN h \cup DOMAIN o
    /\ SameLabels(g, h) /\ SameLabels(g, o)
    /\ \A n, k, m : Edge(g, n, k, m) <=>
          IF n = a /\ k = Last(p) THEN m = t ELSE Edge(h, n, k, m) \/ Edge(o, n, k, m)

\* The new objects own none of those there were.
LEMMA NewApart ==
    ASSUME NEW h, NEW R, Forest(h, R), NEW o, NEW t \in DOMAIN o, Forest(o, {t}),
           DOMAIN h \cap DOMAIN o = {}, Scope \notin DOMAIN o,
           NEW e, IsHeap(e), Added(e, h, o)
    PROVE  /\ Forest(e, R \cup {t}) /\ Tree(e, t, Owned(e, t))
           /\ Owned(e, t) \cap DOMAIN h = {} /\ t \notin R
<1> DEFINE D == Owned(e, t)
           E == DOMAIN o \cup {Null}
<1>1. /\ DOMAIN e = DOMAIN h \cup DOMAIN o
      /\ \A n, k, m : Edge(e, n, k, m) <=> Edge(h, n, k, m) \/ Edge(o, n, k, m)
  BY DEF Added
<1>2. Forest(e, R \cup {t})
  BY <1>1, AddForest
<1>3. t \in 0 .. Scope
  BY <1>1, <1>2, MatDataAssumption DEF Forest, Scope
<1>4. Tree(e, t, D)
  BY <1>2, <1>3, OwnedTree
<1>5. Null \notin DOMAIN h /\ Null \notin DOMAIN o
  BY DEF Forest, Null
<1>6. \A n, k, m : n \in E /\ Edge(e, n, k, m) => m \in E
  <2>1. ASSUME NEW n, NEW k, NEW m, n \in E, Edge(e, n, k, m) PROVE m \in E
    <3>1. Edge(o, n, k, m)
      BY <1>1, <1>5, <2>1 DEF Edge
    <3> QED BY <3>1 DEF Forest
  <2> QED BY <2>1
<1>7. t \in E
  OBVIOUS
<1>8. D \subseteq E
  <2> HIDE DEF D, E
  <2> QED BY <1>2, <1>4, <1>6, <1>7, TreeLeast
<1>9. D \cap DOMAIN h = {} /\ t \notin R
  <2>1. t \notin R
    BY DEF Forest
  <2> HIDE DEF D
  <2> QED BY <1>5, <1>8, <2>1
<1> QED BY <1>2, <1>4, <1>9

LEMMA GivenEffect ==
    ASSUME NEW h, IsHeap(h), NEW R, Forest(h, R), NEW p, NEW a, Slot(h, p, a),
           Target(h, p, a) = Null, NEW tree, IsTree(tree.ptr, tree.objects),
           DOMAIN h \cap DOMAIN tree.objects = {}, NEW g, g = Given(h, p, tree)
    PROVE  /\ IsHeap(g) /\ Forest(g, R) /\ Slot(g, p, a)
           /\ Target(g, p, a) = tree.ptr
           /\ Gave(g, h, p, a, tree.ptr, tree.objects)
<1> DEFINE t == tree.ptr
           o == tree.objects
           key == Last(p)
           e == Extended(h, o)
<1>1. /\ IsHeap(o) /\ Scope \notin DOMAIN o
      /\ \/ t = Null /\ DOMAIN o = {}
         \/ t \in DOMAIN o /\ Forest(o, {t})
  BY Zenon DEF IsTree
<1>2. g = Pointing(e, p, t) /\ DOMAIN h \cap DOMAIN o = {}
  BY DEF Given
<1> HIDE DEF t, o, key
<1>3. IsHeap(e) /\ Added(e, h, o)
  BY <1>1, <1>2, AddEffect
<1> HIDE DEF e
<1>4. /\ DOMAIN e = DOMAIN h \cup DOMAIN o
      /\ \A n, k, m : Edge(e, n, k, m) <=> Edge(h, n, k, m) \/ Edge(o, n, k, m)
  BY <1>3 DEF Added
<1>5. /\ Front(p) \in Seq(Keys) /\ key \in Keys /\ Edge(h, a, key, Null)
      /\ p \in Seq(Keys) /\ p # << >> /\ Leads(h, Scope, Front(p), a) /\ a \in DOMAIN h
  BY SlotFacts DEF Slot, key
<1>6. Slot(e, p, a)
  <2>1. Leads(e, Scope, Front(p), a)
    BY <1>4, <1>5, MoreRoutes
  <2>2. Edge(e, a, key, Null)
    BY <1>4, <1>5
  <2> QED BY <1>5, <2>1, <2>2 DEF Slot, Edge, key
<1>7. IsHeap(g) /\ Points(g, e, a, key, t)
  BY <1>2, <1>3, <1>6, PointingEffect DEF key
<1>8. Null \notin DOMAIN h /\ Null \notin DOMAIN o /\ a # Null
  <2>1. Null \notin DOMAIN h /\ Null \notin DOMAIN o
    BY <1>1 DEF Forest, Null
  <2> QED BY <1>5, <2>1
<1>9. \A m : Edge(e, a, key, m) => m = Null
  <2>1. a \notin DOMAIN o
    BY <1>2, <1>5
  <2> QED BY <1>4, <1>5, <2>1 DEF Edge
<1>10. Forest(g, R)
  <2>1. CASE DOMAIN o = {}
    <3>1. t = Null
      BY <1>1, <2>1
    <3>2. \A n, k, m : Edge(e, n, k, m) <=> Edge(h, n, k, m)
      BY <1>4, <2>1 DEF Edge
    <3>3. \A n, k, m : Edge(g, n, k, m) <=> Edge(h, n, k, m)
      <4>1. ASSUME NEW n, NEW k, NEW m PROVE Edge(g, n, k, m) <=> Edge(e, n, k, m)
        <5>1. Edge(e, a, key, Null)
          BY <1>5, <3>2
        <5> QED BY <1>7, <1>9, <3>1, <5>1 DEF Points
      <4> QED BY <3>2, <4>1
    <3>4. DOMAIN g = DOMAIN h
      BY <1>4, <1>7, <2>1 DEF Points
    <3> QED BY <3>3, <3>4, SameForest
  <2>2. CASE DOMAIN o # {}
    <3>1. t \in DOMAIN o /\ Forest(o, {t})
      BY <1>1, <2>2
    <3> DEFINE D == Owned(e, t)
    <3>2. Forest(e, R \cup {t}) /\ Tree(e, t, D) /\ D \cap DOMAIN h = {} /\ t \notin R
      BY <1>1, <1>2, <1>3, <3>1, NewApart
    <3> HIDE DEF D
    <3>7. a \notin D
      BY <1>5, <3>2
    <3>8. /\ DOMAIN g = DOMAIN e /\ a \in DOMAIN e /\ t \in R \cup {t}
          /\ \A n, k, m : Edge(g, n, k, m) => n \in DOMAIN e
      BY <1>4, <1>5, <1>7 DEF Points, Edge
    <3>9. Takes(g, e, a, key, t)
      BY <1>7, <1>9 DEF Points, Takes
    <3>10. Forest(g, (R \cup {t}) \ {t})
      BY <3>2, <3>7, <3>8, <3>9, AttachForest
    <3>11. (R \cup {t}) \ {t} = R
      BY <3>2
    <3> QED BY <3>10, <3>11
  <2> QED BY <2>1, <2>2
<1>11. Leads(g, Scope, Front(p), a)
  <2> DEFINE D == {Null}
  <2>1. \A n, k, m : n \in D /\ Edge(e, n, k, m) => m \in D
    BY <1>4, <1>8 DEF Edge
  <2>2. \A n, k, m : Edge(e, n, k, m) /\ n \notin D /\ m \notin D => Edge(g, n, k, m)
    BY <1>7, <1>9 DEF Points
  <2>3. a \notin D
    BY <1>8
  <2>4. Leads(e, Scope, Front(p), a)
    BY <1>6 DEF Slot
  <2> HIDE DEF D
  <2> QED BY <1>5, <2>1, <2>2, <2>3, <2>4, SameRoute
<1>12. Slot(g, p, a) /\ Target(g, p, a) = t
  <2>1. Edge(g, a, key, t)
    BY <1>7 DEF Points
  <2> QED BY <1>5, <1>11, <2>1 DEF Slot, Edge, Target, key
<1>13. Gave(g, h, p, a, t, o)
  <2>1. DOMAIN g = DOMAIN h \cup DOMAIN o /\ SameLabels(g, h) /\ SameLabels(g, o)
    BY <1>3, <1>4, <1>7 DEF Points, Added, SameLabels
  <2>2. \A n, k, m : Edge(g, n, k, m) <=>
           IF n = a /\ k = key THEN m = t ELSE Edge(h, n, k, m) \/ Edge(o, n, k, m)
    BY <1>4, <1>7 DEF Points
  <2> QED BY <2>1, <2>2 DEF Gave, key
<1> QED BY <1>7, <1>10, <1>12, <1>13 DEF t, o

-----------------------------------------------------------------------------
(* New objects.                                                               *)

LEMMA NewIs ==
    ASSUME NEW h, NEW S, S \subseteq Int, IsFiniteSet(S), Fits(h, Cardinality(S))
    PROVE  /\ New(h, S) \in [S -> Free(h)]
           /\ \A x, y \in S : New(h, S)[x] = New(h, S)[y] => x = y
           /\ Free(h) \subseteq 1 .. MaxNodes /\ Free(h) \cap DOMAIN h = {}
<1> DEFINE F == Free(h)
           id == New(h, S)
           Same(x, m) == Position(F, x) = Position(S, m)
<1>1. F \subseteq 1 .. MaxNodes /\ F \cap DOMAIN h = {}
  BY DEF Free
<1>2. F \subseteq Int /\ IsFiniteSet(F)
  <2>1. IsFiniteSet(1 .. MaxNodes) /\ 1 .. MaxNodes \subseteq Int
    BY MatDataAssumption, FS_Interval
  <2> HIDE DEF F
  <2>2. IsFiniteSet(F)
    BY <1>1, <2>1, FS_Subset
  <2> QED BY <1>1, <2>1, <2>2
<1>3. Cardinality(S) <= Cardinality(F)
  BY DEF Fits
<1>4. id = [m \in S |-> CHOOSE x \in F : Same(x, m)]
  BY DEF New, Position
<1> HIDE DEF F, id
<1>5. ASSUME NEW m \in S PROVE \E x \in F : Same(x, m)
  <2>1. Position(S, m) \in 0 .. Cardinality(S) - 1 /\ Cardinality(S) \in Nat
    BY Positions
  <2>2. /\ Cardinality(F) \in Nat
        /\ \A i \in 0 .. Cardinality(F) - 1 : \E x \in F : Position(F, x) = i
    BY <1>2, Positions
  <2>3. Position(S, m) \in 0 .. Cardinality(F) - 1
    BY <1>3, <2>1, <2>2
  <2> QED BY <2>2, <2>3
<1> HIDE DEF Same
<1>6. \A m \in S : id[m] \in F /\ Same(id[m], m)
  BY <1>4, <1>5
<1>7. id \in [S -> F]
  BY <1>4, <1>6
<1>8. ASSUME NEW x \in S, NEW y \in S, id[x] = id[y] PROVE x = y
  <2>1. Position(S, x) = Position(S, y)
    BY <1>6, <1>8 DEF Same
  <2> QED BY <2>1, Positions
<1> QED BY <1>1, <1>7, <1>8 DEF F, id

LEMMA EmptyFunction ==
    ASSUME NEW f, NEW g, f = [k \in DOMAIN g |-> f[k]], g = << >>
    PROVE  f = << >>
<1>1. DOMAIN g = {} /\ g = [k \in DOMAIN g |-> g[k]]
  OBVIOUS
<1> QED BY <1>1

\* The owner of the pointers of a new object, and no more.
LEMMA MadeEffect ==
    ASSUME NEW h, NEW label \in Labels, NEW size \in Nat, Fits(h, 1 + size),
           label \in Scalars => size = 0
    PROVE  /\ IsTree(Made(h, label, size).ptr, Made(h, label, size).objects)
           /\ Made(h, label, size).ptr \in DOMAIN Made(h, label, size).objects
           /\ DOMAIN Made(h, label, size).objects \subseteq Free(h)
           /\ DOMAIN h \cap DOMAIN Made(h, label, size).objects = {}
<1> DEFINE S == 0 .. size
           id == New(h, S)
           root == [label |-> label, child |-> [k \in 1 .. size |-> id[k]]]
           leaf == [label |-> Zero, child |-> << >>]
           o == [m \in Range(id) |-> IF m = id[0] THEN root ELSE leaf]
           t == id[0]
<1>1. /\ id \in [S -> Free(h)]
      /\ \A x, y \in S : id[x] = id[y] => x = y
      /\ Free(h) \subseteq 1 .. MaxNodes /\ Free(h) \cap DOMAIN h = {}
  <2>1. S \subseteq Int /\ IsFiniteSet(S) /\ Cardinality(S) = 1 + size
    <3>1. size - 0 + 1 = 1 + size /\ 0 <= size
      OBVIOUS
    <3> QED BY <3>1, FS_Interval
  <2> QED BY <2>1, NewIs
<1>2. Made(h, label, size).ptr = t /\ Made(h, label, size).objects = o
  BY DEF Made
<1>3. /\ 0 \in S /\ \A k \in 1 .. size : k \in S /\ k # 0
      /\ \A k \in S : k = 0 \/ k \in 1 .. size
  OBVIOUS
<1>4. DOMAIN root.child = 1 .. size /\ \A k \in 1 .. size : root.child[k] = id[k]
  OBVIOUS
<1>5. IsObject(root) /\ IsObject(leaf) /\ root.label = label /\ leaf.label = Zero /\ leaf.child = << >>
  BY DEF IsObject
<1>6. label \in Scalars => root.child = << >>
  <2>1. ASSUME label \in Scalars PROVE root.child = << >>
    <3>1. DOMAIN root.child = {} /\ root.child = [k \in 1 .. 0 |-> id[k]]
      BY <2>1
    <3> QED BY <3>1
  <2> QED BY <2>1
<1> HIDE DEF id, root, leaf, S
<1>7. /\ DOMAIN o = Range(id) /\ t \in Range(id) /\ o[t] = root
      /\ \A m \in Range(id) : m # t => o[m] = leaf
      /\ \A m : m \in Range(id) <=> \E k \in S : m = id[k]
  BY <1>1, <1>3 DEF Range
<1> HIDE DEF o, t
<1>8. Range(id) \subseteq Free(h) /\ Scope \notin DOMAIN o /\ Null \notin DOMAIN o
  <2>1. Range(id) \subseteq Free(h)
    BY <1>1, <1>7
  <2> QED BY <1>1, <1>7, <2>1, MatDataAssumption DEF Scope, Null
<1>9. \A n, k, m : Edge(o, n, k, m) <=> n = t /\ k \in 1 .. size /\ m = id[k]
  <2>1. ASSUME NEW n, NEW k, NEW m
        PROVE  Edge(o, n, k, m) <=> n = t /\ k \in 1 .. size /\ m = id[k]
    <3>1. CASE n = t
      BY <1>4, <1>7, <3>1 DEF Edge
    <3>2. CASE n # t
      <4>1. DOMAIN << >> = {}
        OBVIOUS
      <4> QED BY <1>5, <1>7, <3>2, <4>1 DEF Edge
    <3> QED BY <3>1, <3>2
  <2> QED BY <2>1
<1>10. IsHeap(o)
  <2>1. Zero \in Labels /\ Zero \in Scalars
    BY MatDataAssumption DEF Labels
  <2>2. DOMAIN << >> = {}
    OBVIOUS
  <2>3. 1 .. size \subseteq Nat
    OBVIOUS
  <2>4. IsValue(root) /\ IsValue(leaf)
    BY <1>4, <1>5, <1>6, <2>1, <2>2, <2>3 DEF IsValue
  <2>5. \A n \in DOMAIN o : o[n] = root \/ o[n] = leaf
    BY <1>7
  <2>6. DOMAIN root.child \subseteq Keys /\ DOMAIN leaf.child \subseteq Keys
    BY <1>4, <1>5, <2>2, <2>3 DEF Keys
  <2> QED BY <1>5, <2>4, <2>5, <2>6 DEF IsHeap
<1>11. Forest(o, {t})
  <2>1. DOMAIN o \subseteq 1 .. Scope
    BY <1>1, <1>7, <1>8, MatDataAssumption DEF Scope
  <2>2. {t} \subseteq DOMAIN o \ {Scope}
    BY <1>7, <1>8
  <2>3. ASSUME NEW k \in 1 .. size PROVE id[k] \in DOMAIN o /\ id[k] # t /\ id[k] # Scope
    <3>1. id[k] # t
      BY <1>1, <1>3 DEF t
    <3> QED BY <1>3, <1>7, <1>8, <3>1
  <2>4. \A n, k, m : Edge(o, n, k, m) => n \in DOMAIN o
    BY <1>7, <1>9
  <2>5. \A n, k, m : Edge(o, n, k, m) /\ m # Null => m \in DOMAIN o \ ({Scope} \cup {t})
    BY <1>9, <2>3
  <2>6. \A m, n1, k1, n2, k2 :
           Edge(o, n1, k1, m) /\ Edge(o, n2, k2, m) /\ m # Null => n1 = n2 /\ k1 = k2
    BY <1>1, <1>3, <1>9
  <2>7. ASSUME NEW m \in DOMAIN o \ ({Scope} \cup {t}) PROVE \E n, k : Edge(o, n, k, m)
    <3>1. PICK k \in S : m = id[k]
      BY <1>7
    <3>2. k \in 1 .. size
      BY <1>3, <3>1 DEF t
    <3> QED BY <1>9, <3>1, <3>2
  <2>8. Grounded(o)
    <3>1. ASSUME NEW X \in SUBSET DOMAIN o, X # {}
          PROVE  \E m \in X : \A k, x : Edge(o, m, k, x) => x \notin X
      <4>1. CASE X = {t}
        BY <1>9, <2>3, <4>1
      <4>2. CASE X # {t}
        <5>1. PICK m \in X : m # t
          BY <3>1, <4>2
        <5> QED BY <1>9, <5>1
      <4> QED BY <4>1, <4>2
    <3> QED BY <3>1 DEF Grounded
  <2> QED BY <2>1, <2>2, <2>4, <2>5, <2>6, <2>7, <2>8 DEF Forest
<1>12. IsTree(t, o) /\ t \in DOMAIN o /\ DOMAIN o \subseteq Free(h) /\ DOMAIN h \cap DOMAIN o = {}
  BY <1>1, <1>7, <1>8, <1>10, <1>11 DEF IsTree
<1> QED BY <1>2, <1>12

\* The copy has the objects alive that n owns, each once, and pointers between
\* them like those of the originals.
Copied(o, h, id) ==
    /\ DOMAIN o = {id[m] : m \in DOMAIN id}
    /\ \A m \in DOMAIN id : o[id[m]].label = h[m].label
    /\ \A x, k, y : Edge(o, x, k, y) <=>
          \E m \in DOMAIN id : \E z : /\ x = id[m] /\ Edge(h, m, k, z)
                                      /\ y = IF z \in DOMAIN id THEN id[z] ELSE Null

LEMMA CloneEffect ==
    ASSUME NEW h, IsHeap(h), NEW R, Forest(h, R), NEW n \in 0 .. Scope, n # Scope,
           Fits(h, Cardinality(Owned(h, n) \cap DOMAIN h))
    PROVE  /\ IsTree(Clone(h, n).ptr, Clone(h, n).objects)
           /\ n \in DOMAIN h => Clone(h, n).ptr \in DOMAIN Clone(h, n).objects
           /\ DOMAIN Clone(h, n).objects \subseteq Free(h)
           /\ DOMAIN h \cap DOMAIN Clone(h, n).objects = {}
           /\ Copied(Clone(h, n).objects, h, New(h, Owned(h, n) \cap DOMAIN h))
<1> DEFINE D == Owned(h, n)
           S == D \cap DOMAIN h
           id == New(h, S)
           Copy(m) == IF m \in DOMAIN id THEN id[m] ELSE Null
           original(x) == h[AntiFunction(id)[x]]
           o == [x \in Range(id) |->
                    [original(x) EXCEPT !.child = [k \in DOMAIN original(x).child |-> Copy(original(x).child[k])]]]
           t == Copy(n)
           value(m) == [label |-> h[m].label, child |-> [k \in DOMAIN h[m].child |-> Copy(h[m].child[k])]]
<1>1. Tree(h, n, D)
  BY OwnedTree
<1>2. /\ id \in [S -> Free(h)]
      /\ \A x, y \in S : id[x] = id[y] => x = y
      /\ Free(h) \subseteq 1 .. MaxNodes /\ Free(h) \cap DOMAIN h = {}
  <2>1. S \subseteq 1 .. Scope /\ IsFiniteSet(1 .. Scope) /\ 1 .. Scope \subseteq Int
    BY MatDataAssumption, FS_Interval DEF Forest, Scope
  <2> HIDE DEF S
  <2>2. IsFiniteSet(S)
    BY <2>1, FS_Subset
  <2>3. Fits(h, Cardinality(S))
    BY DEF S
  <2> QED BY <2>1, <2>2, <2>3, NewIs
<1>3. Clone(h, n).ptr = t /\ Clone(h, n).objects = o
  BY DEF Clone
<1> HIDE DEF id
<1>4. DOMAIN id = S /\ DOMAIN o = Range(id) /\ \A x : x \in Range(id) <=> \E m \in S : x = id[m]
  BY <1>2 DEF Range
<1>5. ASSUME NEW m \in S PROVE AntiFunction(id)[id[m]] = m
  <2>1. id[m] \in Range(id)
    BY <1>4
  <2>2. AntiFunction(id)[id[m]] = CHOOSE s \in S : id[m] \in Range(id) => id[s] = id[m]
    BY <1>4, <2>1 DEF AntiFunction, Inverse
  <2> HIDE DEF S
  <2>3. \E s \in S : id[m] \in Range(id) => id[s] = id[m]
    OBVIOUS
  <2> QED BY <1>2, <2>1, <2>2, <2>3
<1> HIDE DEF D, S, Copy
<1>6. ASSUME NEW m \in S PROVE o[id[m]] = value(m)
  <2>1. id[m] \in Range(id) /\ original(id[m]) = h[m]
    BY <1>4, <1>5
  <2>2. o[id[m]] = [h[m] EXCEPT !.child = [k \in DOMAIN h[m].child |-> Copy(h[m].child[k])]]
    BY <2>1
  <2>3. IsObject(h[m])
    BY DEF IsHeap, S
  <2> QED BY <2>2, <2>3 DEF IsObject
<1>7. ASSUME NEW m \in S
      PROVE  /\ o[id[m]].label = h[m].label /\ IsObject(o[id[m]])
             /\ DOMAIN o[id[m]].child = DOMAIN h[m].child
             /\ \A k \in DOMAIN h[m].child : o[id[m]].child[k] = Copy(h[m].child[k])
             /\ o[id[m]].child = [k \in DOMAIN h[m].child |-> o[id[m]].child[k]]
  <2>1. o[id[m]] = value(m)
    BY <1>6
  <2> HIDE DEF o
  <2> QED BY <2>1 DEF IsObject
<1> HIDE DEF o, value
<1>8. \A m \in S : m \in D /\ m \in DOMAIN h /\ m # Null /\ id[m] \in 1 .. MaxNodes
  <2>1. \A m \in S : m \in D /\ m \in DOMAIN h /\ m # Null
    BY DEF S, Forest, Null
  <2> QED BY <1>2, <2>1
<1>9. \A m \in S : id[m] # Null /\ id[m] # Scope
  BY <1>8, MatDataAssumption DEF Null, Scope
<1>10. \A m : m \in S => Copy(m) = id[m]
  BY <1>4 DEF Copy
<1>11. \A m : m \notin S => Copy(m) = Null
  BY <1>4 DEF Copy
<1>12. \A x, k, y : Edge(o, x, k, y) <=> \E m \in S : \E z : x = id[m] /\ Edge(h, m, k, z) /\ y = Copy(z)
  <2>1. ASSUME NEW x, NEW k, NEW y, Edge(o, x, k, y)
        PROVE  \E m \in S : \E z : x = id[m] /\ Edge(h, m, k, z) /\ y = Copy(z)
    <3>1. PICK m \in S : x = id[m]
      BY <1>4, <2>1 DEF Edge
    <3>2. Edge(h, m, k, h[m].child[k]) /\ y = Copy(h[m].child[k])
      BY <1>7, <1>8, <2>1, <3>1 DEF Edge
    <3> QED BY <3>1, <3>2
  <2>2. ASSUME NEW m \in S, NEW k, NEW z, Edge(h, m, k, z)
        PROVE  Edge(o, id[m], k, Copy(z))
    BY <1>4, <1>7, <2>2 DEF Edge
  <2> QED BY <2>1, <2>2
<1>13. \A m, k, z : m \in S /\ Edge(h, m, k, z) => z # n /\ (Copy(z) # Null => z \in S /\ Copy(z) = id[z])
  <2>1. ASSUME NEW m \in S, NEW k, NEW z, Edge(h, m, k, z)
        PROVE  z # n
    <3>1. m \in D
      BY <1>8
    <3> QED BY <1>1, <2>1, <3>1, OwnerOutside
  <2> QED BY <1>10, <1>11, <2>1
<1>14. Copied(o, h, id)
  <2>1. DOMAIN o = {id[m] : m \in DOMAIN id}
    BY <1>4
  <2>2. \A m \in DOMAIN id : o[id[m]].label = h[m].label
    BY <1>4, <1>7
  <2>3. \A z : Copy(z) = IF z \in DOMAIN id THEN id[z] ELSE Null
    BY DEF Copy
  <2>4. \A x, k, y : Edge(o, x, k, y) <=>
           \E m \in DOMAIN id : \E z : /\ x = id[m] /\ Edge(h, m, k, z)
                                       /\ y = IF z \in DOMAIN id THEN id[z] ELSE Null
    BY <1>4, <1>12, <2>3
  <2> QED BY <2>1, <2>2, <2>4 DEF Copied
<1>15. IsHeap(o)
  <2>1. ASSUME NEW x \in DOMAIN o PROVE IsObject(o[x]) /\ DOMAIN o[x].child \subseteq Keys /\ IsValue(o[x])
    <3>1. PICK m \in S : x = id[m]
      BY <1>4
    <3>2. m # Scope
      <4>1. Scope \notin D
        BY <1>1, TreeFacts
      <4> QED BY <1>8, <4>1
    <3>3. DOMAIN h[m].child \subseteq Keys /\ IsValue(h[m])
      BY <1>8, <3>2 DEF IsHeap
    <3>4. h[m].label \in Scalars => o[x].child = << >>
      <4>1. SUFFICES ASSUME h[m].label \in Scalars PROVE o[x].child = << >>
        OBVIOUS
      <4>2. h[m].child = << >>
        BY <3>3, <4>1 DEF IsValue
      <4>3. o[x].child = [k \in DOMAIN h[m].child |-> o[x].child[k]]
        BY <1>7, <3>1
      <4> QED BY <4>2, <4>3, EmptyFunction
    <3> QED BY <1>7, <3>1, <3>3, <3>4 DEF IsValue
  <2> QED BY <2>1 DEF IsHeap
<1>16. Scope \notin DOMAIN o /\ DOMAIN o \subseteq Free(h) /\ DOMAIN h \cap DOMAIN o = {}
  <2>1. Scope \notin DOMAIN o
    BY <1>4, <1>9
  <2>2. DOMAIN o \subseteq Free(h)
    BY <1>2, <1>4
  <2> QED BY <1>2, <2>1, <2>2
<1>17. CASE n \notin DOMAIN h
  <2>1. D = {n}
    BY <1>17, OwnedByNull DEF D
  <2>2. S = {}
    BY <1>17, <2>1 DEF S
  <2>3. t = Null /\ DOMAIN o = {}
    BY <1>4, <1>11, <2>2
  <2> HIDE DEF t
  <2>4. IsTree(t, o)
    BY <1>15, <1>16, <2>3 DEF IsTree
  <2> QED BY <1>3, <1>14, <1>16, <1>17, <2>4 DEF id, S, D
<1>18. CASE n \in DOMAIN h
  <2>1. n \in S /\ t = id[n] /\ t \in DOMAIN o /\ t # Scope
    <3>1. n \in S
      BY <1>1, <1>18 DEF Tree, S
    <3> QED BY <1>4, <1>9, <1>10, <3>1
  <2> HIDE DEF t
  <2>2. Forest(o, {t})
    <3>1. DOMAIN o \subseteq 1 .. Scope
      BY <1>2, <1>16, MatDataAssumption DEF Scope
    <3>2. {t} \subseteq DOMAIN o \ {Scope}
      BY <2>1
    <3>3. \A x, k, y : Edge(o, x, k, y) => x \in DOMAIN o
      BY DEF Edge
    <3>4. ASSUME NEW x, NEW k, NEW y, Edge(o, x, k, y), y # Null
          PROVE  /\ y \in DOMAIN o \ ({Scope} \cup {t})
                 /\ \E m, z : m \in S /\ z \in S /\ x = id[m] /\ y = id[z] /\ Edge(h, m, k, z)
      <4>1. PICK m, z : m \in S /\ x = id[m] /\ Edge(h, m, k, z) /\ y = Copy(z)
        BY <1>12, <3>4
      <4>2. z \in S /\ y = id[z] /\ z # n
        BY <1>13, <3>4, <4>1
      <4>3. y # t /\ y # Scope /\ y \in DOMAIN o
        BY <1>2, <1>4, <1>9, <2>1, <4>2
      <4> QED BY <4>1, <4>2, <4>3
    <3>5. ASSUME NEW y, NEW x1, NEW k1, NEW x2, NEW k2,
                 Edge(o, x1, k1, y), Edge(o, x2, k2, y), y # Null
          PROVE  x1 = x2 /\ k1 = k2
      <4>1. PICK m1, z1 : m1 \in S /\ z1 \in S /\ x1 = id[m1] /\ y = id[z1] /\ Edge(h, m1, k1, z1)
        BY <3>4, <3>5
      <4>2. PICK m2, z2 : m2 \in S /\ z2 \in S /\ x2 = id[m2] /\ y = id[z2] /\ Edge(h, m2, k2, z2)
        BY <3>4, <3>5
      <4>3. z1 = z2
        BY <1>2, <4>1, <4>2
      <4>4. z1 # Null
        BY <1>8, <4>1
      <4>5. m1 = m2 /\ k1 = k2
        BY <4>1, <4>2, <4>3, <4>4 DEF Forest
      <4> QED BY <4>1, <4>2, <4>5
    <3>6. ASSUME NEW y \in DOMAIN o \ ({Scope} \cup {t}) PROVE \E x, k : Edge(o, x, k, y)
      <4>1. PICK z \in S : y = id[z]
        BY <1>4
      <4>2. z # n /\ z \in D
        BY <1>8, <2>1, <3>6, <4>1
      <4>3. PICK m, k : m \in D /\ Edge(h, m, k, z)
        BY <1>1, <4>2 DEF Tree
      <4>4. m \in S
        BY <4>3 DEF S, Edge
      <4>5. Copy(z) = id[z]
        BY <1>10
      <4>6. Edge(o, id[m], k, y)
        BY <1>12, <4>1, <4>3, <4>4, <4>5
      <4> QED BY <4>6
    <3>7. Grounded(o)
      <4>1. ASSUME NEW X \in SUBSET DOMAIN o, X # {}
            PROVE  \E x \in X : \A k, y : Edge(o, x, k, y) => y \notin X
        <5> DEFINE P == {m \in S : id[m] \in X}
        <5>1. P \in SUBSET DOMAIN h /\ P # {}
          BY <1>4, <1>8, <4>1
        <5>2. PICK m \in P : \A k, z : Edge(h, m, k, z) => z \notin P
          <6> HIDE DEF P
          <6> QED BY <5>1 DEF Forest, Grounded
        <5>3. ASSUME NEW k, NEW y, Edge(o, id[m], k, y), y \in X PROVE FALSE
          <6>1. y # Null
            BY <1>2, <1>16, <5>3, MatDataAssumption DEF Null
          <6>2. PICK m1, z : m1 \in S /\ z \in S /\ id[m] = id[m1] /\ y = id[z] /\ Edge(h, m1, k, z)
            BY <3>4, <5>3, <6>1
          <6>3. m1 = m
            BY <1>2, <6>2
          <6> QED BY <5>2, <5>3, <6>2, <6>3
        <5> QED BY <5>2, <5>3
      <4> QED BY <4>1 DEF Grounded
    <3> QED BY <3>1, <3>2, <3>3, <3>4, <3>5, <3>6, <3>7 DEF Forest
  <2>3. IsTree(t, o)
    BY <1>15, <1>16, <2>1, <2>2 DEF IsTree
  <2> QED BY <1>3, <1>14, <1>16, <2>1, <2>3 DEF id, S, D
<1> QED BY <1>17, <1>18

-----------------------------------------------------------------------------
(* The operations keep the heap sound.                                        *)

Sound(h, R) == IsHeap(h) /\ Forest(h, R) /\ Scope \in DOMAIN h

LEMMA FitsLess ==
    ASSUME NEW h, NEW g, DOMAIN g \subseteq DOMAIN h, NEW c \in Nat, NEW d \in Nat, c <= d,
           Fits(h, d)
    PROVE  Fits(g, c)
<1>1. Free(h) \subseteq Free(g) /\ Free(g) \subseteq 1 .. MaxNodes
  BY DEF Free
<1>2. IsFiniteSet(Free(g))
  <2>1. IsFiniteSet(1 .. MaxNodes)
    BY MatDataAssumption, FS_Interval
  <2> QED BY <1>1, <2>1, FS_Subset
<1>3. IsFiniteSet(Free(h)) /\ Cardinality(Free(h)) <= Cardinality(Free(g))
  BY <1>1, <1>2, FS_Subset
<1>4. Cardinality(Free(h)) \in Nat /\ Cardinality(Free(g)) \in Nat
  BY <1>2, <1>3, FS_CardinalityType
<1> QED BY <1>3, <1>4 DEF Fits

\* The objects of a tree can be counted.
LEMMA CountTree ==
    ASSUME NEW h, NEW R, Forest(h, R), NEW t \in 0 .. Scope, NEW D, Tree(h, t, D)
    PROVE  /\ IsFiniteSet(D) /\ Cardinality(D) \in Nat
           /\ \A S \in SUBSET D : IsFiniteSet(S) /\ Cardinality(S) \in Nat /\ Cardinality(S) <= Cardinality(D)
<1>1. 0 .. Scope \subseteq Int /\ IsFiniteSet(0 .. Scope)
  BY MatDataAssumption, FS_Interval DEF Scope
<1>2. D \subseteq 0 .. Scope
  <2>1. \A n, k, m : n \in 0 .. Scope /\ Edge(h, n, k, m) => m \in 0 .. Scope
    BY MatDataAssumption DEF Forest, Null, Scope
  <2> HIDE DEF Scope
  <2> QED BY <2>1, TreeLeast
<1>3. IsFiniteSet(D)
  BY <1>1, <1>2, FS_Subset
<1> QED BY <1>3, FS_Subset, FS_CardinalityType

\* What a pointer may be.
LEMMA TargetIs ==
    ASSUME NEW h, NEW R, Sound(h, R), NEW p, NEW a, Slot(h, p, a)
    PROVE  /\ Follow(h, Scope, p) = Target(h, p, a)
           /\ Target(h, p, a) \in 0 .. Scope /\ Target(h, p, a) # Scope
           /\ Target(h, p, a) # Null => Target(h, p, a) \in DOMAIN h
           /\ Target(h, p, a) \notin R
           /\ Tree(h, Target(h, p, a), Owned(h, Target(h, p, a)))
<1> DEFINE t == Target(h, p, a)
<1>1. Edge(h, a, Last(p), t) /\ Follow(h, Scope, p) = t
  BY SlotFacts
<1> HIDE DEF t
<1>2. Null \notin DOMAIN h /\ Forest(h, R) /\ IsHeap(h)
  BY DEF Sound, Forest, Null
<1>3. t # Null => t \in DOMAIN h /\ t # Scope /\ t \notin R
  BY <1>1, <1>2 DEF Forest
<1>4. t \in 0 .. Scope /\ t # Scope /\ t \notin R
  BY <1>2, <1>3, MatDataAssumption DEF Forest, Null, Scope
<1>5. Tree(h, t, Owned(h, t))
  BY <1>2, <1>4, OwnedTree
<1> QED BY <1>1, <1>3, <1>4, <1>5 DEF t

LEMMA ResetSound ==
    ASSUME NEW h, NEW R, Sound(h, R), NEW p, NEW a, Slot(h, p, a), NEW g, g = Reset(h, p)
    PROVE  /\ Sound(g, R) /\ Slot(g, p, a) /\ Target(g, p, a) = Null
           /\ Freed(g, h, p, a, Owned(h, Target(h, p, a)))
           /\ DOMAIN g \subseteq DOMAIN h
<1> DEFINE D == Owned(h, Target(h, p, a))
<1>1. /\ IsHeap(g) /\ Forest(g, R) /\ Slot(g, p, a)
      /\ Target(g, p, a) = Null /\ Freed(g, h, p, a, D)
  BY ResetEffect DEF Sound
<1>2. Scope \notin D
  <2>1. Forest(h, R) /\ Tree(h, Target(h, p, a), D) /\ Target(h, p, a) # Scope
    BY TargetIs DEF Sound
  <2> HIDE DEF D
  <2> QED BY <2>1, TreeFacts
<1>3. DOMAIN g = DOMAIN h \ D
  BY <1>1 DEF Freed
<1> QED BY <1>1, <1>2, <1>3 DEF Sound

LEMMA GivenSound ==
    ASSUME NEW h, NEW R, Sound(h, R), NEW p, NEW a, Slot(h, p, a), NEW tree,
           IsTree(tree.ptr, tree.objects),
           DOMAIN Reset(h, p) \cap DOMAIN tree.objects = {}
    PROVE  Sound(Given(Reset(h, p), p, tree), R)
<1> DEFINE freed == Reset(h, p)
           g == Given(freed, p, tree)
<1>1. Sound(freed, R) /\ Slot(freed, p, a) /\ Target(freed, p, a) = Null
  BY ResetSound
<1>2. IsHeap(g) /\ Forest(g, R) /\ Gave(g, freed, p, a, tree.ptr, tree.objects)
  BY <1>1, GivenEffect DEF Sound
<1> QED BY <1>1, <1>2 DEF Sound, Gave

LEMMA assign_newSound ==
    ASSUME NEW R, Sound(heap, R), NEW p \in Places, NEW label \in Labels, NEW size \in Nat,
           label \in Scalars => size = 0, assign_new(p, label, size)
    PROVE  Sound(heap', R)
<1> DEFINE freed == Reset(heap, p)
           made == Made(freed, label, size)
<1>1. PICK a : Slot(heap, p, a)
  BY PlaceSlot DEF Places, Sound
<1>2. Fits(freed, 1 + size)
  <2>1. DOMAIN freed \subseteq DOMAIN heap
    BY <1>1, ResetSound
  <2>2. Fits(heap, 1 + size) /\ 1 + size \in Nat /\ 1 + size <= 1 + size
    BY DEF assign_new
  <2> HIDE DEF freed
  <2> QED BY <2>1, <2>2, FitsLess
<1>3. IsTree(made.ptr, made.objects) /\ DOMAIN freed \cap DOMAIN made.objects = {}
  BY <1>2, MadeEffect
<1>4. heap' = Given(freed, p, made)
  BY DEF assign_new
<1> HIDE DEF made
<1> QED BY <1>1, <1>3, <1>4, GivenSound

LEMMA copy_assignSound ==
    ASSUME NEW R, Sound(heap, R), NEW p \in Places, NEW q \in Places, copy_assign(p, q)
    PROVE  Sound(heap', R)
<1> DEFINE freed == Reset(heap, p)
           n == Node(q)
           copy == Clone(freed, n)
<1>1. PICK a : Slot(heap, p, a)
  BY PlaceSlot DEF Places, Sound
<1>2. PICK b : Slot(heap, q, b)
  BY PlaceSlot DEF Places, Sound
<1>3. n \in 0 .. Scope /\ n # Scope /\ Tree(heap, n, Owned(heap, n))
  BY <1>2, TargetIs DEF Node
<1>4. /\ Sound(freed, R) /\ DOMAIN freed \subseteq DOMAIN heap
      /\ \A x, k, y : Edge(freed, x, k, y) => y = Null \/ Edge(heap, x, k, y)
  <2>1. /\ Sound(freed, R) /\ DOMAIN freed \subseteq DOMAIN heap
        /\ Freed(freed, heap, p, a, Owned(heap, Target(heap, p, a)))
    BY <1>1, ResetSound
  <2> HIDE DEF freed
  <2>2. ASSUME NEW x, NEW k, NEW y, Edge(freed, x, k, y)
        PROVE  y = Null \/ Edge(heap, x, k, y)
    BY <2>1, <2>2 DEF Freed
  <2> QED BY <2>1, <2>2
<1>5. Fits(heap, Cardinality(Owned(heap, n)))
  BY DEF copy_assign, MayCopy
<1>6. heap' = IF p = q THEN heap ELSE Given(freed, p, copy)
  BY DEF copy_assign
<1> HIDE DEF freed, n
<1> DEFINE S == Owned(freed, n) \cap DOMAIN freed
<1>7. S \subseteq Owned(heap, n)
  <2> DEFINE E == Owned(heap, n) \cup {Null}
  <2>1. Forest(freed, R) /\ Tree(freed, n, Owned(freed, n)) /\ Null \notin DOMAIN freed
    <3>1. Forest(freed, R) /\ IsHeap(freed)
      BY <1>4 DEF Sound
    <3>2. Null \notin DOMAIN freed
      BY <3>1 DEF Forest, Null
    <3> QED BY <1>3, <3>1, <3>2, OwnedTree
  <2>2. n \in E
    BY <1>3 DEF Tree
  <2>3. \A x, k, y : x \in E /\ Edge(freed, x, k, y) => y \in E
    <3>1. \A x, k, y : Edge(freed, x, k, y) => x # Null
      BY <2>1 DEF Edge
    <3> QED BY <1>3, <1>4, <3>1 DEF Tree
  <2>4. Owned(freed, n) \subseteq E
    <3> HIDE DEF E
    <3> QED BY <2>1, <2>2, <2>3, TreeLeast
  <2> QED BY <2>1, <2>4
<1>8. Fits(freed, Cardinality(S))
  <2>1. Cardinality(S) \in Nat /\ Cardinality(Owned(heap, n)) \in Nat /\ Cardinality(S) <= Cardinality(Owned(heap, n))
    <3>1. Forest(heap, R)
      BY DEF Sound
    <3> HIDE DEF S
    <3> QED BY <1>3, <1>7, <3>1, CountTree
  <2> HIDE DEF S
  <2> QED BY <1>4, <1>5, <2>1, FitsLess
<1>9. IsTree(copy.ptr, copy.objects) /\ DOMAIN freed \cap DOMAIN copy.objects = {}
  <2>1. IsHeap(freed) /\ Forest(freed, R)
    BY <1>4 DEF Sound
  <2> QED BY <1>3, <1>8, <2>1, CloneEffect
<1> HIDE DEF copy
<1>10. Sound(Given(freed, p, copy), R)
  BY <1>1, <1>9, GivenSound DEF freed
<1> QED BY <1>6, <1>10

LEMMA PrefixIs ==
    ASSUME NEW S, NEW q \in Seq(S), NEW p \in Seq(S), Len(q) <= Len(p),
           \A i \in 1 .. Len(q) : p[i] = q[i]
    PROVE  IsPrefix(q, p)
<1> DEFINE n == Len(q)
           f == SubSeq(q, 1, n)
           g == SubSeq(p, 1, n)
<1>1. /\ n \in Nat /\ n <= Len(p)
      /\ \A i \in 1 .. n : p[i] = q[i] /\ q[i] \in S
  BY ElementOfSeq
<1>2. /\ f \in Seq(S) /\ Len(f) = IF 1 <= n THEN n - 1 + 1 ELSE 0
      /\ \A i \in 1 .. n - 1 + 1 : f[i] = q[1 + i - 1]
  <2>1. \A i \in 1 .. n : q[i] \in S
    BY <1>1
  <2> HIDE DEF n
  <2> QED BY <1>1, <2>1, SubSeqProperties
<1>3. /\ g \in Seq(S) /\ Len(g) = IF 1 <= n THEN n - 1 + 1 ELSE 0
      /\ \A i \in 1 .. n - 1 + 1 : g[i] = p[1 + i - 1]
  <2>1. \A i \in 1 .. n : p[i] \in S
    BY <1>1
  <2> HIDE DEF n
  <2> QED BY <1>1, <2>1, SubSeqProperties
<1> HIDE DEF n, f, g
<1>4. Len(f) = n /\ Len(g) = n
  BY <1>1, <1>2, <1>3
<1>5. ASSUME NEW i \in 1 .. n PROVE f[i] = g[i]
  <2>1. i \in 1 .. n - 1 + 1 /\ 1 + i - 1 = i
    BY <1>1
  <2> QED BY <1>1, <1>2, <1>3, <2>1
<1>6. f = g
  BY <1>2, <1>3, <1>4, <1>5, SeqEqual
<1> QED BY <1>1, <1>6 DEF IsPrefix, n, f, g

LEMMA PrefixCat ==
    ASSUME NEW S, NEW q \in Seq(S), NEW s \in Seq(S)
    PROVE  IsPrefix(q, q \o s)
<1>1. /\ Cat(q, s) \in Seq(S) /\ Len(Cat(q, s)) = Len(q) + Len(s)
      /\ \A i \in 1 .. Len(q) : Cat(q, s)[i] = q[i]
  BY CatElements
<1>2. Len(q) <= Len(q) + Len(s)
  OBVIOUS
<1>3. IsPrefix(q, Cat(q, s))
  BY <1>1, <1>2, PrefixIs
<1> QED BY <1>3 DEF Cat

\* Of two beginnings of an address one begins the other.
LEMMA Comparable ==
    ASSUME NEW S, NEW p \in Seq(S), NEW s \in Seq(S), NEW q \in Seq(S), NEW r \in Seq(S),
           p \o s = q \o r
    PROVE  IsPrefix(p, q) \/ IsPrefix(q, p)
<1>1. /\ \A i \in 1 .. Len(p) : Cat(p, s)[i] = p[i]
      /\ \A i \in 1 .. Len(q) : Cat(q, r)[i] = q[i]
  BY CatElements
<1>2. Cat(p, s) = Cat(q, r)
  BY DEF Cat
<1>3. Len(p) \in Nat /\ Len(q) \in Nat
  OBVIOUS
<1>4. CASE Len(p) <= Len(q)
  <2>1. \A i \in 1 .. Len(p) : q[i] = p[i]
    BY <1>1, <1>2, <1>3, <1>4
  <2> QED BY <1>4, <2>1, PrefixIs
<1>5. CASE Len(q) <= Len(p)
  <2>1. \A i \in 1 .. Len(q) : p[i] = q[i]
    BY <1>1, <1>2, <1>3, <1>5
  <2> QED BY <1>5, <2>1, PrefixIs
<1> QED BY <1>3, <1>4, <1>5

\* The owner of a pointer is not owned by another whose address does not begin
\* that one's.
LEMMA NotBelow ==
    ASSUME NEW h, NEW R, Sound(h, R), NEW p, NEW a, Slot(h, p, a),
           NEW q, NEW b, Slot(h, q, b), ~ IsStrictPrefix(q, p)
    PROVE  a \notin Owned(h, Target(h, q, b))
<1> DEFINE t == Target(h, q, b)
<1>1. SUFFICES ASSUME a \in Owned(h, t) PROVE FALSE
  OBVIOUS
<1>2. t \in 0 .. Scope /\ Leads(h, Scope, q, t)
  BY TargetIs, SlotFacts
<1>3. IsHeap(h) /\ Forest(h, R) /\ a # Null
  <2>1. a \in DOMAIN h
    BY DEF Slot
  <2> QED BY <2>1 DEF Sound, Forest, Null
<1> HIDE DEF t
<1>4. PICK s \in Seq(Keys) : Leads(h, t, s, a)
  BY <1>1, <1>2, <1>3, OwnedIs
<1>5. /\ q \in Seq(Keys) /\ Front(p) \in Seq(Keys) /\ Last(p) \in Keys
      /\ p = Append(Front(p), Last(p)) /\ Leads(h, Scope, Front(p), a)
  BY FrontLast DEF Slot
<1>6. q \o s \in Seq(Keys) /\ Leads(h, Scope, q \o s, a)
  BY <1>2, <1>4, <1>5, LeadsCat, ConcatProperties
<1>7. Front(p) = q \o s
  BY <1>3, <1>5, <1>6, OneAddress
<1> DEFINE r == Append(s, Last(p))
<1>8. p = q \o r /\ r \in Seq(Keys) /\ Len(p) = Len(q) + Len(s) + 1
  <2>1. Cat(q, Append(s, Last(p))) = Append(Cat(q, s), Last(p))
    BY <1>5, CatAppend
  <2>2. p = q \o r /\ r \in Seq(Keys)
    BY <1>5, <1>7, <2>1 DEF Cat
  <2>3. Len(Append(q \o s, Last(p))) = Len(q \o s) + 1 /\ Len(q \o s) = Len(q) + Len(s)
    BY <1>5, <1>6, AppendProperties, ConcatProperties
  <2> QED BY <1>5, <1>7, <2>2, <2>3
<1> HIDE DEF r
<1>9. IsPrefix(q, p)
  BY <1>5, <1>8, PrefixCat
<1>10. p # q
  <2>1. Len(q) \in Nat /\ Len(s) \in Nat
    BY <1>5
  <2> QED BY <1>8, <2>1
<1> QED BY <1>9, <1>10 DEF IsStrictPrefix

LEMMA move_assignSound ==
    ASSUME NEW R, Sound(heap, R), NEW p \in Places, NEW q \in Places, move_assign(p, q)
    PROVE  Sound(heap', R)
<1> DEFINE t == Node(q)
           f == Pointing(heap, q, Null)
           r == Reset(f, p)
           g == Pointing(r, p, t)
           D == Owned(heap, t)
<1>1. PICK a : Slot(heap, p, a)
  BY PlaceSlot DEF Places, Sound
<1>2. PICK b : Slot(heap, q, b)
  BY PlaceSlot DEF Places, Sound
<1>3. /\ t = Target(heap, q, b) /\ t \in 0 .. Scope /\ t # Scope /\ t \notin R
      /\ t # Null => t \in DOMAIN heap
      /\ Tree(heap, t, D) /\ Edge(heap, b, Last(q), t)
  BY <1>2, TargetIs, SlotFacts DEF Node
<1>4. a \notin D
  <2>1. ~ IsStrictPrefix(q, p)
    BY DEF move_assign
  <2> QED BY <1>1, <1>2, <1>3, <2>1, NotBelow
<1>5. heap' = g
  BY DEF move_assign
<1>6. IsHeap(heap) /\ Forest(heap, R) /\ Scope \in DOMAIN heap /\ Null \notin DOMAIN heap
  BY DEF Sound, Forest, Null
<1>7. IsHeap(f) /\ Points(f, heap, b, Last(q), Null)
  BY <1>2, <1>6, PointingEffect
<1> HIDE DEF t, f, D
<1> DEFINE Q == IF t = Null THEN R ELSE R \cup {t}
<1>8. ASSUME NEW x, NEW k, NEW y, y # Null
      PROVE  Edge(f, x, k, y) <=> Edge(heap, x, k, y) /\ y # t
  <2>1. CASE x = b /\ k = Last(q)
    BY <1>3, <1>7, <1>8, <2>1 DEF Points, Edge
  <2>2. CASE ~ (x = b /\ k = Last(q))
    <3>1. Edge(heap, x, k, y) => y # t
      BY <1>3, <1>6, <1>8, <2>2 DEF Forest
    <3> QED BY <1>7, <2>2, <3>1 DEF Points
  <2> QED BY <2>1, <2>2
<1>9. DOMAIN f = DOMAIN heap /\ \A x, k, y : Edge(f, x, k, y) => x \in DOMAIN heap
  BY <1>7 DEF Points, Edge
<1>10. Forest(f, Q)
  <2>1. CASE t = Null
    <3>1. \A x, k, y : Edge(f, x, k, y) <=> Edge(heap, x, k, y)
      BY <1>3, <1>7, <2>1 DEF Points, Edge
    <3> QED BY <1>6, <1>9, <2>1, <3>1, SameForest
  <2>2. CASE t # Null
    BY <1>3, <1>6, <1>8, <1>9, <2>2, DetachForest
  <2> QED BY <2>1, <2>2
<1> HIDE DEF Q
<1>11. Sound(f, Q)
  BY <1>6, <1>7, <1>9, <1>10 DEF Sound
<1>12. \A x, k, y : Edge(heap, x, k, y) /\ ~ (x = b /\ k = Last(q)) => Edge(f, x, k, y)
  BY <1>7 DEF Points
<1>13. Slot(f, p, a)
  <2>1. Leads(heap, Scope, Front(p), a) /\ Front(p) \in Seq(Keys) /\ Edge(heap, a, Last(p), Target(heap, p, a))
    BY <1>1, SlotFacts DEF Slot
  <2>2. Leads(f, Scope, Front(p), a)
    <3>1. \A x, k, y : x \in D /\ Edge(heap, x, k, y) => y \in D
      BY <1>3 DEF Tree
    <3>2. \A x, k, y : Edge(heap, x, k, y) /\ x \notin D /\ y \notin D => Edge(f, x, k, y)
      <4>1. \A y : Edge(heap, b, Last(q), y) => y \in D
        BY <1>3 DEF Edge, Tree
      <4> QED BY <1>12, <4>1
    <3> QED BY <1>4, <2>1, <3>1, <3>2, SameRoute
  <2>3. a \in DOMAIN f /\ Last(p) \in DOMAIN f[a].child
    <3>1. \E y : Edge(f, a, Last(p), y)
      BY <1>7, <2>1 DEF Points
    <3> QED BY <3>1 DEF Edge
  <2> QED BY <1>1, <2>2, <2>3 DEF Slot
<1>14. /\ Sound(r, Q) /\ Slot(r, p, a) /\ Target(r, p, a) = Null
       /\ Freed(r, f, p, a, Owned(f, Target(f, p, a)))
  BY <1>11, <1>13, ResetSound
<1> HIDE DEF r
<1>15. IsHeap(g) /\ Points(g, r, a, Last(p), t)
  <2>1. IsHeap(r)
    BY <1>14 DEF Sound
  <2> QED BY <1>14, <2>1, PointingEffect
<1>16. Edge(r, a, Last(p), Null)
  BY <1>14, SlotFacts
<1> HIDE DEF g
<1>17. \A y : Edge(r, a, Last(p), y) => y = Null
  BY <1>16 DEF Edge
<1>18. Forest(r, Q) /\ IsHeap(r) /\ Scope \in DOMAIN r
  BY <1>14 DEF Sound
<1>19. Forest(g, R)
  <2>1. CASE t = Null
    <3>1. \A x, k, y : Edge(g, x, k, y) <=> Edge(r, x, k, y)
      BY <1>15, <1>16, <1>17, <2>1 DEF Points
    <3>2. DOMAIN g = DOMAIN r /\ Q = R
      BY <1>15, <2>1 DEF Points, Q
    <3> QED BY <1>18, <3>1, <3>2, SameForest
  <2>2. CASE t # Null
    <3>1. t \in Q /\ Q \ {t} = R
      BY <1>3, <2>2 DEF Q
    <3>2. Tree(r, t, Owned(r, t))
      BY <1>3, <1>18, OwnedTree
    <3> DEFINE E == D \cup {Null}
    <3>3. t \in E
      BY <1>3 DEF Tree
    <3>4. \A x, k, y : x \in E /\ Edge(r, x, k, y) => y \in E
      <4>1. ASSUME NEW x, NEW k, NEW y, x \in E, Edge(r, x, k, y), y # Null PROVE y \in D
        <5>1. Edge(f, x, k, y)
          BY <1>14, <4>1 DEF Freed
        <5>2. Edge(heap, x, k, y) /\ x # Null
          <6>1. Edge(heap, x, k, y)
            BY <1>8, <4>1, <5>1
          <6> QED BY <1>6, <6>1 DEF Edge
        <5> QED BY <1>3, <4>1, <5>2 DEF Tree
      <4> QED BY <4>1
    <3> HIDE DEF E
    <3>5. Owned(r, t) \subseteq E
      BY <1>18, <3>2, <3>3, <3>4, TreeLeast
    <3>6. a \notin Owned(r, t)
      <4>1. a # Null
        BY <1>1, <1>6 DEF Slot
      <4> QED BY <1>4, <3>5, <4>1 DEF E
    <3>7. Takes(g, r, a, Last(p), t)
      BY <1>15, <1>17 DEF Points, Takes
    <3>8. /\ DOMAIN g = DOMAIN r /\ a \in DOMAIN r
          /\ \A x, k, y : Edge(g, x, k, y) => x \in DOMAIN r
      BY <1>14, <1>15 DEF Points, Slot, Edge
    <3>9. Forest(g, Q \ {t})
      BY <1>18, <3>1, <3>2, <3>6, <3>7, <3>8, AttachForest
    <3> QED BY <3>1, <3>9
  <2> QED BY <2>1, <2>2
<1>20. Scope \in DOMAIN g
  BY <1>15, <1>18 DEF Points
<1> QED BY <1>5, <1>15, <1>19, <1>20 DEF Sound

LEMMA set_valueSound ==
    ASSUME NEW R, Sound(heap, R), NEW p \in Places, NEW c \in Scalars, set_value(p, c)
    PROVE  Sound(heap', R)
<1> DEFINE n == Node(p)
           object == [heap[n] EXCEPT !.label = c]
<1>1. PICK a : Slot(heap, p, a)
  BY PlaceSlot DEF Places, Sound
<1>2. n # Null /\ heap[n].label \in Scalars /\ heap' = [heap EXCEPT ![n] = object]
  BY DEF set_value, Holds
<1>3. n \in DOMAIN heap /\ n # Scope
  BY <1>1, <1>2, TargetIs DEF Node
<1> HIDE DEF n
<1>4. IsHeap(heap) /\ Forest(heap, R) /\ Scope \in DOMAIN heap /\ IsObject(heap[n]) /\ IsValue(heap[n])
  BY <1>3 DEF Sound, IsHeap
<1>5. /\ object.label = c /\ object.child = heap[n].child /\ IsObject(object)
  BY <1>4 DEF IsObject
<1> HIDE DEF object
<1>6. /\ DOMAIN heap' = DOMAIN heap /\ heap'[n] = object
      /\ \A m \in DOMAIN heap : m # n => heap'[m] = heap[m]
  BY <1>2, <1>3
<1>7. IsHeap(heap')
  <2>1. IsValue(object) /\ DOMAIN object.child \subseteq Keys
    BY <1>2, <1>3, <1>4, <1>5 DEF IsValue, IsHeap, Labels
  <2> QED BY <1>4, <1>5, <1>6, <2>1 DEF IsHeap
<1>8. \A x, k, y : Edge(heap', x, k, y) <=> Edge(heap, x, k, y)
  BY <1>3, <1>5, <1>6 DEF Edge
<1>9. Forest(heap', R)
  BY <1>4, <1>6, <1>8, SameForest
<1> QED BY <1>4, <1>6, <1>7, <1>9 DEF Sound

LEMMA operator_indexSound ==
    ASSUME NEW R, Sound(heap, R), NEW p \in Places, NEW f \in Fields, operator_index(p, f)
    PROVE  Sound(heap', R)
<1> DEFINE n == Node(p)
           made == Made(heap, Zero, 0)
           t == made.ptr
           o == made.objects
           e == Extended(heap, o)
           object == [e[n] EXCEPT !.child = Extended(e[n].child, [x \in {f} |-> t])]
<1>1. PICK a : Slot(heap, p, a)
  BY PlaceSlot DEF Places, Sound
<1>2. /\ n # Null /\ heap[n].label = "struct" /\ f \notin DOMAIN heap[n].child /\ Fits(heap, 1)
      /\ heap' = [e EXCEPT ![n] = object]
  BY DEF operator_index, Holds
<1>3. n \in DOMAIN heap /\ n # Scope
  BY <1>1, <1>2, TargetIs DEF Node
<1>4. /\ IsTree(t, o) /\ t \in DOMAIN o /\ DOMAIN heap \cap DOMAIN o = {}
  <2>1. Zero \in Labels /\ Fits(heap, 1 + 0)
    <3>1. 1 + 0 = 1
      OBVIOUS
    <3> QED BY <1>2, <3>1, MatDataAssumption DEF Labels
  <2>2. 0 \in Nat /\ (Zero \in Scalars => 0 = 0)
    OBVIOUS
  <2> QED BY <2>1, <2>2, MadeEffect
<1> HIDE DEF n, made
<1>5. IsHeap(heap) /\ Forest(heap, R) /\ Scope \in DOMAIN heap
  BY DEF Sound
<1>6. IsHeap(o) /\ Scope \notin DOMAIN o /\ Forest(o, {t})
  <2>1. Null \notin DOMAIN o \/ DOMAIN o = {}
    BY <1>4 DEF IsTree, Forest, Null
  <2> QED BY <1>4 DEF IsTree
<1> HIDE DEF t, o
<1>7. IsHeap(e) /\ Added(e, heap, o)
  BY <1>4, <1>5, <1>6, AddEffect
<1>8. e[n] = heap[n] /\ n \in DOMAIN e
  BY <1>3 DEF Extended
<1> HIDE DEF e
<1>9. /\ Forest(e, R \cup {t}) /\ Tree(e, t, Owned(e, t))
      /\ Owned(e, t) \cap DOMAIN heap = {} /\ t \notin R
  BY <1>4, <1>5, <1>6, <1>7, NewApart
<1>10. IsObject(e[n]) /\ IsValue(e[n])
  BY <1>3, <1>7, <1>8 DEF IsHeap
<1>11. /\ IsObject(object) /\ object.label = e[n].label
       /\ DOMAIN object.child = DOMAIN e[n].child \cup {f}
       /\ object.child[f] = t
       /\ \A k \in DOMAIN e[n].child : object.child[k] = e[n].child[k]
  <2>1. /\ object.child = Extended(e[n].child, [x \in {f} |-> t]) /\ object.label = e[n].label
        /\ IsObject(object)
    BY <1>10 DEF IsObject
  <2>2. f \notin DOMAIN e[n].child
    BY <1>2, <1>8
  <2> HIDE DEF object
  <2> QED BY <2>1, <2>2 DEF Extended
<1> HIDE DEF object
<1>12. /\ DOMAIN heap' = DOMAIN e /\ heap'[n] = object
       /\ \A m \in DOMAIN e : m # n => heap'[m] = e[m]
  BY <1>2, <1>8
<1>13. IsHeap(heap')
  <2>1. object.label = "struct" /\ "struct" \notin Scalars /\ "struct" \in Labels
    BY <1>2, <1>8, <1>11, MatDataAssumption DEF Labels
  <2>2. IsValue(object)
    BY <1>10, <1>11, <2>1 DEF IsValue
  <2>3. DOMAIN object.child \subseteq Keys
    BY <2>2 DEF IsValue, Keys
  <2> QED BY <1>7, <1>11, <1>12, <2>2, <2>3 DEF IsHeap
<1>14. ASSUME NEW x, NEW k, NEW y
       PROVE  Edge(heap', x, k, y) <=> Edge(e, x, k, y) \/ (x = n /\ k = f /\ y = t)
  <2>1. CASE x = n
    <3>1. f \notin DOMAIN e[n].child
      BY <1>2, <1>8
    <3> QED BY <1>8, <1>11, <1>12, <2>1, <3>1 DEF Edge
  <2>2. CASE x # n
    BY <1>12, <2>2 DEF Edge
  <2> QED BY <2>1, <2>2
<1>15. Forest(heap', (R \cup {t}) \ {t})
  <2>1. Takes(heap', e, n, f, t) /\ t \in R \cup {t} /\ n \notin Owned(e, t)
    BY <1>3, <1>9, <1>14 DEF Takes
  <2>2. \A x, k, y : Edge(heap', x, k, y) => x \in DOMAIN e
    BY <1>12 DEF Edge
  <2> QED BY <1>8, <1>9, <1>12, <2>1, <2>2, AttachForest
<1>16. (R \cup {t}) \ {t} = R
  BY <1>9
<1>17. Scope \in DOMAIN heap'
  BY <1>5, <1>7, <1>12 DEF Added
<1> QED BY <1>13, <1>15, <1>16, <1>17 DEF Sound

\* The copy is another root.
LEMMA saveSound ==
    ASSUME NEW R, Sound(heap, R), NEW p \in Places, save(p)
    PROVE  \E t \in 1 .. MaxNodes : /\ Sound(heap', R \cup {t}) /\ t \notin R
                                    /\ saved' = Append(saved, t)
<1> DEFINE n == Node(p)
           copy == Clone(heap, n)
           t == copy.ptr
           o == copy.objects
           S == Owned(heap, n) \cap DOMAIN heap
<1>1. PICK a : Slot(heap, p, a)
  BY PlaceSlot DEF Places, Sound
<1>2. /\ heap' = Extended(heap, o) /\ saved' = Append(saved, t)
      /\ Whole(heap, n) /\ Fits(heap, Cardinality(Owned(heap, n)))
  BY DEF save
<1>3. n \in 0 .. Scope /\ n # Scope /\ Tree(heap, n, Owned(heap, n))
  BY <1>1, TargetIs DEF Node
<1> HIDE DEF n
<1>4. n \in DOMAIN heap /\ S = Owned(heap, n)
  BY <1>2, <1>3 DEF Whole, Tree
<1>5. IsHeap(heap) /\ Forest(heap, R) /\ Scope \in DOMAIN heap
  BY DEF Sound
<1>6. /\ IsTree(t, o) /\ t \in DOMAIN o /\ DOMAIN o \subseteq Free(heap)
      /\ DOMAIN heap \cap DOMAIN o = {}
  BY <1>2, <1>3, <1>4, <1>5, CloneEffect
<1> HIDE DEF t, o
<1>7. IsHeap(o) /\ Scope \notin DOMAIN o /\ Forest(o, {t})
  BY <1>6 DEF IsTree
<1>8. IsHeap(heap') /\ Added(heap', heap, o)
  BY <1>2, <1>5, <1>6, <1>7, AddEffect
<1>9. Forest(heap', R \cup {t}) /\ t \notin R
  BY <1>5, <1>6, <1>7, <1>8, NewApart
<1>10. Scope \in DOMAIN heap' /\ t \in 1 .. MaxNodes
  BY <1>5, <1>6, <1>8 DEF Added, Free
<1> QED BY <1>2, <1>8, <1>9, <1>10 DEF Sound

LEMMA DropSound ==
    ASSUME NEW h, NEW R, Sound(h, R), NEW t \in R, NEW D, D = Owned(h, t),
           NEW g, g = Restrict(h, DOMAIN h \ D)
    PROVE  Sound(g, R \ {t})
<1>1. IsHeap(h) /\ Forest(h, R) /\ Scope \in DOMAIN h
  BY DEF Sound
<1>2. t \in 0 .. Scope /\ t # Scope
  BY <1>1, MatDataAssumption DEF Forest, Scope
<1>3. Tree(h, t, D)
  BY <1>1, <1>2, OwnedTree
<1>4. /\ IsHeap(g) /\ DOMAIN g = DOMAIN h \ D
      /\ \A n, k, m : Edge(g, n, k, m) <=> Edge(h, n, k, m) /\ n \notin D
  BY <1>1, RestrictEffect
<1>5. Forest(g, R \ {t})
  BY <1>1, <1>3, <1>4, DropForest
<1>6. Scope \notin D
  BY <1>1, <1>2, <1>3, TreeFacts
<1> QED BY <1>1, <1>4, <1>5, <1>6 DEF Sound

LEMMA flushSound ==
    ASSUME NEW R, Sound(heap, R), Head(saved) \in R, flush
    PROVE  Sound(heap', R \ {Head(saved)})
<1>1. heap' = Restrict(heap, DOMAIN heap \ Owned(heap, Head(saved)))
  BY DEF flush
<1> QED BY <1>1, DropSound

-----------------------------------------------------------------------------
(* The inductive invariant.                                                   *)

ForestInv ==
    /\ Sound(heap, Range(saved))
    /\ saved \in Seq(1 .. MaxNodes)
    /\ IsInjective(saved)
    /\ fault \in BOOLEAN

\* Every variable owns an object of its own, and these are all the objects.
LEMMA NumberedIs ==
    /\ Cardinality(Variables) \in Nat
    /\ Numbered \in [Variables -> 1 .. Cardinality(Variables)]
    /\ \A x, y \in Variables : Numbered[x] = Numbered[y] => x = y
    /\ \A m \in 1 .. Cardinality(Variables) : \E x \in Variables : Numbered[x] = m
<1> DEFINE c == Cardinality(Variables)
           I == 1 .. c
<1>1. c \in Nat /\ IsFiniteSet(Variables)
  BY MatDataAssumption, FS_CardinalityType
<1>2. IsFiniteSet(I) /\ Cardinality(I) = c
  <2>1. c - 1 + 1 = c /\ 1 \in Int /\ c \in Int
    BY <1>1
  <2> HIDE DEF c
  <2>2. IsFiniteSet(1 .. c) /\ Cardinality(1 .. c) = IF 1 <= c THEN c - 1 + 1 ELSE 0
    BY <2>1, FS_Interval
  <2> QED BY <1>1, <2>1, <2>2
<1> HIDE DEF I
<1>3. \E f \in [Variables -> I] : IsInjective(f)
  <2>1. ExistsBijection(Variables, I)
    BY <1>1, <1>2, FS_SameCardinalityBij
  <2> QED BY <2>1 DEF ExistsBijection, Bijection, Injection
<1>4. Numbered \in [Variables -> I] /\ IsInjective(Numbered)
  BY <1>3 DEF Numbered, I
<1>5. Numbered \in Surjection(Variables, I)
  <2>1. Numbered \in Injection(Variables, I)
    BY <1>4 DEF Injection
  <2> QED BY <1>2, <2>1, FS_Injection
<1>6. \A m \in I : \E x \in Variables : Numbered[x] = m
  BY <1>5 DEF Surjection
<1>7. \A x, y \in Variables : Numbered[x] = Numbered[y] => x = y
  BY <1>4 DEF IsInjective
<1> QED BY <1>1, <1>4, <1>6, <1>7 DEF I

LEMMA InitForest == Init => ForestInv
<1> DEFINE c == Cardinality(Variables)
           leaf == [label |-> Zero, child |-> << >>]
           scope == [label |-> "scope", child |-> Numbered]
<1>1. SUFFICES ASSUME Init PROVE ForestInv
  OBVIOUS
<1>2. /\ c \in Nat /\ c <= MaxNodes
      /\ DOMAIN Numbered = Variables
      /\ \A x \in Variables : Numbered[x] \in 1 .. c
      /\ \A x, y \in Variables : Numbered[x] = Numbered[y] => x = y
      /\ \A m \in 1 .. c : \E x \in Variables : Numbered[x] = m
  BY NumberedIs, MatDataAssumption
<1>3. heap = [n \in 1 .. c \cup {Scope} |-> IF n # Scope THEN leaf ELSE scope]
  BY <1>1 DEF Init
<1>4. /\ IsObject(leaf) /\ leaf.label = Zero /\ leaf.child = << >>
      /\ IsObject(scope) /\ scope.child = Numbered
  BY DEF IsObject
<1> HIDE DEF c, leaf, scope
<1>5. /\ DOMAIN heap = 1 .. c \cup {Scope} /\ heap[Scope] = scope
      /\ \A n \in 1 .. c : heap[n] = leaf /\ n # Scope /\ n \in 1 .. Scope
      /\ Null \notin 1 .. c /\ Scope \in 1 .. Scope
  BY <1>2, <1>3, MatDataAssumption DEF Scope, Null
<1>6. DOMAIN << >> = {}
  OBVIOUS
<1>7. ASSUME NEW n, NEW k, NEW m
      PROVE  Edge(heap, n, k, m) <=> n = Scope /\ k \in Variables /\ m = Numbered[k]
  BY <1>2, <1>4, <1>5, <1>6 DEF Edge
<1>8. IsHeap(heap)
  <2>1. IsValue(leaf)
    BY <1>4, <1>6, MatDataAssumption DEF IsValue, Labels
  <2>2. DOMAIN leaf.child \subseteq Keys /\ DOMAIN scope.child \subseteq Keys
    BY <1>2, <1>4, <1>6 DEF Keys
  <2> QED BY <1>4, <1>5, <2>1, <2>2 DEF IsHeap
<1>9. Forest(heap, {})
  <2>1. Grounded(heap)
    <3>1. ASSUME NEW S \in SUBSET DOMAIN heap, S # {}
          PROVE  \E m \in S : \A k, x : Edge(heap, m, k, x) => x \notin S
      <4>1. CASE S = {Scope}
        BY <1>2, <1>5, <1>7, <4>1
      <4>2. CASE S # {Scope}
        <5>1. PICK m \in S : m # Scope
          BY <3>1, <4>2
        <5> QED BY <1>7, <5>1
      <4> QED BY <4>1, <4>2
    <3> QED BY <3>1 DEF Grounded
  <2>2. \A n, k, m : Edge(heap, n, k, m) => n \in DOMAIN heap
    BY <1>5, <1>7
  <2>3. \A n, k, m : Edge(heap, n, k, m) /\ m # Null => m \in DOMAIN heap \ ({Scope} \cup {})
    BY <1>2, <1>5, <1>7
  <2>4. \A m, n1, k1, n2, k2 :
           Edge(heap, n1, k1, m) /\ Edge(heap, n2, k2, m) /\ m # Null => n1 = n2 /\ k1 = k2
    BY <1>2, <1>7
  <2>5. \A m \in DOMAIN heap \ ({Scope} \cup {}) : \E n, k : Edge(heap, n, k, m)
    BY <1>2, <1>5, <1>7
  <2>6. DOMAIN heap \subseteq 1 .. Scope /\ {} \subseteq DOMAIN heap \ {Scope}
    BY <1>5
  <2> QED BY <2>1, <2>2, <2>3, <2>4, <2>5, <2>6 DEF Forest
<1>10. /\ Range(saved) = {} /\ saved \in Seq(1 .. MaxNodes) /\ IsInjective(saved)
       /\ fault \in BOOLEAN
  <2>1. saved = << >> /\ fault = FALSE
    BY <1>1 DEF Init
  <2>2. DOMAIN saved = {}
    BY <1>6, <2>1
  <2>3. Range(saved) = {} /\ IsInjective(saved)
    BY <2>2 DEF Range, IsInjective
  <2>4. saved \in Seq(1 .. MaxNodes)
    BY <2>1
  <2>5. fault \in BOOLEAN
    BY <2>1
  <2> QED BY <2>3, <2>4, <2>5
<1> QED BY <1>5, <1>8, <1>9, <1>10 DEF ForestInv, Sound

LEMMA NextForest == ForestInv /\ [Next]_vars => ForestInv'
<1> DEFINE R == Range(saved)
<1>1. SUFFICES ASSUME ForestInv, [Next]_vars PROVE ForestInv'
  OBVIOUS
<1>2. /\ Sound(heap, R) /\ saved \in Seq(1 .. MaxNodes) /\ IsInjective(saved)
      /\ fault \in BOOLEAN
  BY <1>1 DEF ForestInv
<1>3. ASSUME Sound(heap', R), UNCHANGED saved, fault' \in BOOLEAN PROVE ForestInv'
  BY <1>2, <1>3 DEF ForestInv, Range
<1> HIDE DEF R
<1>4. CASE UNCHANGED vars
  <2>1. heap' = heap /\ saved' = saved /\ fault' = fault
    BY <1>4 DEF vars
  <2> QED BY <1>2, <1>3, <2>1
<1>5. ASSUME NEW p \in Places, NEW c \in Scalars, assign_new(p, c, 0) PROVE ForestInv'
  <2>1. UNCHANGED <<saved, fault>> /\ c \in Labels /\ 0 \in Nat
    BY <1>5 DEF assign_new, Labels
  <2>2. Sound(heap', R)
    BY <1>2, <1>5, <2>1, assign_newSound
  <2> QED BY <1>2, <1>3, <2>1, <2>2
<1>6. ASSUME NEW p \in Places, NEW c \in Scalars, set_value(p, c) PROVE ForestInv'
  <2>1. UNCHANGED <<saved, fault>>
    BY <1>6 DEF set_value
  <2> QED BY <1>2, <1>3, <1>6, <2>1, set_valueSound
<1>7. ASSUME NEW p \in Places, assign_new(p, "struct", 0) PROVE ForestInv'
  <2>1. UNCHANGED <<saved, fault>> /\ "struct" \in Labels /\ 0 \in Nat
    BY <1>7 DEF assign_new, Labels
  <2>2. Sound(heap', R)
    BY <1>2, <1>7, <2>1, assign_newSound
  <2> QED BY <1>2, <1>3, <2>1, <2>2
<1>8. ASSUME NEW p \in Places, NEW size \in CellSizes, assign_new(p, "cell", size)
      PROVE  ForestInv'
  <2>1. UNCHANGED <<saved, fault>> /\ "cell" \in Labels /\ "cell" \notin Scalars /\ size \in Nat
    BY <1>8, MatDataAssumption DEF assign_new, Labels
  <2>2. Sound(heap', R)
    BY <1>2, <1>8, <2>1, assign_newSound
  <2> QED BY <1>2, <1>3, <2>1, <2>2
<1>9. ASSUME NEW p \in Places, NEW f \in Fields, operator_index(p, f) PROVE ForestInv'
  <2>1. UNCHANGED <<saved, fault>>
    BY <1>9 DEF operator_index
  <2> QED BY <1>2, <1>3, <1>9, <2>1, operator_indexSound
<1>10. ASSUME NEW p \in Places, NEW q \in Places, copy_assign(p, q) PROVE ForestInv'
  <2>1. UNCHANGED saved
    BY <1>10 DEF copy_assign
  <2>2. fault' \in BOOLEAN
    BY <1>10, Zenon DEF copy_assign
  <2> QED BY <1>2, <1>3, <1>10, <2>1, <2>2, copy_assignSound
<1>11. ASSUME NEW p \in Places, NEW q \in Places, move_assign(p, q) PROVE ForestInv'
  <2>1. UNCHANGED <<saved, fault>>
    BY <1>11 DEF move_assign
  <2> QED BY <1>2, <1>3, <1>11, <2>1, move_assignSound
<1>12. ASSUME NEW p \in Places, save(p) PROVE ForestInv'
  <2>1. PICK t \in 1 .. MaxNodes : Sound(heap', R \cup {t}) /\ t \notin R /\ saved' = Append(saved, t)
    BY <1>2, <1>12, saveSound
  <2>2. /\ saved' \in Seq(1 .. MaxNodes) /\ Len(saved') = Len(saved) + 1
        /\ saved'[Len(saved) + 1] = t
        /\ \A i \in 1 .. Len(saved) : saved'[i] = saved[i]
    BY <1>2, <2>1, AppendProperties
  <2>3. /\ DOMAIN saved' = 1 .. Len(saved) + 1 /\ DOMAIN saved = 1 .. Len(saved)
        /\ Len(saved) \in Nat
    BY <1>2, <2>2
  <2>4. \A i \in 1 .. Len(saved) : saved[i] \in R
    BY <2>3 DEF R, Range
  <2>5. IsInjective(saved')
    BY <1>2, <2>1, <2>2, <2>3, <2>4 DEF IsInjective
  <2>6. Range(saved') = R \cup {t}
    BY <2>2, <2>3 DEF Range, R
  <2>7. fault' \in BOOLEAN
    BY <1>2, <1>12 DEF save
  <2> QED BY <2>1, <2>2, <2>5, <2>6, <2>7 DEF ForestInv
<1>13. CASE flush
  <2>1. saved # << >> /\ saved' = Tail(saved) /\ fault' = fault
    BY <1>13 DEF flush
  <2>2. /\ Len(saved) \in Nat \ {0} /\ saved' \in Seq(1 .. MaxNodes) /\ Len(saved') = Len(saved) - 1
        /\ Head(saved) = saved[1]
        /\ \A i \in 1 .. Len(saved) - 1 : saved'[i] = saved[i + 1]
    BY <1>2, <2>1, EmptySeq, HeadTailProperties
  <2>3. DOMAIN saved' = 1 .. Len(saved) - 1 /\ DOMAIN saved = 1 .. Len(saved)
    BY <1>2, <2>2
  <2>4. Head(saved) \in R
    BY <2>2, <2>3 DEF R, Range
  <2>5. Sound(heap', R \ {Head(saved)})
    BY <1>2, <1>13, <2>4, flushSound
  <2>6. IsInjective(saved')
    <3>1. ASSUME NEW i \in DOMAIN saved', NEW j \in DOMAIN saved', saved'[i] = saved'[j] PROVE i = j
      <4>1. /\ i + 1 \in DOMAIN saved /\ j + 1 \in DOMAIN saved
            /\ saved[i + 1] = saved[j + 1] /\ i \in Int /\ j \in Int
        BY <2>2, <2>3, <3>1
      <4>2. i + 1 = j + 1
        BY <1>2, <4>1 DEF IsInjective
      <4> QED BY <4>1, <4>2
    <3> QED BY <3>1 DEF IsInjective
  <2>7. Range(saved') = R \ {Head(saved)}
    <3>1. \A i \in 1 .. Len(saved) - 1 : i + 1 \in 1 .. Len(saved) /\ i + 1 # 1
      BY <2>2
    <3>2. \A j \in 1 .. Len(saved) : j = 1 \/ (j - 1 \in 1 .. Len(saved) - 1 /\ (j - 1) + 1 = j)
      BY <2>2
    <3>3. ASSUME NEW x \in Range(saved') PROVE x \in R /\ x # Head(saved)
      <4>1. PICK i \in 1 .. Len(saved) - 1 : x = saved[i + 1]
        BY <2>2, <2>3 DEF Range
      <4> QED BY <1>2, <2>2, <2>3, <3>1, <4>1 DEF Range, R, IsInjective
    <3>4. ASSUME NEW x \in R, x # Head(saved) PROVE x \in Range(saved')
      <4>1. PICK j \in 1 .. Len(saved) : x = saved[j] /\ j # 1
        BY <2>2, <2>3, <3>4 DEF Range, R
      <4>2. x = saved'[j - 1] /\ j - 1 \in DOMAIN saved'
        BY <2>2, <2>3, <3>2, <4>1
      <4> QED BY <4>2 DEF Range
    <3> QED BY <3>3, <3>4
  <2> QED BY <1>2, <2>1, <2>2, <2>5, <2>6, <2>7 DEF ForestInv
<1> QED BY <1>1, <1>4, <1>5, <1>6, <1>7, <1>8, <1>9, <1>10, <1>11, <1>12, <1>13 DEF Next

THEOREM Forests == Spec => []ForestInv
BY InitForest, NextForest, PTL DEF Spec

-----------------------------------------------------------------------------
(* What follows from it.                                                      *)

\* The heap holds values: scalars, structs of named fields and cells; what was
\* saved are objects, and a scalar owns none (the constructors of mat_data.cpp).
THEOREM Typing == Spec => []TypeOK
<1>1. ForestInv => TypeOK
  <2>1. SUFFICES ASSUME ForestInv PROVE TypeOK
    OBVIOUS
  <2>2. /\ IsHeap(heap) /\ Forest(heap, Range(saved)) /\ Scope \in DOMAIN heap
        /\ saved \in Seq(1 .. MaxNodes) /\ fault \in BOOLEAN
    BY <2>1 DEF ForestInv, Sound
  <2>3. DOMAIN heap \subseteq 1 .. Scope
    BY <2>2 DEF Forest
  <2>4. \A n \in DOMAIN heap \ {Scope} : IsValue(heap[n])
    BY <2>2 DEF IsHeap
  <2> QED BY <2>2, <2>3, <2>4 DEF TypeOK, IsValue
<1> QED BY <1>1, Forests, PTL

\* However values are assigned, moved, saved and written, whether or not callers
\* assign between a value and its components: every object has one owner, of the
\* objects alive or the queue, no pointer dangles, and what is alive belongs to a
\* variable or to a saved value (unique_ptr in mat_data.h; no cycle keeps objects).
THEOREM Ownership == Spec => []OneOwner
<1>1. ForestInv => OneOwner
  <2> DEFINE slots == (UNION {{<<n, k>> : k \in DOMAIN heap[n].child} : n \in DOMAIN heap})
                          \cup {<<Null, i>> : i \in DOMAIN saved}
             pointer(s) == IF s[1] = Null THEN saved[s[2]] ELSE heap[s[1]].child[s[2]]
             R == Range(saved)
  <2>1. SUFFICES ASSUME ForestInv PROVE OneOwner
    OBVIOUS
  <2>2. /\ IsHeap(heap) /\ Forest(heap, R) /\ Scope \in DOMAIN heap /\ Null \notin DOMAIN heap
        /\ \A i, j \in DOMAIN saved : saved[i] = saved[j] => i = j
    BY <2>1 DEF ForestInv, Sound, IsInjective, Forest, Null
  <2>3. \A x : x \in R <=> \E i \in DOMAIN saved : x = saved[i]
    BY DEF Range
  <2> HIDE DEF R
  <2> DEFINE of(n) == {<<n, k>> : k \in DOMAIN heap[n].child}
             queued == {<<Null, i>> : i \in DOMAIN saved}
  <2>a. slots = (UNION {of(n) : n \in DOMAIN heap}) \cup queued
    OBVIOUS
  <2>b. \A n, k : k \in DOMAIN heap[n].child => <<n, k>> \in of(n)
    OBVIOUS
  <2>c. \A n, s : s \in of(n) => \E k : k \in DOMAIN heap[n].child /\ s = <<n, k>>
    OBVIOUS
  <2>d. \A s : s \in queued <=> \E i \in DOMAIN saved : s = <<Null, i>>
    OBVIOUS
  <2>e. \A n, k : n # Null => pointer(<<n, k>>) = heap[n].child[k]
    OBVIOUS
  <2>f. \A i : pointer(<<Null, i>>) = saved[i]
    OBVIOUS
  <2> HIDE DEF slots, pointer, of, queued
  <2>g. \A s : s \in slots <=> s \in queued \/ \E n \in DOMAIN heap : s \in of(n)
    BY <2>a
  <2>4. \A n, k, m : Edge(heap, n, k, m) => <<n, k>> \in slots /\ pointer(<<n, k>>) = m
    <3>1. ASSUME NEW n, NEW k, NEW m, Edge(heap, n, k, m)
          PROVE  <<n, k>> \in slots /\ pointer(<<n, k>>) = m
      <4>1. n \in DOMAIN heap /\ k \in DOMAIN heap[n].child /\ heap[n].child[k] = m
        BY <3>1 DEF Edge
      <4>2. pointer(<<n, k>>) = heap[n].child[k]
        BY <2>2, <2>e, <4>1
      <4>3. <<n, k>> \in of(n)
        BY <2>b, <4>1
      <4> QED BY <2>g, <4>1, <4>2, <4>3
    <3> QED BY <3>1
  <2>5. \A i \in DOMAIN saved : <<Null, i>> \in slots /\ pointer(<<Null, i>>) = saved[i]
    BY <2>d, <2>f, <2>g
  <2>6. ASSUME NEW s \in slots
        PROVE  \/ \E n, k : s = <<n, k>> /\ Edge(heap, n, k, pointer(s))
               \/ \E i \in DOMAIN saved : s = <<Null, i>> /\ pointer(s) = saved[i]
    <3>1. CASE s \in queued
      BY <2>d, <2>f, <3>1
    <3>2. CASE \E n \in DOMAIN heap : s \in of(n)
      <4>1. PICK n \in DOMAIN heap : s \in of(n)
        BY <3>2
      <4>2. PICK k : k \in DOMAIN heap[n].child /\ s = <<n, k>>
        BY <2>c, <4>1
      <4>3. pointer(s) = heap[n].child[k]
        BY <2>2, <2>e, <4>1, <4>2
      <4> QED BY <4>1, <4>2, <4>3 DEF Edge
    <3> QED BY <2>g, <3>1, <3>2
  <2>7. ASSUME NEW m \in DOMAIN heap \ {Scope}
        PROVE  Cardinality({s \in slots : pointer(s) = m}) = 1
    <3>1. \E s : {z \in slots : pointer(z) = m} = {s}
      <4>1. CASE m \in R
        <5>1. PICK i \in DOMAIN saved : m = saved[i]
          BY <2>3, <4>1
        <5>2. \A n, k : ~ Edge(heap, n, k, m)
          BY <2>2, <4>1 DEF Forest
        <5>3. ASSUME NEW z \in slots, pointer(z) = m PROVE z = <<Null, i>>
          <6>1. PICK j \in DOMAIN saved : z = <<Null, j>> /\ pointer(z) = saved[j]
            BY <2>6, <5>2, <5>3
          <6> QED BY <2>2, <5>1, <5>3, <6>1
        <5>4. <<Null, i>> \in slots /\ pointer(<<Null, i>>) = m
          BY <2>5, <5>1
        <5> QED BY <5>3, <5>4
      <4>2. CASE m \notin R
        <5>1. PICK n, k : Edge(heap, n, k, m)
          BY <2>2, <4>2 DEF Forest
        <5>2. ASSUME NEW z \in slots, pointer(z) = m PROVE z = <<n, k>>
          <6>1. PICK n2, k2 : z = <<n2, k2>> /\ Edge(heap, n2, k2, m)
            BY <2>3, <2>6, <4>2, <5>2
          <6>2. n2 = n /\ k2 = k
            BY <2>2, <5>1, <6>1 DEF Forest
          <6> QED BY <6>1, <6>2
        <5>3. <<n, k>> \in slots /\ pointer(<<n, k>>) = m
          BY <2>4, <5>1
        <5> QED BY <5>2, <5>3
      <4> QED BY <4>1, <4>2
    <3> QED BY <3>1, FS_Singleton
  <2>8. ASSUME NEW s \in slots PROVE pointer(s) \in DOMAIN heap \cup {Null}
    <3>1. CASE \E n, k : s = <<n, k>> /\ Edge(heap, n, k, pointer(s))
      BY <2>2, <3>1 DEF Forest
    <3>2. CASE \E i \in DOMAIN saved : s = <<Null, i>> /\ pointer(s) = saved[i]
      BY <2>2, <2>3, <3>2 DEF Forest
    <3> QED BY <2>6, <3>1, <3>2
  <2>9. DOMAIN heap \subseteq UNION {Owned(heap, n) : n \in {Scope} \cup R}
    <3> DEFINE U == UNION {Owned(heap, n) : n \in {Scope} \cup R}
               S == DOMAIN heap \ U
    <3>1. ASSUME NEW n \in {Scope} \cup R PROVE Tree(heap, n, Owned(heap, n))
      <4>1. n \in 0 .. Scope
        BY <2>2, MatDataAssumption DEF Forest, Scope
      <4> QED BY <2>2, <4>1, OwnedTree
    <3>2. ASSUME NEW m \in S PROVE \E n \in S : \E k : Edge(heap, n, k, m)
      <4>1. m \notin {Scope} \cup R
        BY <3>1 DEF Tree
      <4>2. PICK n, k : Edge(heap, n, k, m)
        BY <2>2, <4>1 DEF Forest
      <4>3. n \notin U
        <5>1. SUFFICES ASSUME NEW r \in {Scope} \cup R, n \in Owned(heap, r) PROVE FALSE
          OBVIOUS
        <5>2. m \in Owned(heap, r)
          BY <3>1, <4>2, <5>1 DEF Tree
        <5> QED BY <5>2
      <4> QED BY <4>2, <4>3 DEF Edge
    <3>3. S \subseteq DOMAIN heap
      OBVIOUS
    <3>4. S = {}
      <4> HIDE DEF S
      <4> QED BY <2>2, <3>2, <3>3, Up
    <3> QED BY <3>4
  <2> QED BY <2>7, <2>8, <2>9 DEF OneOwner, slots, pointer, R
<1> QED BY <1>1, Forests, PTL

\* Of a copy between values neither of which is a component of the other, the
\* right side is still whole when the left side has been reset.
LEMMA StillWhole ==
    ASSUME NEW h, NEW R, Sound(h, R), NEW p, NEW a, Slot(h, p, a),
           NEW q, NEW b, Slot(h, q, b), ~ IsPrefix(p, q), ~ IsPrefix(q, p),
           Whole(h, Target(h, q, b)), NEW g, g = Reset(h, p)
    PROVE  Whole(g, Target(h, q, b))
<1> DEFINE t == Target(h, p, a)
           n == Target(h, q, b)
           T == Owned(h, t)
           D == Owned(h, n)
<1>1. /\ Leads(h, Scope, p, t) /\ t \in 0 .. Scope /\ p \in Seq(Keys)
      /\ Leads(h, Scope, q, n) /\ n \in 0 .. Scope /\ q \in Seq(Keys)
      /\ Tree(h, n, D)
  BY TargetIs, SlotFacts DEF Slot
<1>2. a \notin D
  BY NotBelow DEF IsStrictPrefix
<1>3. Sound(g, R) /\ Freed(g, h, p, a, T)
  BY ResetSound
<1>4. D \subseteq DOMAIN h
  BY DEF Whole
<1> HIDE DEF t, n
<1>5. IsHeap(h) /\ Forest(h, R) /\ IsHeap(g) /\ Forest(g, R) /\ Null \notin DOMAIN h
  BY <1>3 DEF Sound, Forest, Null
<1>6. ASSUME NEW m \in T, m \in D PROVE FALSE
  <2>1. PICK s \in Seq(Keys) : Leads(h, t, s, m)
    BY <1>1, <1>5, OwnedIs
  <2>2. PICK r \in Seq(Keys) : Leads(h, n, r, m)
    BY <1>1, <1>5, <1>6, OwnedIs
  <2>3. /\ p \o s \in Seq(Keys) /\ Leads(h, Scope, p \o s, m)
        /\ q \o r \in Seq(Keys) /\ Leads(h, Scope, q \o r, m)
    BY <1>1, <2>1, <2>2, LeadsCat, ConcatProperties
  <2>4. m # Null
    BY <1>4, <1>5, <1>6
  <2>5. p \o s = q \o r
    BY <1>5, <2>3, <2>4, OneAddress
  <2> QED BY <1>1, <2>5, Comparable
<1> HIDE DEF T, D
<1>7. Tree(g, n, Owned(g, n))
  BY <1>1, <1>5, OwnedTree
<1>8. \A x, k, y : x \in D /\ Edge(g, x, k, y) => y \in D
  <2>1. \A x, k, y : x \in D /\ Edge(g, x, k, y) => Edge(h, x, k, y)
    BY <1>2, <1>3 DEF Freed
  <2> QED BY <1>1, <2>1 DEF Tree
<1>9. Owned(g, n) \subseteq D
  <2>1. n \in D
    BY <1>1 DEF Tree
  <2> QED BY <1>5, <1>7, <1>8, <2>1, TreeLeast
<1>10. DOMAIN g = DOMAIN h \ T
  BY <1>3 DEF Freed
<1> QED BY <1>4, <1>6, <1>9, <1>10 DEF Whole, n

\* "Copy assignment (deep copy)": as long as callers do not assign between a value
\* and its components, operator= clones an object that is whole, though it resets
\* the left side first.
THEOREM LiveCopies == ~ Aliasing => (Spec => []ClonesLiveData)
<1>1. SUFFICES ASSUME ~ Aliasing PROVE Spec => []ClonesLiveData
  OBVIOUS
<1> DEFINE Inv == ForestInv /\ ~ fault
<1>2. Init => Inv
  BY InitForest DEF Init
<1>3. Inv /\ [Next]_vars => Inv'
  <2>1. SUFFICES ASSUME Inv, [Next]_vars PROVE Inv'
    OBVIOUS
  <2>2. ForestInv'
    BY <2>1, NextForest
  <2>3. ASSUME NEW p \in Places, NEW q \in Places, copy_assign(p, q) PROVE ~ fault'
    <3> DEFINE freed == Reset(heap, p)
    <3>1. fault' = (p # q /\ ~ Whole(freed, Node(q))) /\ MayCopy(p, q)
      BY <2>3 DEF copy_assign
    <3>2. CASE p = q
      BY <3>1, <3>2
    <3>3. CASE p # q
      <4>1. Sound(heap, Range(saved))
        BY <2>1 DEF ForestInv
      <4>2. PICK a : Slot(heap, p, a)
        BY <4>1, PlaceSlot DEF Places, Sound
      <4>3. PICK b : Slot(heap, q, b)
        BY <4>1, PlaceSlot DEF Places, Sound
      <4>4. Node(q) = Target(heap, q, b)
        BY <4>3, SlotFacts DEF Node
      <4>5. Whole(heap, Node(q)) /\ ~ IsPrefix(p, q) /\ ~ IsPrefix(q, p)
        BY <1>1, <3>1, <3>3 DEF MayCopy
      <4>6. Whole(freed, Node(q))
        BY <4>1, <4>2, <4>3, <4>4, <4>5, StillWhole
      <4> QED BY <3>1, <4>6
    <3> QED BY <3>2, <3>3
  <2>4. ~ fault'
    <3>1. CASE fault' = fault
      BY <2>1, <3>1
    <3>2. CASE fault' # fault
      <4>1. Next
        BY <2>1, <3>2 DEF vars
      <4>2. \E p, q \in Places : copy_assign(p, q)
        BY <3>2, <4>1 DEF Next, assign_new, set_value, operator_index, move_assign, save, flush
      <4> QED BY <2>3, <4>2
    <3> QED BY <3>1, <3>2
  <2> QED BY <2>2, <2>4
<1>4. Inv => ClonesLiveData
  BY DEF ClonesLiveData
<1> QED BY <1>2, <1>3, <1>4, PTL DEF Spec
=============================================================================
