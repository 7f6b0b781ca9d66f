---------------------------- MODULE FilesProofs ----------------------------
(***************************************************************************)
(* Theorems about the walk of the download directory (FileWalk) and about  *)
(* the region that shows it (Downloads), for any entries, any budget, any  *)
(* settle window and any changes.  First the order of a tree's nodes.      *)
(***************************************************************************)
EXTENDS FileWalk, Downloads, FiniteSetTheorems, TLAPS

Nodes(t) == DOMAIN t \cup {Root}

(* A set has x and, with each entry, the directory it is in. *)
Closed(S, x, t) == S \subseteq Nodes(t) /\ x \in S /\ \A y \in S \ {Root} : t[y] \in S

-----------------------------------------------------------------------------
(* Trees. *)

(* What a tree is made of, and that it is finite. *)
LEMMA TreeTypes ==
  ASSUME NEW t \in Trees
  PROVE  /\ DOMAIN t \subseteq Entry /\ Root \notin DOMAIN t
         /\ \A x \in DOMAIN t : t[x] \in Nodes(t) /\ t[x] \in Dir \cup {Root}
         /\ \A S \in SUBSET DOMAIN t : S # {} => \E x \in S : t[x] \notin S
         /\ IsFiniteSet(Nodes(t))
<1>1. /\ DOMAIN t \subseteq Entry /\ IsTree(t)
  BY DEF Trees
<1>2. Root \notin Entry /\ IsFiniteSet(Entry)
  BY FileListAssumption
<1>3. IsFiniteSet(DOMAIN t) /\ IsFiniteSet({Root})
  BY <1>1, <1>2, FS_Subset, FS_Singleton
<1>4. IsFiniteSet(Nodes(t))
  BY <1>3, FS_Union DEF Nodes
<1> QED
  BY <1>1, <1>2, <1>4 DEF IsTree, Nodes

(* A path is the smallest closed set. *)
LEMMA PathIsClosed ==
  ASSUME NEW t \in Trees, NEW x \in Nodes(t)
  PROVE  Closed(Path(x, t), x, t) /\ \A S : Closed(S, x, t) => Path(x, t) \subseteq S
<1>1. \A S : Closed(S, x, t) <=> S \in {U \in SUBSET (DOMAIN t \cup {Root}) :
                                          x \in U /\ \A y \in U \ {Root} : t[y] \in U}
  BY DEF Closed, Nodes
<1>2. \A a : a \in Path(x, t) <=> a \in Nodes(t) /\ \A S : Closed(S, x, t) => a \in S
  BY <1>1 DEF Path, Nodes
<1>3. \A y \in Path(x, t) \ {Root} : t[y] \in Nodes(t)
  BY <1>2, TreeTypes DEF Nodes
<1>4. \A y \in Path(x, t) \ {Root} : t[y] \in Path(x, t)
  BY <1>2, <1>3 DEF Closed
<1>5. x \in Path(x, t) /\ Path(x, t) \subseteq Nodes(t)
  BY <1>2 DEF Closed
<1> QED
  BY <1>2, <1>4, <1>5 DEF Closed

(* The root is in nothing. *)
LEMMA PathOfRoot ==
  ASSUME NEW t \in Trees
  PROVE  Path(Root, t) = {Root}
<1>1. Closed({Root}, Root, t)
  BY DEF Closed, Nodes
<1> QED
  BY <1>1, PathIsClosed DEF Closed, Nodes

(* What a path contains, its path contains. *)
LEMMA PathWithin ==
  ASSUME NEW t \in Trees, NEW x \in Nodes(t), NEW y \in Path(x, t)
  PROVE  y \in Nodes(t) /\ Path(y, t) \subseteq Path(x, t)
<1>1. y \in Nodes(t) /\ Closed(Path(x, t), y, t)
  BY PathIsClosed DEF Closed
<1> QED
  BY <1>1, PathIsClosed

(* A path is its end and the path of the directory that is in. *)
LEMMA PathUnfolds ==
  ASSUME NEW t \in Trees, NEW x \in DOMAIN t
  PROVE  /\ t[x] \in Nodes(t) /\ t[x] \in Path(x, t)
         /\ Path(x, t) = {x} \cup Path(t[x], t)
<1>1. x \in Nodes(t) /\ x # Root /\ t[x] \in Nodes(t)
  BY TreeTypes DEF Nodes
<1>2. t[x] \in Path(x, t)
  BY <1>1, PathIsClosed DEF Closed
<1>3. Path(t[x], t) \subseteq Path(x, t) /\ x \in Path(x, t)
  BY <1>1, <1>2, PathWithin, PathIsClosed DEF Closed
<1>4. Closed({x} \cup Path(t[x], t), x, t)
  BY <1>1, PathIsClosed DEF Closed
<1> QED
  BY <1>1, <1>2, <1>3, <1>4, PathIsClosed

(* No two nodes are above each other. *)
LEMMA PathsDoNotCycle ==
  ASSUME NEW t \in Trees, NEW x \in Nodes(t), NEW y \in Path(x, t), x \in Path(y, t)
  PROVE  x = y
<1> SUFFICES ASSUME x # y PROVE FALSE
  OBVIOUS
<1> DEFINE C == {z \in Path(x, t) : x \in Path(z, t)}
<1>1. \A z \in C : z \in DOMAIN t
  <2>1. \A z \in C : z \in Nodes(t)
    BY PathIsClosed DEF Closed
  <2>2. ASSUME Root \in C PROVE FALSE
    <3>1. x = Root
      BY <2>2, PathOfRoot
    <3> QED BY <3>1, PathOfRoot
  <2> QED BY <2>1, <2>2 DEF Nodes
<1>2. x \in C
  BY PathIsClosed DEF Closed
<1>3. PICK z \in C : t[z] \notin C
  BY <1>1, <1>2, TreeTypes
<1>4. z \in DOMAIN t /\ t[z] \in Path(x, t)
  BY <1>1, <1>3, PathUnfolds, PathWithin, Zenon DEF Nodes
<1>5. x \notin Path(t[z], t)
  BY <1>3, <1>4
<1>6. z = x
  BY <1>3, <1>4, <1>5, PathUnfolds
<1>7. y \in Path(t[x], t)
  BY <1>4, <1>6, PathUnfolds
<1>8. x \in Path(t[x], t)
  BY <1>4, <1>6, <1>7, PathUnfolds, PathWithin
<1> QED
  BY <1>5, <1>6, <1>8

(* The root is on every path, and the nodes on a path are above one another. *)
LEMMA PathIsChain ==
  ASSUME NEW t \in Trees, NEW x \in Nodes(t)
  PROVE  /\ Root \in Path(x, t)
         /\ \A y, z \in Path(x, t) : y \in Path(z, t) \/ z \in Path(y, t)
<1> DEFINE Chain(w) == /\ Root \in Path(w, t)
                       /\ \A y, z \in Path(w, t) : y \in Path(z, t) \/ z \in Path(y, t)
<1> DEFINE B == {w \in DOMAIN t : ~Chain(w)}
<1>1. Chain(Root)
  BY PathOfRoot
<1>2. ASSUME NEW w \in DOMAIN t, Chain(t[w]) PROVE Chain(w)
  <2>1. Path(w, t) = {w} \cup Path(t[w], t)
    BY PathUnfolds
  <2> QED BY <1>2, <2>1
<1>3. B = {}
  <2> SUFFICES ASSUME B # {} PROVE FALSE
    OBVIOUS
  <2>1. PICK w \in B : t[w] \notin B
    BY TreeTypes
  <2>2. t[w] \in Nodes(t)
    BY TreeTypes
  <2>3. Chain(t[w])
    BY <1>1, <2>1, <2>2 DEF Nodes
  <2> QED BY <1>2, <2>1, <2>3
<1> QED
  BY <1>1, <1>3 DEF Nodes

(* Of two entries of one directory, a path has at most one. *)
LEMMA OneSiblingOnPath ==
  ASSUME NEW t \in Trees, NEW x \in Nodes(t),
         NEW a \in Path(x, t) \ {Root}, NEW b \in Path(x, t) \ {Root}, t[a] = t[b]
  PROVE  a = b
<1>1. a \in DOMAIN t /\ b \in DOMAIN t
  BY PathIsClosed DEF Closed, Nodes
<1>2. ASSUME NEW c \in DOMAIN t, NEW d \in DOMAIN t, t[c] = t[d], c \in Path(d, t)
      PROVE  c = d
  <2> SUFFICES ASSUME c # d PROVE FALSE
    OBVIOUS
  <2>1. c \in Path(t[c], t)
    BY <1>2, PathUnfolds
  <2>2. t[c] \in Path(c, t) /\ c \in Nodes(t)
    BY PathUnfolds DEF Nodes
  <2>3. t[c] = c
    BY <2>1, <2>2, PathsDoNotCycle
  <2>4. \E z \in {c} : t[z] \notin {c}
    BY TreeTypes
  <2> QED BY <2>3, <2>4
<1> QED
  BY <1>1, <1>2, PathIsChain

(* Under every node above another there is the entry on the way to that. *)
LEMMA EntryOnTheWay ==
  ASSUME NEW t \in Trees, NEW x \in Nodes(t), NEW y \in Ancestors(x, t)
  PROVE  \E a \in Path(x, t) \ {Root} : t[a] = y
<1> DEFINE S == {x} \cup {t[a] : a \in Path(x, t) \ {Root}}
<1>1. S \subseteq Path(x, t)
  BY PathIsClosed DEF Closed
<1>2. Closed(S, x, t)
  BY <1>1, PathIsClosed DEF Closed
<1>3. y \in S
  BY <1>2, PathIsClosed DEF Ancestors
<1> QED
  BY <1>3 DEF Ancestors

(* What is above an entry but the entry itself is above the directory it is in. *)
LEMMA AboveMeansInTheDirectory ==
  ASSUME NEW t \in Trees, NEW x \in DOMAIN t, NEW y \in Path(x, t), y # x
  PROVE  y \in Path(t[x], t)
  BY PathUnfolds

-----------------------------------------------------------------------------
(* The order of the nodes of a tree. *)

(* Before is a strict total order of a tree's nodes: no node is before itself, *)
LEMMA BeforeIrreflexive ==
  ASSUME NEW t \in Trees, NEW x \in Nodes(t)
  PROVE  ~Before(x, x, t)
<1> SUFFICES ASSUME NEW a \in Path(x, t) \ {Root}, NEW b \in Path(x, t) \ {Root},
                    t[a] = t[b], a < b
             PROVE  FALSE
  BY DEF Before, Ancestors
<1>1. a = b /\ a \in Nat
  BY OneSiblingOnPath, PathIsClosed, TreeTypes, FileListAssumption DEF Closed, Nodes
<1> QED
  BY <1>1

(* of two nodes one is before the other, *)
LEMMA BeforeTotal ==
  ASSUME NEW t \in Trees, NEW x \in Nodes(t), NEW y \in Nodes(t), x # y
  PROVE  Before(x, y, t) \/ Before(y, x, t)
<1> DEFINE Apart(w) ==
      \E a \in Path(x, t) \ {Root}, b \in Path(w, t) \ {Root} : t[a] = t[b] /\ a # b
<1> DEFINE Compared(w) == x \in Path(w, t) \/ w \in Path(x, t) \/ Apart(w)
<1> DEFINE B == {w \in DOMAIN t : ~Compared(w)}
<1>1. Compared(Root)
  BY PathIsChain
<1>2. ASSUME NEW w \in DOMAIN t, Compared(t[w]) PROVE Compared(w)
  <2>1. Path(w, t) = {w} \cup Path(t[w], t) /\ t[w] \in Nodes(t)
    BY PathUnfolds
  <2>2. CASE x \in Path(t[w], t) \/ Apart(t[w])
    BY <2>1, <2>2
  <2>3. CASE x \notin Path(t[w], t) /\ t[w] \in Path(x, t)
    <3>1. t[w] # x
      BY <2>1, <2>3, PathIsClosed DEF Closed
    <3>2. PICK a \in Path(x, t) \ {Root} : t[a] = t[w]
      BY <2>3, <3>1, EntryOnTheWay DEF Ancestors
    <3>3. w # Root
      BY TreeTypes
    <3>4. w \in Path(w, t)
      BY <2>1
    <3> QED BY <3>2, <3>3, <3>4
  <2> QED BY <1>2, <2>2, <2>3
<1>3. B = {}
  <2> SUFFICES ASSUME B # {} PROVE FALSE
    OBVIOUS
  <2>1. PICK w \in B : t[w] \notin B
    BY TreeTypes
  <2>2. t[w] \in Nodes(t)
    BY TreeTypes
  <2>3. Compared(t[w])
    BY <1>1, <2>1, <2>2 DEF Nodes
  <2> QED BY <1>2, <2>1, <2>3
<1>4. Compared(y)
  BY <1>1, <1>3 DEF Nodes
<1>5. CASE Apart(y)
  <2>1. PICK a \in Path(x, t) \ {Root}, b \in Path(y, t) \ {Root} : t[a] = t[b] /\ a # b
    BY <1>5
  <2>2. a \in Nat /\ b \in Nat
    BY PathIsClosed, TreeTypes, FileListAssumption DEF Closed, Nodes
  <2>3. a < b \/ b < a
    BY <2>1, <2>2
  <2> QED BY <2>1, <2>3 DEF Before
<1>6. CASE x \in Path(y, t) \/ y \in Path(x, t)
  BY <1>6 DEF Before, Ancestors
<1> QED
  BY <1>4, <1>5, <1>6

(* and what is before something is before all that comes after that. *)
LEMMA BeforeTransitive ==
  ASSUME NEW t \in Trees, NEW x \in Nodes(t), NEW y \in Nodes(t), NEW z \in Nodes(t),
         Before(x, y, t), Before(y, z, t)
  PROVE  Before(x, z, t)
<1> DEFINE Under(v, a) == a \in Path(v, t) \ {Root}
<1> DEFINE Sibling(a, b) == t[a] = t[b] /\ a < b
<1>0. \A v \in Nodes(t) : \A a : Under(v, a) => a \in DOMAIN t /\ a \in Nat /\ a \in Nodes(t)
  BY PathIsClosed, TreeTypes, FileListAssumption DEF Closed, Nodes
<1>1. CASE x \in Ancestors(y, t) /\ y \in Ancestors(z, t)
  <2>1. x \in Path(z, t)
    BY <1>1, PathWithin DEF Ancestors
  <2>2. x # z
    BY <1>1, PathsDoNotCycle DEF Ancestors
  <2> QED BY <2>1, <2>2 DEF Before, Ancestors
<1>2. ASSUME x \in Ancestors(y, t),
             NEW a, NEW b, Under(y, a), Under(z, b), Sibling(a, b)
      PROVE  Before(x, z, t)
  <2>1. a # b
    BY <1>0, <1>2
  <2>2. CASE a \in Path(x, t)
    BY <1>2, <2>2 DEF Before
  <2>3. CASE a \notin Path(x, t)
    <3>1. x \in Path(a, t) /\ x # a
      BY <1>2, <2>3, PathIsChain, PathIsClosed DEF Ancestors, Closed
    <3>2. x \in Path(t[b], t)
      BY <1>0, <1>2, <3>1, AboveMeansInTheDirectory
    <3>3. t[b] \in Path(b, t) /\ Path(b, t) \subseteq Path(z, t)
      BY <1>0, <1>2, PathUnfolds, PathWithin
    <3>4. x \in Path(z, t)
      BY <1>0, <1>2, <3>2, <3>3, PathWithin
    <3>5. x # z
      <4> SUFFICES ASSUME x = z PROVE FALSE
        OBVIOUS
      <4>1. b \in Path(y, t)
        BY <1>2, PathWithin DEF Ancestors
      <4> QED BY <1>2, <2>1, <4>1, OneSiblingOnPath
    <3> QED BY <3>4, <3>5 DEF Before, Ancestors
  <2> QED BY <2>2, <2>3
<1>3. ASSUME NEW a, NEW b, Under(x, a), Under(y, b), Sibling(a, b), y \in Path(z, t)
      PROVE  Before(x, z, t)
  <2>1. b \in Path(z, t)
    BY <1>3, PathWithin
  <2> QED BY <1>3, <2>1 DEF Before
<1>4. ASSUME NEW a, NEW b, Under(x, a), Under(y, b), Sibling(a, b),
             NEW c, NEW d, Under(y, c), Under(z, d), Sibling(c, d)
      PROVE  Before(x, z, t)
  <2>1. CASE b = c
    <3>1. Sibling(a, d)
      BY <1>0, <1>4, <2>1
    <3> QED BY <1>4, <3>1 DEF Before
  <2>2. CASE b \in Path(c, t) /\ b # c
    <3>1. b \in Path(t[d], t) /\ t[d] \in Path(d, t) /\ Path(d, t) \subseteq Path(z, t)
      BY <1>0, <1>4, <2>2, AboveMeansInTheDirectory, PathUnfolds, PathWithin
    <3>2. b \in Path(z, t)
      BY <1>0, <1>4, <3>1, PathWithin
    <3> QED BY <1>4, <3>2 DEF Before
  <2>3. CASE c \in Path(b, t) /\ b # c
    <3>1. c \in Path(t[a], t) /\ t[a] \in Path(a, t) /\ Path(a, t) \subseteq Path(x, t)
      BY <1>0, <1>4, <2>3, AboveMeansInTheDirectory, PathUnfolds, PathWithin
    <3>2. c \in Path(x, t)
      BY <1>0, <1>4, <3>1, PathWithin
    <3> QED BY <1>4, <3>2 DEF Before
  <2> QED BY <1>4, <2>1, <2>2, <2>3, PathIsChain
<1> HIDE DEF Under, Sibling
<1>5. ASSUME NEW v, NEW w, Before(v, w, t)
      PROVE  \/ v \in Ancestors(w, t)
             \/ \E a, b : Under(v, a) /\ Under(w, b) /\ Sibling(a, b)
  BY <1>5 DEF Before, Under, Sibling
<1> QED
  BY <1>1, <1>2, <1>3, <1>4, <1>5 DEF Ancestors

-----------------------------------------------------------------------------
(* Sorting. *)

(* R orders the finite set S, strictly and totally. *)
Orders(R, S) ==
  /\ IsFiniteSet(S)
  /\ \A x \in S : <<x, x>> \notin R
  /\ \A x, y \in S : x # y => <<x, y>> \in R \/ <<y, x>> \in R
  /\ \A x, y, z \in S : <<x, y>> \in R /\ <<y, z>> \in R => <<x, z>> \in R

(* s is in the order R. *)
Increasing(s, R) == \A i, j \in DOMAIN s : i < j => <<s[i], s[j]>> \in R

(* What is below x in S. *)
Below(x, S, R) == {y \in S : <<y, x>> \in R}

(* What is below more is more. *)
LEMMA RanksDiffer ==
  ASSUME NEW S, NEW R, Orders(R, S), NEW x \in S
  PROVE  /\ Cardinality(Below(x, S, R)) \in 0..(Cardinality(S) - 1)
         /\ \A y \in S : <<x, y>> \in R => Cardinality(Below(x, S, R)) < Cardinality(Below(y, S, R))
<1>1. ASSUME NEW U, NEW V, IsFiniteSet(V), U \subseteq V, U # V
      PROVE  Cardinality(U) \in Nat /\ Cardinality(V) \in Nat /\ Cardinality(U) < Cardinality(V)
  BY <1>1, FS_Subset, FS_CardinalityType
<1>2. Below(x, S, R) \subseteq S /\ x \in S \ Below(x, S, R)
  BY DEF Below, Orders
<1>3. ASSUME NEW y \in S, <<x, y>> \in R
      PROVE  /\ Below(x, S, R) \subseteq Below(y, S, R) /\ x \in Below(y, S, R)
             /\ IsFiniteSet(Below(y, S, R))
  <2>1. Below(y, S, R) \subseteq S
    BY DEF Below
  <2>2. IsFiniteSet(Below(y, S, R))
    BY <2>1, FS_Subset DEF Orders
  <2> QED BY <1>3, <2>2 DEF Below, Orders
<1>4. IsFiniteSet(S)
  BY DEF Orders
<1>5. Cardinality(Below(x, S, R)) \in Nat /\ Cardinality(S) \in Nat
      /\ Cardinality(Below(x, S, R)) < Cardinality(S)
  BY <1>1, <1>2, <1>4
<1>6. \A y \in S : <<x, y>> \in R => Cardinality(Below(x, S, R)) < Cardinality(Below(y, S, R))
  BY <1>1, <1>2, <1>3
<1> QED
  BY <1>5, <1>6

(* SortedBy returns the elements of the set, in increasing order. *)
LEMMA SortedBySorts ==
  ASSUME NEW S, NEW R, Orders(R, S)
  PROVE  /\ SortedBy(S, R) \in Seq(S) /\ Len(SortedBy(S, R)) = Cardinality(S)
         /\ ToSet(SortedBy(S, R)) = S
         /\ Increasing(SortedBy(S, R), R)
<1> DEFINE m == Cardinality(S)
           rank == [x \in S |-> Cardinality(Below(x, S, R))]
           s == SortedBy(S, R)
<1>1. IsFiniteSet(S) /\ m \in Nat
  BY FS_CardinalityType DEF Orders
<1>2. rank \in [S -> 0..(m - 1)]
  BY RanksDiffer
<1>3. \A x, y \in S : x # y => rank[x] # rank[y]
  <2> TAKE x, y \in S
  <2>1. <<x, y>> \in R => rank[x] < rank[y]
    BY RanksDiffer
  <2>2. <<y, x>> \in R => rank[y] < rank[x]
    BY RanksDiffer
  <2>3. rank[x] \in Int /\ rank[y] \in Int
    BY <1>2
  <2> QED BY <2>1, <2>2, <2>3 DEF Orders
<1>4. IsFiniteSet(0..(m - 1)) /\ Cardinality(0..(m - 1)) = m
  BY <1>1, FS_Interval
<1>5. rank \in Injection(S, 0..(m - 1))
  BY <1>2, <1>3 DEF Injection, IsInjective
<1>6. rank \in Surjection(S, 0..(m - 1))
  BY <1>4, <1>5, FS_Injection
<1>7. \A k \in 0..(m - 1) : \E x \in S : rank[x] = k
  BY <1>6 DEF Surjection
<1>8. s = [i \in 1..m |-> CHOOSE x \in S : Cardinality(Below(x, S, R)) = i - 1]
  BY DEF SortedBy, Below
<1>9. \A i \in 1..m : s[i] \in S /\ rank[s[i]] = i - 1
  <2> TAKE i \in 1..m
  <2>1. i - 1 \in 0..(m - 1)
    BY <1>1
  <2>2. \E x \in S : Cardinality(Below(x, S, R)) = i - 1
    BY <1>7, <2>1
  <2>3. s[i] = CHOOSE x \in S : Cardinality(Below(x, S, R)) = i - 1
    BY <1>8
  <2> QED BY <2>2, <2>3
<1>10. DOMAIN s = 1..m
  BY <1>8
<1> HIDE DEF rank, s
<1>11. s \in Seq(S) /\ Len(s) = m
  BY <1>1, <1>8, <1>9
<1>12. \A x \in S : x \in ToSet(s)
  <2> TAKE x \in S
  <2>1. rank[x] \in 0..(m - 1) /\ rank[x] + 1 \in 1..m
    BY <1>1, <1>2
  <2>2. rank[s[rank[x] + 1]] = rank[x] /\ s[rank[x] + 1] \in S
    BY <1>9, <2>1
  <2>3. s[rank[x] + 1] = x
    BY <1>3, <2>2
  <2> QED BY <1>10, <2>1, <2>3 DEF ToSet
<1>13. ToSet(s) = S
  BY <1>9, <1>10, <1>12 DEF ToSet
<1>14. Increasing(s, R)
  <2> SUFFICES ASSUME NEW i \in 1..m, NEW j \in 1..m, i < j
               PROVE  <<s[i], s[j]>> \in R
    BY <1>10 DEF Increasing
  <2>1. s[i] \in S /\ s[j] \in S /\ rank[s[i]] < rank[s[j]]
    BY <1>9
  <2>2. s[i] # s[j]
    BY <1>1, <2>1, <1>9
  <2>3. <<s[j], s[i]>> \in R => rank[s[j]] < rank[s[i]]
    BY <2>1, RanksDiffer DEF rank
  <2>4. rank[s[i]] = i - 1 /\ rank[s[j]] = j - 1
    BY <1>9
  <2> QED BY <2>1, <2>2, <2>3, <2>4 DEF Orders
<1> QED
  BY <1>11, <1>13, <1>14 DEF s

(* There is only one such sequence. *)
LEMMA SortedByIsUnique ==
  ASSUME NEW S, NEW R, Orders(R, S), NEW s \in Seq(S), ToSet(s) = S, Increasing(s, R)
  PROVE  s = SortedBy(S, R) /\ Len(s) = Cardinality(S)
<1>1. DOMAIN s = 1..Len(s) /\ Len(s) \in Nat /\ \A i \in 1..Len(s) : s[i] \in S
  OBVIOUS
(* The numbers of elements: s counts them. *)
<1>2. ASSUME NEW k \in 0..Len(s)
      PROVE  Cardinality({s[j] : j \in 1..k}) = k
  <2> DEFINE T == {s[j] : j \in 1..k}
             f == [j \in 1..k |-> s[j]]
  <2>1. k \in Nat /\ IsFiniteSet(1..k) /\ Cardinality(1..k) = k
    BY FS_Interval
  <2>2. f \in [1..k -> T] /\ \A y \in T : \E j \in 1..k : f[j] = y
    OBVIOUS
  <2>3. f \in Surjection(1..k, T)
    BY <2>2 DEF Surjection
  <2>4. \A i, j \in 1..k : i < j => s[i] # s[j]
    <3>1. \A i \in 1..k : i \in DOMAIN s /\ s[i] \in S
      BY <1>1
    <3>2. \A i, j \in 1..k : i < j => <<s[i], s[j]>> \in R
      BY <3>1 DEF Increasing
    <3> QED BY <3>1, <3>2 DEF Orders
  <2>5. \A i, j \in 1..k : i # j => f[i] # f[j]
    <3> TAKE i, j \in 1..k
    <3>1. i < j => s[i] # s[j]
      BY <2>4
    <3>2. j < i => s[j] # s[i]
      BY <2>4
    <3> QED BY <3>1, <3>2
  <2>6. f \in Injection(1..k, T)
    BY <2>2, <2>5 DEF Injection, IsInjective
  <2> QED BY <2>1, <2>3, <2>6, FS_Surjection
<1>3. Len(s) = Cardinality(S)
  <2>1. S = {s[j] : j \in 1..Len(s)}
    BY <1>1 DEF ToSet
  <2>2. Len(s) \in 0..Len(s)
    BY <1>1
  <2> QED BY <1>2, <2>1, <2>2, Zenon
<1>4. ASSUME NEW i \in 1..Len(s)
      PROVE  Cardinality(Below(s[i], S, R)) = i - 1
  <2>1. Below(s[i], S, R) = {s[j] : j \in 1..(i - 1)}
    <3>1. ASSUME NEW j \in 1..(i - 1) PROVE s[j] \in Below(s[i], S, R)
      BY <1>1 DEF Increasing, Below
    <3>2. ASSUME NEW y \in Below(s[i], S, R) PROVE \E j \in 1..(i - 1) : y = s[j]
      <4>1. PICK j \in 1..Len(s) : y = s[j]
        BY <1>1 DEF Below, ToSet
      <4>2. ~(i < j)
        BY <1>1, <4>1 DEF Below, Increasing, Orders
      <4>3. i # j
        BY <1>1, <4>1 DEF Below, Orders
      <4>4. j \in 1..(i - 1)
        BY <1>1, <4>2, <4>3
      <4> QED BY <4>1, <4>4
    <3> QED BY <3>1, <3>2
  <2>2. i - 1 \in 0..Len(s)
    BY <1>1
  <2> QED BY <1>2, <2>1, <2>2
<1>5. ASSUME NEW i \in 1..Len(s), NEW x \in S, Cardinality(Below(x, S, R)) = i - 1
      PROVE  x = s[i]
  <2>1. PICK j \in 1..Len(s) : x = s[j]
    BY <1>1 DEF ToSet
  <2>2. j - 1 = i - 1
    BY <1>4, <1>5, <2>1
  <2> QED BY <2>1, <2>2
<1>6. ASSUME NEW i \in 1..Len(s)
      PROVE  s[i] = CHOOSE x \in S : Cardinality(Below(x, S, R)) = i - 1
  BY <1>1, <1>4, <1>5
<1>7. SortedBy(S, R) = [i \in 1..Len(s) |-> CHOOSE x \in S : Cardinality(Below(x, S, R)) = i - 1]
  BY <1>3 DEF SortedBy, Below
<1>8. s = [i \in 1..Len(s) |-> s[i]]
  OBVIOUS
<1>9. s = [i \in 1..Len(s) |-> CHOOSE x \in S : Cardinality(Below(x, S, R)) = i - 1]
  BY <1>6, <1>8
<1> QED
  BY <1>3, <1>7, <1>9

-----------------------------------------------------------------------------
(* Listings. *)

(* Any nodes of a tree can be put in its order. *)
LEMMA InOrderSorts ==
  ASSUME NEW t \in Trees, NEW S \in SUBSET Nodes(t)
  PROVE  LET R == {p \in S \X S : Before(p[1], p[2], t)}
         IN  /\ Orders(R, S)
             /\ InOrder(S, t) = SortedBy(S, R)
             /\ InOrder(S, t) \in Seq(S) /\ Len(InOrder(S, t)) = Cardinality(S)
             /\ ToSet(InOrder(S, t)) = S
<1> DEFINE R == {p \in S \X S : Before(p[1], p[2], t)}
<1>1. \A x, y \in S : <<x, y>> \in R <=> Before(x, y, t)
  OBVIOUS
<1>2. IsFiniteSet(S)
  BY TreeTypes, FS_Subset
<1>3. \A x \in S : ~Before(x, x, t)
  BY BeforeIrreflexive
<1>4. \A x, y \in S : x # y => Before(x, y, t) \/ Before(y, x, t)
  BY BeforeTotal
<1>5. \A x, y, z \in S : Before(x, y, t) /\ Before(y, z, t) => Before(x, z, t)
  <2> TAKE x, y, z \in S
  <2> QED BY BeforeTransitive
<1>6. InOrder(S, t) = SortedBy(S, R)
  BY DEF InOrder
<1> HIDE DEF R
<1>7. Orders(R, S)
  BY <1>1, <1>2, <1>3, <1>4, <1>5 DEF Orders
<1> QED
  BY <1>6, <1>7, SortedBySorts DEF R

(* A listing has the nodes Listed says, each a node of the tree. *)
LEMMA ListTypes ==
  ASSUME NEW t \in Trees, NEW u
  PROVE  /\ List(t, u).nodes \in Seq(Nodes(t)) /\ List(t, u).Truncated \in BOOLEAN
         /\ ToSet(List(t, u).nodes) = Listed(t, u)
<1>1. Listed(t, u) \subseteq Nodes(t)
  BY DEF Listed, Visited, Nodes
<1>2. /\ InOrder(Listed(t, u), t) \in Seq(Listed(t, u))
      /\ ToSet(InOrder(Listed(t, u), t)) = Listed(t, u)
  BY <1>1, InOrderSorts
<1>3. InOrder(Listed(t, u), t) \in Seq(Nodes(t))
  BY <1>1, <1>2
<1> QED
  BY <1>2, <1>3 DEF List

(* A listing that is not truncated, of directories that can all be read, has every node. *)
LEMMA WholeTreeIsListed ==
  ASSUME NEW t \in Trees, ~List(t, {}).Truncated
  PROVE  ToSet(List(t, {}).nodes) = Nodes(t)
<1>1. Cut(t, {}) = {}
  BY DEF List
<1>2. Visited(t, {}) = Nodes(t)
  BY DEF Visited, Nodes
<1>3. Listed(t, {}) = Nodes(t)
  BY <1>1, <1>2 DEF Listed
<1> QED
  BY <1>3, ListTypes

-----------------------------------------------------------------------------
(* The downloads region. *)

(* The fingerprint of the files as they are. *)
Signature == contentSignature(listing, rev)

(* Nothing is newer than the last change. *)
Dated ==
  /\ \A x \in Node : rev[x] <= changes
  /\ \A i \in DOMAIN dlContentSig : dlContentSig[i] <= changes

(* The region was drawn with the signature that was admitted last. *)
DrawnAsAdmitted == body = NoBody \/ body[2] = dlContentSig

(* What was admitted was announced to whoever has a page, or is shown. *)
Announced ==
  page # "closed" /\ dlContentSig = Signature /\ ~listing.Truncated => pinged \/ shown = Fragment

(* What a drawing did not admit came within the window of one that did. *)
HeldBack ==
  Drawn => dlContentSig = Signature \/ (dlContentAt # Never /\ now < dlContentAt + Settle)

(* What was admitted after the last change is the last change. *)
AdmittedLast == dlContentAt > changedAt => dlContentSig = Signature

(* The inductive invariant of the region. *)
RegionInv ==
  TypeOK /\ Dated /\ DrawnAsAdmitted /\ Announced /\ HeldBack /\ AdmittedLast

(* The signature of a listing dates each of its nodes. *)
LEMMA SignatureDates ==
  ASSUME NEW t \in Trees, NEW r \in [Node -> 0..MaxChange]
  PROVE  LET l == List(t, {})
             g == contentSignature(l, r)
         IN  /\ g \in Seq(0..MaxChange)
             /\ DOMAIN g = DOMAIN l.nodes
             /\ \A i \in DOMAIN g : g[i] = r[l.nodes[i]] /\ l.nodes[i] \in Node
<1> DEFINE l == List(t, {})
           g == contentSignature(l, r)
<1>1. Nodes(t) \subseteq Node
  BY TreeTypes DEF Nodes, Node
<1>2. l.nodes \in Seq(Node)
  BY <1>1, ListTypes
<1>3. g = [i \in DOMAIN l.nodes |-> r[l.nodes[i]]]
  BY DEF contentSignature
<1> HIDE DEF l
<1>4. DOMAIN l.nodes = 1..Len(l.nodes) /\ Len(l.nodes) \in Nat
  BY <1>2
<1>5. \A i \in DOMAIN l.nodes : l.nodes[i] \in Node
  BY <1>2
<1>6. g \in Seq(0..MaxChange)
  BY <1>3, <1>4, <1>5
<1> QED
  BY <1>3, <1>5, <1>6 DEF l

(* The listing of the files as they are, and its signature. *)
LEMMA ListingTypes ==
  ASSUME TypeOK
  PROVE  /\ listing = List(parent, {})
         /\ Signature \in Seq(0..MaxChange)
         /\ \A i \in DOMAIN Signature : Signature[i] = rev[listing.nodes[i]] /\ listing.nodes[i] \in Node
<1>1. parent \in Trees /\ rev \in [Node -> 0..MaxChange]
  BY DEF TypeOK
<1>2. listing = List(parent, {})
  BY <1>1 DEF listing, Listings
<1> QED
  BY <1>1, <1>2, SignatureDates DEF Signature

(* Nothing is shown, drawn or changed at first. *)
LEMMA InitRegion == Init => RegionInv
<1> SUFFICES ASSUME Init PROVE RegionInv
  OBVIOUS
<1>1. TypeOK
  <2>1. now \in 1..MaxTime /\ changes \in 0..MaxChange /\ changedAt \in 1..now
        /\ dlContentAt \in 0..now
    BY DownloadsAssumption DEF Init, Never
  <2>2. rev \in [Node -> 0..MaxChange]
    BY DownloadsAssumption DEF Init
  <2>3. dlContentSig \in Seq(0..MaxChange)
    BY DEF Init
  <2> QED BY <2>1, <2>2, <2>3 DEF Init, TypeOK
<1>2. Dated /\ DrawnAsAdmitted /\ Announced /\ HeldBack /\ AdmittedLast
  BY DEF Init, Dated, DrawnAsAdmitted, Announced, HeldBack, AdmittedLast, Drawn, Never
<1> QED
  BY <1>1, <1>2 DEF RegionInv

(* A change is the newest. *)
LEMMA ChangeTypes ==
  ASSUME TypeOK, Dated, NEW tree, NEW touched, Change(tree, touched)
  PROVE  TypeOK' /\ Dated'
<1>1. changes \in Nat /\ changes' = changes + 1 /\ changes' \in 0..MaxChange
  BY DownloadsAssumption DEF TypeOK, Change
<1>2. /\ rev' = [x \in Node |-> IF x \in touched THEN changes'
                                ELSE IF x \in DOMAIN tree \cup {Root} THEN rev[x] ELSE 0]
      /\ UNCHANGED <<now, uiVars, due, browserVars>> /\ parent' = tree /\ tree \in Trees
      /\ changedAt' = now
  BY DEF Change
<1>3. \A x \in Node : rev[x] \in 0..MaxChange /\ rev[x] <= changes
  BY DEF TypeOK, Dated
<1>4. \A x \in Node : rev'[x] \in 0..MaxChange /\ rev'[x] <= changes'
  <2> TAKE x \in Node
  <2>1. rev'[x] \in {changes', rev[x], 0}
    BY <1>2
  <2>2. rev[x] \in Nat /\ rev[x] <= MaxChange /\ rev[x] <= changes /\ MaxChange \in Nat
    BY <1>3, DownloadsAssumption
  <2> QED BY <1>1, <2>1, <2>2
<1>5. rev' \in [Node -> 0..MaxChange]
  BY <1>2, <1>4
<1>6. TypeOK'
  BY <1>1, <1>2, <1>5 DEF TypeOK, uiVars, browserVars
<1>7. \A i \in DOMAIN dlContentSig : dlContentSig[i] <= changes'
  <2> TAKE i \in DOMAIN dlContentSig
  <2>1. dlContentSig[i] \in Nat /\ dlContentSig[i] <= changes
    BY DownloadsAssumption DEF TypeOK, Dated
  <2> QED BY <1>1, <2>1
<1> QED
  BY <1>2, <1>4, <1>6, <1>7 DEF Dated, uiVars

(* A change of a node there is shows in the signature of a listing that has every node. *)
LEMMA ChangeShows ==
  ASSUME TypeOK, Dated, NEW tree, NEW touched, Change(tree, touched),
         touched \cap Nodes(tree) # {}, ~listing'.Truncated
  PROVE  dlContentSig' # Signature'
<1>1. TypeOK' /\ Dated'
  BY ChangeTypes
<1>2. tree \in Trees /\ parent' = tree /\ dlContentSig' = dlContentSig
      /\ changes' = changes + 1 /\ changes \in Nat
  BY DEF Change, uiVars, TypeOK
<1>3. PICK x \in touched : x \in Nodes(tree)
  OBVIOUS
<1>4. x \in Node /\ rev'[x] = changes'
  <2>1. x \in Node
    BY <1>2, <1>3, TreeTypes DEF Nodes, Node
  <2> QED BY <1>3, <2>1 DEF Change
<1>5. /\ listing' = List(tree, {})
      /\ \A i \in DOMAIN listing'.nodes : i \in DOMAIN Signature' /\ Signature'[i] = rev'[listing'.nodes[i]]
  <2>1. rev' \in [Node -> 0..MaxChange]
    BY <1>1 DEF TypeOK
  <2>2. listing' = List(tree, {})
    BY <1>2 DEF listing, Listings
  <2>3. Signature' = contentSignature(List(tree, {}), rev')
    BY <2>2 DEF Signature
  <2> QED BY <1>2, <2>1, <2>2, <2>3, SignatureDates
<1>6. x \in ToSet(listing'.nodes)
  BY <1>2, <1>3, <1>5, WholeTreeIsListed
<1>7. PICK i \in DOMAIN Signature' : Signature'[i] = changes'
  BY <1>4, <1>5, <1>6 DEF ToSet
<1>8. \A j \in DOMAIN dlContentSig : dlContentSig[j] <= changes /\ dlContentSig[j] \in Nat
  BY DownloadsAssumption DEF Dated, TypeOK
<1> QED
  BY <1>2, <1>7, <1>8

(* A change that touches a node of the tree it leaves keeps the invariant: the *)
(* signature is another one, unless the listing hides the change.              *)
LEMMA ChangeKeeps ==
  ASSUME RegionInv, NEW tree, NEW touched, Change(tree, touched),
         touched \cap Nodes(tree) # {}
  PROVE  RegionInv'
<1>1. TypeOK' /\ Dated'
  BY ChangeTypes DEF RegionInv
<1>2. UNCHANGED <<now, uiVars, due, browserVars>> /\ changedAt' = now
  BY DEF Change
<1>3. DrawnAsAdmitted'
  BY <1>2 DEF RegionInv, DrawnAsAdmitted, uiVars
<1>4. Announced'
  BY <1>2, ChangeShows DEF RegionInv, Announced
<1>5. HeldBack' /\ AdmittedLast'
  BY <1>2 DEF RegionInv, TypeOK, HeldBack, Drawn, AdmittedLast, uiVars
<1> QED
  BY <1>1, <1>3, <1>4, <1>5 DEF RegionInv

(* Every change of the files touches a node that is there afterwards. *)
LEMMA FilesKeep ==
  ASSUME RegionInv,
         \/ \E f \in File : Write(f)
         \/ \E x \in Entry : Delete(x) \/ \E d \in Dir \cup {Root} : Create(x, d) \/ Move(x, d)
  PROVE  RegionInv'
<1>0. parent \in Trees
  BY DEF RegionInv, TypeOK
<1>1. ASSUME NEW f, Write(f) PROVE RegionInv'
  <2>1. Change(parent, {f}) /\ f \in Nodes(parent)
    BY <1>1 DEF Write, Nodes
  <2> QED BY <2>1, ChangeKeeps
<1>2. ASSUME NEW x, NEW d, Create(x, d) PROVE RegionInv'
  <2>1. Change(With(parent, x, d), {x, d}) /\ x \in Nodes(With(parent, x, d))
    BY <1>2 DEF Create, Nodes, With
  <2> QED BY <2>1, ChangeKeeps
<1>3. ASSUME NEW x, NEW d, Move(x, d) PROVE RegionInv'
  <2>1. Change(With(parent, x, d), {parent[x], d}) /\ With(parent, x, d) \in Trees
    BY <1>3 DEF Move, Change
  <2>2. x \in DOMAIN With(parent, x, d) /\ With(parent, x, d)[x] = d
    BY DEF With
  <2>3. d \in Nodes(With(parent, x, d))
    BY <2>1, <2>2, TreeTypes
  <2> QED BY <2>1, <2>3, ChangeKeeps
<1>4. ASSUME NEW x, Delete(x) PROVE RegionInv'
  <2>1. Change(Without(parent, x), {parent[x]}) /\ x \in DOMAIN parent
    BY <1>4 DEF Delete
  <2>2. x \notin Path(parent[x], parent)
    <3> SUFFICES ASSUME x \in Path(parent[x], parent) PROVE FALSE
      OBVIOUS
    <3>1. parent[x] \in Path(x, parent) /\ x \in Nodes(parent)
      BY <1>0, <2>1, PathUnfolds DEF Nodes
    <3>2. parent[x] = x
      BY <1>0, <3>1, PathsDoNotCycle
    <3>3. \E z \in {x} : parent[z] \notin {x}
      BY <1>0, <2>1, TreeTypes
    <3> QED BY <3>2, <3>3
  <2>3. parent[x] \in Nodes(Without(parent, x))
    <3>1. parent[x] \in Nodes(parent)
      BY <1>0, <2>1, TreeTypes
    <3>2. DOMAIN Without(parent, x) = {y \in DOMAIN parent : x \notin Path(y, parent)}
      BY DEF Without, Restrict
    <3> QED BY <2>2, <3>1, <3>2 DEF Nodes
  <2> QED BY <2>1, <2>3, ChangeKeeps
<1> QED
  BY <1>1, <1>2, <1>3, <1>4

(* A drawing for someone: what it admits is new in the region, so it is announced. *)
LEMMA RenderKeeps ==
  ASSUME RegionInv, Render, page = "live"
  PROVE  RegionInv'
<1> DEFINE admit == Signature # dlContentSig /\ Settled(now)
           new   == <<shapeSignature(listing), dlContentSig'>>
<1>1. /\ dlContentSig' = IF admit THEN Signature ELSE dlContentSig
      /\ dlContentAt' = IF admit THEN now ELSE dlContentAt
      /\ body' = new
      /\ pinged' = (pinged \/ new # body)
  BY DEF Render, RenderDownloads, Signature
<1>2. UNCHANGED <<now, parent, rev, changes, changedAt, page, shown>> /\ due' = FALSE
  BY DEF Render, treeVars
<1>3. /\ Signature \in Seq(0..MaxChange)
      /\ \A i \in DOMAIN Signature : Signature[i] <= changes
  BY ListingTypes DEF RegionInv, Dated
<1>4. listing' = listing /\ Signature' = Signature /\ Fragment' = Fragment
  BY <1>2 DEF listing, Signature, Fragment, contentSignature
<1>5. TypeOK'
  <2>1. dlContentSig' \in Seq(0..MaxChange) /\ dlContentAt' \in 0..now
    BY <1>1, <1>3 DEF RegionInv, TypeOK
  <2>2. pinged' \in BOOLEAN
    BY <1>1 DEF RegionInv, TypeOK
  <2> QED BY <1>2, <2>1, <2>2 DEF RegionInv, TypeOK
<1>6. Dated'
  BY <1>1, <1>2, <1>3 DEF RegionInv, Dated
<1>7. DrawnAsAdmitted'
  BY <1>1 DEF DrawnAsAdmitted
<1>8. Announced'
  <2>1. CASE admit
    <3>1. body = NoBody \/ body[2] # dlContentSig'
      BY <1>1, <2>1 DEF RegionInv, DrawnAsAdmitted
    <3>2. new # body
      BY <3>1 DEF NoBody
    <3> QED BY <1>1, <3>2 DEF Announced
  <2>2. CASE ~admit
    BY <1>1, <1>2, <1>4, <2>2 DEF RegionInv, Announced
  <2> QED BY <2>1, <2>2
<1>9. HeldBack'
  <2>1. CASE admit \/ dlContentSig = Signature
    BY <1>1, <1>4, <2>1 DEF HeldBack
  <2>2. CASE ~Settled(now)
    <3>1. dlContentAt # Never /\ now < dlContentAt + Settle
      BY <2>2, DownloadsAssumption DEF Settled, RegionInv, TypeOK
    <3> QED BY <1>1, <1>2, <2>2, <3>1 DEF HeldBack
  <2> QED BY <2>1, <2>2
<1>10. AdmittedLast'
  BY <1>1, <1>2, <1>4 DEF RegionInv, AdmittedLast
<1> QED
  BY <1>5, <1>6, <1>7, <1>8, <1>9, <1>10 DEF RegionInv

(* Time, kicks and what the browser does leave the files and the region alone. *)
LEMMA BrowserKeeps ==
  ASSUME RegionInv,
         \/ kick \/ Advance \/ Load \/ Subscribe \/ Drop \/ Leave \/ ServeDownloads
         \/ Render /\ page # "live"
  PROVE  RegionInv'
<1>1. UNCHANGED <<parent, rev, changes, changedAt, dlContentSig, dlContentAt, body>>
  BY DEF kick, Advance, Load, Subscribe, Drop, Leave, ServeDownloads, Render, treeVars, uiVars
<1>2. listing' = listing /\ Signature' = Signature /\ Fragment' = Fragment
  BY <1>1 DEF listing, Signature, Fragment, contentSignature
<1>3. TypeOK'
  <2>1. now' \in 1..MaxTime /\ now' >= now /\ now \in Nat
    BY DownloadsAssumption DEF kick, Advance, Load, Subscribe, Drop, Leave, ServeDownloads, Render,
       RegionInv, TypeOK
  <2>2. due' \in BOOLEAN /\ page' \in {"closed", "open", "live"}
    BY DEF kick, Advance, Load, Subscribe, Drop, Leave, ServeDownloads, Render, browserVars,
       RegionInv, TypeOK
  <2>3. pinged' \in BOOLEAN
    BY Zenon DEF kick, Advance, Load, Subscribe, Drop, Leave, ServeDownloads, Render, browserVars,
       RegionInv, TypeOK
  <2> QED BY <1>1, <2>1, <2>2, <2>3 DEF RegionInv, TypeOK
<1>4. Dated' /\ DrawnAsAdmitted' /\ AdmittedLast'
  BY <1>1, <1>2 DEF RegionInv, Dated, DrawnAsAdmitted, AdmittedLast
<1>5. HeldBack'
  <2>1. Drawn' => Drawn /\ now' = now
    BY <1>1 DEF Drawn, kick, Advance, Load, Subscribe, Drop, Leave, ServeDownloads, Render,
       browserVars
  <2> QED BY <1>1, <1>2, <2>1 DEF RegionInv, HeldBack
<1>6. Announced'
  BY <1>1, <1>2 DEF RegionInv, Announced, kick, Advance, Load, Subscribe, Drop, Leave,
     ServeDownloads, Render, browserVars
<1> QED
  BY <1>3, <1>4, <1>5, <1>6 DEF RegionInv

(* Every step keeps the invariant. *)
LEMMA StepKeepsRegion == RegionInv /\ [Next]_vars => RegionInv'
<1> SUFFICES ASSUME RegionInv, [Next]_vars PROVE RegionInv'
  OBVIOUS
<1>1. CASE UNCHANGED vars
  <2>1. UNCHANGED <<now, parent, rev, changes, changedAt, dlContentSig, dlContentAt, body, due,
                    page, pinged, shown>>
    BY <1>1 DEF vars, treeVars, uiVars, browserVars
  <2> QED BY <2>1 DEF RegionInv, TypeOK, Dated, DrawnAsAdmitted, Announced, HeldBack,
          AdmittedLast, Drawn, listing, Signature, Fragment, contentSignature
<1>2. CASE Next
  BY <1>2, FilesKeep, RenderKeeps, BrowserKeeps DEF Next
<1> QED
  BY <1>1, <1>2

(* The invariant of the downloads region holds in every reachable state. *)
THEOREM RegionInvariant == Spec => []RegionInv
  BY InitRegion, StepKeepsRegion, PTL DEF Spec

(* Type correctness of the files, the region and the browser. *)
THEOREM DownloadsTypes == Spec => []TypeOK
<1>1. RegionInv => TypeOK
  BY DEF RegionInv
<1> QED BY <1>1, RegionInvariant, PTL

(* Whatever changes and whenever, for any window: once a window has passed since the    *)
(* last change, the browser shows the files as they are or is about to fetch them.      *)
THEOREM LastChangeIsShown == Spec => []LastChangeArrives
<1>1. RegionInv => LastChangeArrives
  <2> SUFFICES ASSUME RegionInv, Drawn, changedAt + Settle <= now, ~listing.Truncated
               PROVE  pinged \/ shown = Fragment
    BY DEF LastChangeArrives
  <2>1. page # "closed"
    BY DEF Drawn
  <2>2. dlContentSig = Signature
    <3>1. CASE now < dlContentAt + Settle
      <4>1. changedAt \in Nat /\ now \in Nat /\ dlContentAt \in Nat /\ Settle \in Nat
        BY DownloadsAssumption DEF RegionInv, TypeOK
      <4>2. dlContentAt > changedAt
        BY <3>1, <4>1
      <4> QED BY <4>2 DEF RegionInv, AdmittedLast
    <3>2. CASE ~(now < dlContentAt + Settle)
      BY <3>2 DEF RegionInv, HeldBack
    <3> QED BY <3>1, <3>2
  <2> QED BY <2>1, <2>2 DEF RegionInv, Announced
<1> QED BY <1>1, RegionInvariant, PTL

-----------------------------------------------------------------------------
(* The stack of a walk, in a tree that stands still. *)

(* What WalkTypeOK says of a frame. *)
Frame == [path : Seq(Node), entries : Seq(Entry), from : Nat]

(* The directory that a frame is for. *)
Place(f) == f.path[Len(f.path)]

(* Each node of the path but the first is in the one before it. *)
Standing(path, t) == \A i \in 2..Len(path) : path[i] \in DOMAIN t /\ t[path[i]] = path[i - 1]

(* In the order of the names. *)
Rising(s) == \A i, j \in DOMAIN s : i < j => s[i] < s[j]

(* x is an entry of the frame's directory, and it comes before those that are left. *)
Taken(x, f, t) ==
  x \in DOMAIN t /\ t[x] = Place(f) /\ \A e \in ToSet(f.entries) : x < e

(* The frame is of a directory that is where its path says, and what is left of its *)
(* entries is in it, in order.                                                      *)
Sound(f, t) ==
  /\ f \in Frame /\ f.path # <<>> /\ Standing(f.path, t)
  /\ Place(f) \in Nodes(t)
  /\ \A e \in ToSet(f.entries) : e \in DOMAIN t /\ t[e] = Place(f)
  /\ Rising(f.entries)

(* Every frame is sound; each is for an entry taken from the one below it, and so in *)
(* the directories of all below.                                                     *)
Stack(fs, t) ==
  /\ \A i \in 1..Len(fs) : Sound(fs[i], t)
  /\ \A i \in 2..Len(fs) : Taken(Place(fs[i]), fs[i - 1], t)
  /\ \A i, j \in 1..Len(fs) : i <= j => Place(fs[i]) \in Path(Place(fs[j]), t)

(* v is an entry that is left on the stack, or below one. *)
Pending(v, fs, t) == \E i \in 1..Len(fs) : \E e \in ToSet(fs[i].entries) : e \in Path(v, t)

(* The elements of a sequence, of one longer by one and of one shorter. *)
LEMMA ToSetHas ==
  ASSUME NEW S, NEW s \in Seq(S)
  PROVE  /\ ToSet(s) = {s[i] : i \in 1..Len(s)} /\ ToSet(s) \subseteq S
         /\ \A x \in S : ToSet(Append(s, x)) = ToSet(s) \cup {x}
         /\ s # <<>> => ToSet(s) = {Head(s)} \cup ToSet(Tail(s)) /\ Tail(s) \in Seq(S) /\ Head(s) \in S
         /\ s = <<>> => ToSet(s) = {}
<1>1. ToSet(s) = {s[i] : i \in 1..Len(s)} /\ ToSet(s) \subseteq S
  BY DEF ToSet
<1>2. ASSUME NEW x \in S PROVE ToSet(Append(s, x)) = ToSet(s) \cup {x}
  <2> DEFINE a == Append(s, x)
  <2>1. DOMAIN a = 1..(Len(s) + 1) /\ \A i \in 1..Len(s) : a[i] = s[i]
    OBVIOUS
  <2>2. a[Len(s) + 1] = x /\ Len(s) \in Nat
    OBVIOUS
  <2> HIDE DEF a
  <2>3. ToSet(a) = {a[i] : i \in 1..(Len(s) + 1)}
    BY <2>1 DEF ToSet
  <2>4. ASSUME NEW i \in 1..(Len(s) + 1) PROVE a[i] \in ToSet(s) \cup {x}
    <3>1. i \in 1..Len(s) \/ i = Len(s) + 1
      BY <2>2
    <3> QED BY <1>1, <2>1, <2>2, <3>1
  <2>5. ASSUME NEW y \in ToSet(s) \cup {x} PROVE \E i \in 1..(Len(s) + 1) : y = a[i]
    <3>1. CASE y = x
      BY <2>2, <3>1
    <3>2. CASE y \in ToSet(s)
      <4>1. PICK i \in 1..Len(s) : y = s[i]
        BY <1>1, <3>2
      <4>2. i \in 1..(Len(s) + 1)
        BY <2>2
      <4> QED BY <2>1, <4>1, <4>2
    <3> QED BY <3>1, <3>2
  <2> QED BY <2>3, <2>4, <2>5 DEF a
<1>3. ASSUME s # <<>>
      PROVE  ToSet(s) = {Head(s)} \cup ToSet(Tail(s)) /\ Tail(s) \in Seq(S) /\ Head(s) \in S
  <2>1. /\ Tail(s) \in Seq(S) /\ Head(s) \in S /\ Head(s) = s[1]
        /\ Len(Tail(s)) = Len(s) - 1 /\ Len(s) \in Nat \ {0}
        /\ \A i \in 1..(Len(s) - 1) : Tail(s)[i] = s[i + 1]
    BY <1>3
  <2> DEFINE r == Tail(s)
  <2>2. ToSet(r) = {r[i] : i \in 1..(Len(s) - 1)}
    <3>1. DOMAIN r = 1..(Len(s) - 1)
      BY <2>1
    <3> HIDE DEF r
    <3> QED BY <3>1 DEF ToSet
  <2> HIDE DEF r
  <2>3. ASSUME NEW i \in 1..Len(s) PROVE s[i] \in {Head(s)} \cup ToSet(r)
    <3>1. CASE i = 1
      BY <2>1, <3>1
    <3>2. CASE i # 1
      <4>1. i - 1 \in 1..(Len(s) - 1) /\ (i - 1) + 1 = i
        BY <2>1, <3>2
      <4>2. r[i - 1] = s[i]
        BY <2>1, <4>1 DEF r
      <4> QED BY <2>2, <4>1, <4>2
    <3> QED BY <3>1, <3>2
  <2>4. ASSUME NEW i \in 1..(Len(s) - 1) PROVE r[i] \in ToSet(s)
    <3>1. i + 1 \in 1..Len(s) /\ r[i] = s[i + 1]
      BY <2>1 DEF r
    <3> QED BY <1>1, <3>1
  <2>5. Head(s) \in ToSet(s)
    <3>1. 1 \in 1..Len(s)
      BY <2>1
    <3> QED BY <1>1, <2>1, <3>1
  <2>6. ToSet(s) = {Head(s)} \cup ToSet(r)
    BY <1>1, <2>2, <2>3, <2>4, <2>5
  <2> QED BY <2>1, <2>6 DEF r
<1>4. s = <<>> => ToSet(s) = {}
  BY <1>1
<1> QED
  BY <1>1, <1>2, <1>3, <1>4

(* A sequence of elements of S is one of elements of a larger set. *)
LEMMA SeqOfMore ==
  ASSUME NEW S, NEW T, S \subseteq T, NEW s \in Seq(S)
  PROVE  s \in Seq(T)
OBVIOUS

(* ReadDir returns the entries of the directory, in the order of their names. *)
LEMMA ReadDirSorts ==
  ASSUME NEW t \in Trees, NEW d
  PROVE  /\ ReadDir(d, t) \in Seq(Entry)
         /\ ToSet(ReadDir(d, t)) = {y \in DOMAIN t : t[y] = d}
         /\ Rising(ReadDir(d, t))
<1> DEFINE S == {y \in DOMAIN t : t[y] = d}
           R == {p \in S \X S : p[1] < p[2]}
<1>1. S \subseteq Nat /\ S \subseteq Entry /\ IsFiniteSet(S)
  BY TreeTypes, FileListAssumption, FS_Subset DEF Nodes
<1>2. \A x, y \in S : <<x, y>> \in R <=> x < y
  OBVIOUS
<1>3. ReadDir(d, t) = SortedBy(S, R)
  BY DEF ReadDir
<1> HIDE DEF R, S
<1>4. Orders(R, S)
  BY <1>1, <1>2 DEF Orders
<1>5. SortedBy(S, R) \in Seq(S) /\ ToSet(SortedBy(S, R)) = S /\ Increasing(SortedBy(S, R), R)
  BY <1>4, SortedBySorts
<1> DEFINE s == SortedBy(S, R)
<1> HIDE DEF s
<1>6. s \in Seq(Entry) /\ DOMAIN s = 1..Len(s) /\ \A i \in DOMAIN s : s[i] \in S
  <2>1. s \in Seq(S)
    BY <1>5 DEF s
  <2>2. DOMAIN s = 1..Len(s) /\ \A i \in 1..Len(s) : s[i] \in S
    BY <2>1
  <2>3. s \in Seq(Entry)
    BY <1>1, <2>1, SeqOfMore
  <2> QED BY <2>2, <2>3
<1>7. Rising(s)
  <2>1. Increasing(s, R)
    BY <1>5 DEF s
  <2> QED BY <1>2, <1>6, <2>1 DEF Rising, Increasing
<1> QED
  BY <1>3, <1>5, <1>6, <1>7 DEF S, s

(* What is taken from the directory at hand comes before all that is left. *)
LEMMA TakenIsFirst ==
  ASSUME NEW t \in Trees, NEW fs \in Seq(Frame), fs # <<>>, Stack(fs, t),
         NEW x, Taken(x, fs[Len(fs)], t), NEW v \in Nodes(t), Pending(v, fs, t)
  PROVE  Before(x, v, t) /\ x \notin Path(v, t)
<1>1. Len(fs) \in Nat /\ Len(fs) \in 1..Len(fs)
  OBVIOUS
<1>2. PICK i \in 1..Len(fs) : \E e \in ToSet(fs[i].entries) : e \in Path(v, t)
  BY DEF Pending
<1>3. PICK e \in ToSet(fs[i].entries) : e \in Path(v, t)
  BY <1>2
<1>4. e \in DOMAIN t /\ t[e] = Place(fs[i])
  BY DEF Stack, Sound
<1>5. x \in DOMAIN t /\ x \in Nodes(t) /\ x # Root /\ e # Root /\ x \in Path(x, t)
  BY <1>4, TreeTypes, PathIsClosed DEF Taken, Nodes, Closed
<1>6. \A a, b \in DOMAIN t : a \in Nat /\ a < b => a # b
  BY TreeTypes, FileListAssumption
<1>7. CASE i = Len(fs)
  <2>1. t[x] = t[e] /\ x < e
    BY <1>4, <1>7 DEF Taken
  <2>2. x # e
    BY <1>4, <1>5, <1>6, <2>1, TreeTypes, FileListAssumption
  <2>3. Before(x, v, t)
    BY <1>3, <1>5, <2>1 DEF Before
  <2>4. x \notin Path(v, t)
    BY <1>3, <1>5, <2>1, <2>2, OneSiblingOnPath
  <2> QED BY <2>3, <2>4
<1>8. CASE i # Len(fs)
  <2> DEFINE y == Place(fs[i + 1])
  <2>1. i + 1 \in 2..Len(fs) /\ (i + 1) - 1 = i /\ i + 1 \in 1..Len(fs)
    BY <1>1, <1>8
  <2>2. Taken(y, fs[i], t)
    BY <2>1 DEF Stack
  <2>3. y \in DOMAIN t /\ t[y] = t[e] /\ y < e /\ y # Root
    BY <1>4, <2>2, TreeTypes DEF Taken
  <2>4. y \in Path(Place(fs[Len(fs)]), t)
    BY <1>1, <2>1 DEF Stack
  <2>5. Path(Place(fs[Len(fs)]), t) \subseteq Path(x, t)
    BY <1>5, PathUnfolds DEF Taken
  <2>6. y # e
    BY <1>4, <1>6, <2>3, TreeTypes, FileListAssumption
  <2>7. y \in Path(x, t)
    BY <2>4, <2>5
  <2> HIDE DEF y
  <2>8. Before(x, v, t)
    BY <1>3, <1>5, <2>3, <2>7 DEF Before
  <2>9. x \notin Path(v, t)
    <3> SUFFICES ASSUME x \in Path(v, t) PROVE FALSE
      OBVIOUS
    <3>1. y \in Path(v, t)
      BY <2>7, PathWithin
    <3> QED BY <1>3, <1>5, <2>3, <2>6, <3>1, OneSiblingOnPath
  <2> QED BY <2>8, <2>9
<1> QED
  BY <1>7, <1>8

-----------------------------------------------------------------------------
(* The way from the root to a directory, as StartZip takes it. *)

(* Sorted by what is above what, a path is the way from the root, and stands. *)
LEMMA WayFromRoot ==
  ASSUME NEW t \in Trees, NEW d \in Nodes(t)
  PROVE  LET S == Path(d, t)
             s == SortedBy(S, {p \in S \X S : p[1] \in Ancestors(p[2], t)})
         IN  s \in Seq(Nodes(t)) /\ s # <<>> /\ s[Len(s)] = d /\ Standing(s, t)
<1> DEFINE S == Path(d, t)
           R == {p \in S \X S : p[1] \in Ancestors(p[2], t)}
           s == SortedBy(S, R)
<1>1. S \subseteq Nodes(t) /\ d \in S /\ \A y \in S \ {Root} : y \in DOMAIN t /\ t[y] \in S
  BY PathIsClosed DEF Closed, Nodes
<1>2. \A x, y \in S : <<x, y>> \in R <=> x # y /\ x \in Path(y, t)
  BY DEF Ancestors
<1>3. \A x, y \in S : x \in Path(y, t) /\ y \in Path(x, t) => x = y
  BY <1>1, PathsDoNotCycle
<1>4. \A x, y, z \in S : x \in Path(y, t) /\ y \in Path(z, t) => x \in Path(z, t)
  BY <1>1, PathWithin
<1>5. \A x, y \in S : x \in Path(y, t) \/ y \in Path(x, t)
  BY PathIsChain
<1>6. IsFiniteSet(S)
  BY <1>1, TreeTypes, FS_Subset
<1>7. \A x \in S \ {Root} : t[x] # x /\ t[x] \in Path(x, t)
  <2> TAKE x \in S \ {Root}
  <2>1. x \in DOMAIN t
    BY <1>1
  <2>2. \E z \in {x} : t[z] \notin {x}
    BY <2>1, TreeTypes
  <2>3. x \in Nodes(t)
    BY <1>1
  <2> QED BY <2>2, <2>3, PathIsClosed DEF Closed
<1>8. Path(Root, t) = {Root}
  BY PathOfRoot
<1>9. \A x \in S \ {Root}, y \in S : y # x /\ y \in Path(x, t) => y \in Path(t[x], t)
  BY <1>1, AboveMeansInTheDirectory
<1> HIDE DEF S, R
<1>10. Orders(R, S)
  BY <1>2, <1>3, <1>4, <1>5, <1>6 DEF Orders
<1>11. s \in Seq(S) /\ ToSet(s) = S /\ Increasing(s, R)
  BY <1>10, SortedBySorts
<1> HIDE DEF s
<1>12. DOMAIN s = 1..Len(s) /\ Len(s) \in Nat /\ \A i \in 1..Len(s) : s[i] \in S
  BY <1>11
<1>13. \A x \in S : \E i \in 1..Len(s) : x = s[i]
  BY <1>11, <1>12 DEF ToSet
<1>14. \A i, j \in 1..Len(s) : i < j => s[i] # s[j] /\ s[i] \in Path(s[j], t)
  BY <1>2, <1>11, <1>12 DEF Increasing
<1>15. s # <<>> /\ s[Len(s)] = d
  <2>1. PICK k \in 1..Len(s) : d = s[k]
    BY <1>1, <1>13
  <2>2. Len(s) \in 1..Len(s)
    BY <1>12, <2>1
  <2>3. CASE k = Len(s)
    BY <1>12, <2>1, <2>3
  <2>4. CASE k # Len(s)
    <3>1. k < Len(s)
      <4>1. Len(s) \in Nat /\ k \in Nat /\ k <= Len(s)
        BY <1>12, <2>1
      <4> QED BY <2>4, <4>1
    <3>2. d # s[Len(s)] /\ d \in Path(s[Len(s)], t)
      BY <1>14, <2>1, <2>2, <3>1
    <3>3. s[Len(s)] \in Path(d, t)
      BY <1>12, <2>2 DEF S
    <3> QED BY <1>1, <1>3, <1>12, <2>2, <3>2, <3>3
  <2> QED BY <2>3, <2>4
<1>16. Standing(s, t)
  <2> SUFFICES ASSUME NEW i \in 2..Len(s) PROVE s[i] \in DOMAIN t /\ t[s[i]] = s[i - 1]
    BY DEF Standing
  <2>1. i \in 1..Len(s) /\ i - 1 \in 1..Len(s) /\ i - 1 < i
    BY <1>12
  <2> DEFINE x == s[i]
             w == s[i - 1]
  <2>2. x \in S /\ w \in S /\ w # x /\ w \in Path(x, t)
    BY <1>12, <1>14, <2>1
  <2>3. x # Root
    BY <1>8, <2>2
  <2>4. PICK j \in 1..Len(s) : t[x] = s[j]
    BY <1>1, <1>13, <2>2, <2>3
  <2>5. j # i
    BY <1>7, <2>2, <2>3, <2>4
  <2>6. ~(i < j)
    <3> SUFFICES ASSUME i < j PROVE FALSE
      OBVIOUS
    <3>1. x \in Path(t[x], t)
      BY <1>14, <2>1, <2>4
    <3> QED BY <1>3, <1>7, <1>12, <2>2, <2>3, <2>4, <3>1
  <2>7. ~(j < i - 1)
    <3> SUFFICES ASSUME j < i - 1 PROVE FALSE
      OBVIOUS
    <3>1. t[x] # w /\ t[x] \in Path(w, t)
      BY <1>14, <2>1, <2>4
    <3>2. w \in Path(t[x], t)
      BY <1>9, <2>2, <2>3
    <3> QED BY <1>3, <1>12, <2>2, <2>4, <3>1, <3>2
  <2>8. j = i - 1
    BY <1>12, <2>5, <2>6, <2>7
  <2> QED BY <1>1, <2>2, <2>3, <2>4, <2>8
<1>17. s \in Seq(Nodes(t))
  BY <1>1, <1>11, SeqOfMore
<1> QED
  BY <1>15, <1>16, <1>17 DEF s, R, S

-----------------------------------------------------------------------------
(* The stack as a sequence. *)

(* An initial part of a sequence. *)
LEMMA InitialPart ==
  ASSUME NEW S, NEW s \in Seq(S), NEW k \in 0..Len(s)
  PROVE  /\ SubSeq(s, 1, k) \in Seq(S) /\ Len(SubSeq(s, 1, k)) = k
         /\ \A i \in 1..k : SubSeq(s, 1, k)[i] = s[i]
<1>1. k \in Nat /\ Len(s) \in Nat /\ k <= Len(s)
  OBVIOUS
<1> DEFINE r == SubSeq(s, 1, k)
<1>2. Len(r) = k /\ \A i \in 1..k : r[i] = s[i]
  BY <1>1
<1>3. r \in Seq(S)
  BY <1>1
<1> QED
  BY <1>2, <1>3

(* The next entry of the directory at hand, and the stack without it. *)
First(fs)   == Head(fs[Len(fs)].entries)
Skipped(fs) == Append(Front(fs), [fs[Len(fs)] EXCEPT !.entries = Tail(@)])

(* Taking the next entry of the directory at hand changes only what is left of it. *)
LEMMA FrameSkipped ==
  ASSUME NEW fs \in Seq(Frame), fs # <<>>, fs[Len(fs)].entries # <<>>
  PROVE  LET f   == fs[Len(fs)]
             fs2 == Skipped(fs)
         IN  /\ fs2 \in Seq(Frame) /\ fs2 # <<>> /\ Len(fs2) = Len(fs)
             /\ \A i \in 1..Len(fs) : fs2[i].path = fs[i].path /\ fs2[i].from = fs[i].from
             /\ \A i \in 1..(Len(fs) - 1) : fs2[i] = fs[i]
             /\ fs2[Len(fs)].entries = Tail(f.entries)
             /\ First(fs) \in Entry
<1> DEFINE f  == fs[Len(fs)]
           g  == [f EXCEPT !.entries = Tail(@)]
           b  == Front(fs)
           fs2 == Append(b, g)
<1>1. Len(fs) \in Nat \ {0} /\ Len(fs) \in 1..Len(fs) /\ f \in Frame
  OBVIOUS
<1>2. f.entries \in Seq(Entry) /\ Tail(f.entries) \in Seq(Entry) /\ Head(f.entries) \in Entry
  BY <1>1 DEF Frame
<1>3. g \in Frame /\ g.path = f.path /\ g.from = f.from /\ g.entries = Tail(f.entries)
  BY <1>1, <1>2 DEF Frame
<1>4. b \in Seq(Frame) /\ Len(b) = Len(fs) - 1 /\ \A i \in 1..(Len(fs) - 1) : b[i] = fs[i]
  BY <1>1 DEF Front
<1> HIDE DEF b, g
<1>5. fs2 \in Seq(Frame) /\ Len(fs2) = Len(fs) /\ fs2[Len(fs)] = g
      /\ \A i \in 1..(Len(fs) - 1) : fs2[i] = fs[i]
  BY <1>1, <1>3, <1>4
<1> HIDE DEF fs2
<1>6. ASSUME NEW i \in 1..Len(fs) PROVE fs2[i].path = fs[i].path /\ fs2[i].from = fs[i].from
  <2>1. i \in 1..(Len(fs) - 1) \/ i = Len(fs)
    BY <1>1
  <2> QED BY <1>3, <1>5, <2>1
<1>7. fs2 # <<>>
  BY <1>1, <1>5
<1> QED
  BY <1>2, <1>3, <1>5, <1>6, <1>7 DEF fs2, g, b, Skipped, First

(* A call returns. *)
LEMMA FramePopped ==
  ASSUME NEW fs \in Seq(Frame), fs # <<>>
  PROVE  /\ Front(fs) \in Seq(Frame) /\ Len(Front(fs)) = Len(fs) - 1 /\ Len(fs) \in Nat \ {0}
         /\ \A i \in 1..(Len(fs) - 1) : Front(fs)[i] = fs[i]
         /\ Len(fs) # 1 => Front(fs) # <<>>
<1>1. Len(fs) \in Nat \ {0} /\ Len(fs) \in 1..Len(fs) /\ fs[Len(fs)] \in Frame
  OBVIOUS
<1> DEFINE b == Front(fs)
<1>2. b \in Seq(Frame) /\ Len(b) = Len(fs) - 1 /\ \A i \in 1..(Len(fs) - 1) : b[i] = fs[i]
  <2>1. b = SubSeq(fs, 1, Len(fs) - 1)
    BY DEF Front
  <2>2. Len(fs) - 1 \in 0..Len(fs)
    BY <1>1
  <2> QED BY <2>1, <2>2, InitialPart
<1> HIDE DEF b
<1>3. ASSUME Len(fs) # 1 PROVE b # <<>>
  <2>1. Len(b) # 0
    BY <1>1, <1>2, <1>3
  <2> QED BY <2>1
<1> QED
  BY <1>1, <1>2, <1>3 DEF b

(* A call is made. *)
LEMMA FramePushed ==
  ASSUME NEW fs \in Seq(Frame), NEW f \in Frame
  PROVE  /\ Append(fs, f) \in Seq(Frame) /\ Append(fs, f) # <<>>
         /\ Len(Append(fs, f)) = Len(fs) + 1 /\ Len(fs) \in Nat
         /\ \A i \in 1..Len(fs) : Append(fs, f)[i] = fs[i]
         /\ Append(fs, f)[Len(fs) + 1] = f
OBVIOUS

-----------------------------------------------------------------------------
(* The budget of a walk, however the directory changes. *)

(* A directory about to be read is counted, and not yet among the nodes. *)
BudgetInv ==
  /\ WalkTypeOK
  /\ walk \in {"entries", "zip", "zipOpen"} => frames # <<>>
  /\ walk \in {"zip", "zipOpen", "closed"} => nodes # <<>>
  /\ walk \in {"idle", "done", "closed"} => frames = <<>>
  /\ walk = "open" => frames # <<>> \/ opening = Root
  /\ walk = "idle" => nodes = <<>>
  /\ \A i \in 1..Len(frames) : frames[i].from <= Len(nodes)
  /\ walk = "open" => n <= Limit /\ Len(nodes) + 1 <= n
  /\ walk = "entries" => n <= Limit /\ Len(nodes) <= n
  /\ walk = "done" => n <= Limit + 1 /\ Len(nodes) <= n /\ Len(nodes) <= Limit

(* Nothing is counted yet. *)
LEMMA InitBudget == WalkInit => BudgetInv
<1> SUFFICES ASSUME WalkInit PROVE BudgetInv
  OBVIOUS
<1>1. unreadable \subseteq Dir /\ 0 \in 0..(Limit + 1)
  BY FileListAssumption DEF WalkInit
<1>2. WalkTypeOK
  <2>1. <<>> \in Seq(Frame) /\ <<>> \in Seq(Node)
    OBVIOUS
  <2> QED BY <1>1, <2>1 DEF WalkInit, WalkTypeOK, Frame
<1>3. walk = "idle" /\ frames = <<>> /\ nodes = <<>>
  BY DEF WalkInit
<1>4. \A i \in 1..Len(frames) : frames[i].from <= Len(nodes)
  BY <1>3
<1> QED
  BY <1>2, <1>3, <1>4 DEF BudgetInv

(* What the actions of a walk have in common. *)
LEMMA WalkTypes ==
  ASSUME BudgetInv
  PROVE  /\ disk \in Trees /\ unreadable \subseteq Dir /\ n \in Nat /\ Limit \in Nat \ {0}
         /\ frames \in Seq(Frame) /\ Len(frames) \in Nat /\ Len(nodes) \in Nat
         /\ nodes \in Seq(Node) /\ opening \in Dir \cup {Root}
  BY FileListAssumption DEF BudgetInv, WalkTypeOK, Frame

(* A change of the directory leaves the walk as it is. *)
LEMMA DisturbKeepsBudget ==
  ASSUME BudgetInv, NEW tree, Disturb(tree)
  PROVE  BudgetInv'
<1>1. WalkTypeOK'
  BY DEF Disturb, BudgetInv, WalkTypeOK
<1> QED
  BY <1>1 DEF Disturb, BudgetInv

(* A new frame fits the stack and lies above the nodes there are. *)
LEMMA EnterTypes ==
  ASSUME BudgetInv, NEW d \in Dir \cup {Root}, Enter(d)
  PROVE  /\ frames' \in Seq(Frame) /\ frames' # <<>> /\ Len(frames') = Len(frames) + 1
         /\ \A i \in 1..Len(frames) : frames'[i] = frames[i]
         /\ frames'[Len(frames) + 1] =
              [path |-> Append(here, d), entries |-> ReadDir(d, disk), from |-> Len(nodes)]
         /\ \A i \in 1..Len(frames') : frames'[i].from <= Len(nodes)
<1> DEFINE f == [path |-> Append(here, d), entries |-> ReadDir(d, disk), from |-> Len(nodes)]
<1>1. ReadDir(d, disk) \in Seq(Entry)
  BY WalkTypes, ReadDirSorts
<1>2. here \in Seq(Node)
  <2>1. CASE frames = <<>>
    BY <2>1 DEF here
  <2>2. CASE frames # <<>>
    <3>1. frames[Len(frames)] \in Frame
      BY <2>2, WalkTypes
    <3> QED BY <2>2, <3>1 DEF here, top, Frame
  <2> QED BY <2>1, <2>2
<1>3. Append(here, d) \in Seq(Node)
  <2>1. d \in Node
    BY DEF Node, Entry
  <2> QED BY <1>2, <2>1
<1>4. f \in Frame
  BY <1>1, <1>3, WalkTypes DEF Frame
<1>5. frames' = Append(frames, f)
  BY DEF Enter
<1>6. f.from = Len(nodes)
  OBVIOUS
<1>7. \A i \in 1..Len(frames) : frames[i].from <= Len(nodes)
  BY DEF BudgetInv
<1> HIDE DEF f
<1>8. /\ frames' \in Seq(Frame) /\ frames' # <<>> /\ Len(frames') = Len(frames) + 1
      /\ \A i \in 1..Len(frames) : frames'[i] = frames[i]
      /\ frames'[Len(frames) + 1] = f
  BY <1>4, <1>5, WalkTypes, FramePushed
<1>9. ASSUME NEW i \in 1..Len(frames') PROVE frames'[i].from <= Len(nodes)
  <2>1. i \in 1..Len(frames) \/ i = Len(frames) + 1
    BY <1>8, WalkTypes
  <2> QED BY <1>6, <1>7, <1>8, <2>1, WalkTypes
<1> QED
  BY <1>8, <1>9 DEF f

(* Taking the next entry leaves the stack as high. *)
LEMMA SkipTypes ==
  ASSUME BudgetInv, NEW x, NextEntry(x), Skip
  PROVE  /\ frames' \in Seq(Frame) /\ frames' # <<>> /\ Len(frames') = Len(frames)
         /\ \A i \in 1..Len(frames') : frames'[i].from <= Len(nodes)
         /\ x \in Entry
<1>1. frames \in Seq(Frame) /\ frames # <<>> /\ frames[Len(frames)].entries # <<>>
  BY WalkTypes DEF NextEntry, top
<1>2. frames' = Skipped(frames)
  BY DEF Skip, rest, top, Skipped
<1>3. \A i \in 1..Len(frames) : frames[i].from <= Len(nodes)
  BY DEF BudgetInv
<1>4. x = First(frames)
  BY DEF NextEntry, top, First
<1>5. /\ frames' \in Seq(Frame) /\ frames' # <<>> /\ Len(frames') = Len(frames)
      /\ \A i \in 1..Len(frames) : frames'[i].from = frames[i].from
      /\ First(frames) \in Entry
  BY <1>1, <1>2, FrameSkipped
<1> QED
  BY <1>3, <1>4, <1>5

(* The stack without its top. *)
LEMMA PopTypes ==
  ASSUME BudgetInv, frames # <<>>, frames' = rest
  PROVE  /\ frames' \in Seq(Frame) /\ (Len(frames) # 1 => frames' # <<>>)
         /\ \A i \in 1..Len(frames') : frames'[i].from <= Len(nodes)
<1>1. frames' = Front(frames)
  BY DEF rest
<1>2. \A i \in 1..Len(frames) : frames[i].from <= Len(nodes)
  BY DEF BudgetInv
<1>3. /\ frames' \in Seq(Frame) /\ Len(frames') = Len(frames) - 1 /\ Len(frames) \in Nat \ {0}
      /\ \A i \in 1..(Len(frames) - 1) : frames'[i] = frames[i]
      /\ Len(frames) # 1 => frames' # <<>>
  BY <1>1, WalkTypes, FramePopped
<1> QED
  BY <1>2, <1>3

(* The root can always be read. *)
LEMMA RootIsInPlace ==
  ASSUME unreadable \subseteq Dir
  PROVE  Root \notin unreadable /\ Exists(Append(<<>>, Root))
<1>1. Root \notin Dir
  BY FileListAssumption DEF Entry
<1>2. Append(<<>>, Root) = <<Root>> /\ Len(<<Root>>) = 1
  OBVIOUS
<1>3. Exists(<<Root>>)
  BY <1>2 DEF Exists
<1> QED
  BY <1>1, <1>2, <1>3

(* What is read was counted as it was met. *)
LEMMA OpenKeepsBudget ==
  ASSUME BudgetInv, Start \/ Open
  PROVE  BudgetInv'
<1>1. CASE Start
  <2>1. 1 \in 0..(Limit + 1) /\ 1 <= Limit /\ Root \in Dir \cup {Root}
    BY <1>1, WalkTypes
  <2>2. WalkTypeOK'
    BY <1>1, <2>1 DEF Start, BudgetInv, WalkTypeOK, diskVars
  <2>3. frames' = <<>> /\ nodes' = <<>> /\ Len(nodes') = 0
    BY <1>1 DEF Start, BudgetInv
  <2>4. 1..Len(frames') = {}
    BY <2>3
  <2> QED BY <1>1, <2>1, <2>2, <2>3, <2>4 DEF Start, BudgetInv
<1>2. CASE Open
  <2> USE <1>2
  <2>1. /\ walk = "open" /\ walk' = "entries" /\ opening' = Root /\ n' = n
        /\ UNCHANGED <<disk, unreadable, failed, still, Truncated>>
        /\ Len(nodes) + 1 <= n /\ n <= Limit
    BY DEF Open, diskVars, BudgetInv
  <2>2. CASE Readable(opening)
    <3>1. Enter(opening) /\ nodes' = Append(nodes, opening) /\ opening \in Node
      BY <2>2, WalkTypes DEF Open, Node, Entry
    <3>2. nodes' \in Seq(Node) /\ Len(nodes') = Len(nodes) + 1
      BY <3>1, WalkTypes
    <3>3. /\ frames' \in Seq(Frame) /\ frames' # <<>>
          /\ \A i \in 1..Len(frames') : frames'[i].from <= Len(nodes)
      BY <3>1, WalkTypes, EnterTypes
    <3>4. Len(frames') \in Nat /\ \A i \in 1..Len(frames') : frames'[i].from \in Nat
      <4>1. \A i \in 1..Len(frames') : frames'[i] \in Frame
        BY <3>3
      <4> QED BY <3>3, <4>1 DEF Frame
    <3>5. \A i \in 1..Len(frames') : frames'[i].from <= Len(nodes')
      BY <3>2, <3>3, <3>4, WalkTypes
    <3>6. WalkTypeOK'
      BY <2>1, <3>2, <3>3 DEF BudgetInv, WalkTypeOK, Frame
    <3>7. Len(nodes') <= n' /\ n' <= Limit
      BY <2>1, <3>2, WalkTypes
    <3> QED BY <2>1, <3>3, <3>5, <3>6, <3>7 DEF BudgetInv
  <2>3. CASE ~Readable(opening)
    <3>1. UNCHANGED <<frames, nodes>>
      BY <2>3 DEF Open
    <3>2. frames # <<>>
      <4> SUFFICES ASSUME frames = <<>> PROVE Readable(opening)
        BY <2>3
      <4>1. opening = Root
        BY <2>1 DEF BudgetInv
      <4> QED BY <4>1, WalkTypes, RootIsInPlace DEF Readable, InPlace, here
    <3> QED BY <2>1, <3>1, <3>2 DEF BudgetInv, WalkTypeOK
  <2> QED BY <2>2, <2>3
<1> QED
  BY <1>1, <1>2

(* What is met is counted before it is listed, within the budget. *)
LEMMA EntryKeepsBudget ==
  ASSUME BudgetInv, NEW x, Gone(x) \/ ListFile(x) \/ ListDir(x)
  PROVE  BudgetInv'
<1>1. /\ walk = "entries" /\ NextEntry(x) /\ Skip /\ n <= Limit /\ Len(nodes) <= n
      /\ UNCHANGED <<disk, unreadable, failed, still, Truncated>>
  BY DEF Gone, ListFile, ListDir, At, BudgetInv, diskVars
<1>2. /\ frames' \in Seq(Frame) /\ frames' # <<>> /\ Len(frames') = Len(frames)
      /\ \A i \in 1..Len(frames') : frames'[i].from <= Len(nodes)
      /\ x \in Entry
  BY <1>1, SkipTypes
<1>3. \A i \in 1..Len(frames') : frames'[i].from \in Nat
  <2>1. \A i \in 1..Len(frames') : frames'[i] \in Frame
    BY <1>2
  <2> QED BY <2>1 DEF Frame
<1>4. CASE Gone(x)
  BY <1>1, <1>2, <1>4 DEF Gone, BudgetInv, WalkTypeOK, Frame
<1>5. CASE ListFile(x)
  <2>1. walk' = walk /\ opening' = opening /\ n' = n + 1 /\ n' <= Limit /\ nodes' = Append(nodes, x)
    BY <1>5, WalkTypes DEF ListFile, overBudget
  <2>2. n' \in 0..(Limit + 1)
    BY <2>1, WalkTypes
  <2>3. nodes' \in Seq(Node) /\ Len(nodes') = Len(nodes) + 1
    <3>1. x \in Node
      BY <1>2 DEF Node
    <3> QED BY <2>1, <3>1, WalkTypes
  <2>4. WalkTypeOK'
    BY <1>1, <1>2, <2>1, <2>2, <2>3 DEF BudgetInv, WalkTypeOK, Frame
  <2>5. \A i \in 1..Len(frames') : frames'[i].from <= Len(nodes')
    BY <1>2, <1>3, <2>3, WalkTypes
  <2>6. Len(nodes') <= n'
    BY <1>1, <2>1, <2>3, WalkTypes
  <2> QED BY <1>1, <1>2, <2>1, <2>4, <2>5, <2>6 DEF BudgetInv
<1>6. CASE ListDir(x)
  <2>1. /\ walk' = "open" /\ opening' = x /\ x \in Dir /\ n' = n + 1 /\ n' <= Limit
        /\ nodes' = nodes
    BY <1>6, WalkTypes DEF ListDir, overBudget
  <2>2. n' \in 0..(Limit + 1)
    BY <2>1, WalkTypes
  <2>3. WalkTypeOK'
    BY <1>1, <1>2, <2>1, <2>2 DEF BudgetInv, WalkTypeOK, Frame
  <2>4. Len(nodes') + 1 <= n'
    BY <1>1, <2>1, WalkTypes
  <2> QED BY <1>1, <1>2, <2>1, <2>3, <2>4 DEF BudgetInv
<1> QED
  BY <1>4, <1>5, <1>6

(* A walk that ends returns nodes it had. *)
LEMMA EndKeepsBudget ==
  ASSUME BudgetInv, Return \/ \E x \in Entry : OverBudget(x)
  PROVE  BudgetInv'
<1>1. /\ walk = "entries" /\ frames # <<>> /\ n <= Limit /\ Len(nodes) <= n
      /\ UNCHANGED <<disk, unreadable, failed, still, opening>>
  BY DEF Return, OverBudget, At, BudgetInv, diskVars
<1>2. ASSUME NEW r \in Seq(Node), Len(r) <= Len(nodes), NEW over \in BOOLEAN, Done(r, over),
             n' \in 0..(Limit + 1), n <= n'
      PROVE  BudgetInv'
  <2>1. walk' = "done" /\ frames' = <<>> /\ nodes' = r /\ Truncated' = over
    BY <1>2 DEF Done
  <2>2. WalkTypeOK'
    BY <1>1, <1>2, <2>1 DEF BudgetInv, WalkTypeOK
  <2>3. Len(nodes') <= n' /\ Len(nodes') <= Limit /\ n' <= Limit + 1
    <3>1. Len(r) \in Nat /\ n' \in Nat /\ n' <= Limit + 1
      BY <1>2, WalkTypes
    <3> QED BY <1>1, <1>2, <2>1, <3>1, WalkTypes
  <2>4. \A i \in 1..Len(frames') : frames'[i].from <= Len(nodes')
    BY <2>1
  <2> QED BY <2>1, <2>2, <2>3, <2>4 DEF BudgetInv
<1>5. nodes \in Seq(Node) /\ Len(nodes) <= Len(nodes) /\ TRUE \in BOOLEAN /\ FALSE \in BOOLEAN
  BY WalkTypes
<1>3. CASE Return
  <2>1. n' = n /\ n' \in 0..(Limit + 1) /\ n <= n'
    BY <1>3, WalkTypes DEF Return, BudgetInv, WalkTypeOK
  <2>2. CASE Len(frames) = 1
    <3>1. Done(nodes, FALSE)
      BY <1>3, <2>2 DEF Return
    <3> QED BY <1>2, <1>5, <2>1, <3>1
  <2>3. CASE Len(frames) # 1
    <3>1. frames' = rest /\ UNCHANGED <<walk, nodes, Truncated>>
      BY <1>3, <2>3 DEF Return
    <3>2. /\ frames' \in Seq(Frame) /\ frames' # <<>>
          /\ \A i \in 1..Len(frames') : frames'[i].from <= Len(nodes)
      BY <1>1, <2>3, <3>1, PopTypes
    <3> QED BY <1>1, <2>1, <3>1, <3>2 DEF BudgetInv, WalkTypeOK, Frame
  <2> QED BY <2>2, <2>3
<1>4. ASSUME NEW x \in Entry, OverBudget(x) PROVE BudgetInv'
  <2>1. n' = n + 1 /\ n' \in 0..(Limit + 1) /\ n <= n'
    BY <1>1, <1>4, WalkTypes DEF OverBudget
  <2>2. CASE Len(frames) = 1
    <3>1. Done(nodes, TRUE)
      BY <1>4, <2>2 DEF OverBudget
    <3> QED BY <1>2, <1>5, <2>1, <3>1
  <2>3. CASE Len(frames) # 1
    <3> DEFINE r == SubSeq(nodes, 1, frames[2].from)
    <3>1. Done(r, TRUE)
      BY <1>4, <2>3 DEF OverBudget
    <3>2. 2 \in 1..Len(frames)
      <4>1. \A m \in Nat : m # 0 /\ m # 1 => 2 \in 1..m
        OBVIOUS
      <4>2. frames \in Seq(Frame) /\ frames # <<>> /\ Len(frames) \in Nat
        BY <1>1, WalkTypes
      <4>3. Len(frames) # 0
        BY <4>2
      <4> QED BY <2>3, <4>1, <4>2, <4>3
    <3>3. frames[2] \in Frame /\ frames[2].from <= Len(nodes)
      BY <3>2, WalkTypes DEF BudgetInv
    <3>4. frames[2].from \in 0..Len(nodes)
      BY <3>3, WalkTypes DEF Frame
    <3>5. r \in Seq(Node) /\ Len(r) = frames[2].from
      BY <3>4, WalkTypes, InitialPart
    <3> HIDE DEF r
    <3> QED BY <1>2, <2>1, <3>1, <3>3, <3>5
  <2> QED BY <2>2, <2>3
<1> QED
  BY <1>3, <1>4

(* The archive counts nothing and keeps its types. *)
LEMMA ZipKeepsBudget ==
  ASSUME BudgetInv, serveZip
  PROVE  BudgetInv'
<1>1. ASSUME CloseZip, nodes' = nodes, nodes # <<>>,
             UNCHANGED <<disk, unreadable, n, Truncated>>, opening' \in Dir \cup {Root},
             still' \in BOOLEAN, failed' \subseteq File
      PROVE  BudgetInv'
  <2>1. walk' = "closed" /\ frames' = <<>>
    BY <1>1 DEF CloseZip
  <2>2. \A i \in 1..Len(frames') : frames'[i].from <= Len(nodes')
    BY <2>1
  <2> QED BY <1>1, <2>1, <2>2 DEF BudgetInv, WalkTypeOK
<1>2. /\ Root \in Dir \cup {Root} /\ opening \in Dir \cup {Root} /\ still \in BOOLEAN
      /\ failed \subseteq File
  BY DEF BudgetInv, WalkTypeOK
<1>3. CASE ZipOpen
  <2>1. /\ walk = "zipOpen" /\ nodes # <<>> /\ frames # <<>> /\ opening' = Root
        /\ UNCHANGED <<disk, unreadable, failed, still, n, nodes, Truncated>>
    BY <1>3 DEF ZipOpen, BudgetInv, diskVars
  <2>2. CASE Readable(opening)
    <3>1. walk' = "zip" /\ Enter(opening)
      BY <1>3, <2>2 DEF ZipOpen
    <3>2. /\ frames' \in Seq(Frame) /\ frames' # <<>>
          /\ \A i \in 1..Len(frames') : frames'[i].from <= Len(nodes)
      BY <1>2, <3>1, EnterTypes
    <3> QED BY <1>2, <2>1, <3>1, <3>2 DEF BudgetInv, WalkTypeOK, Frame
  <2>3. CASE ~Readable(opening)
    <3>1. CloseZip
      BY <1>3, <2>3 DEF ZipOpen, ZipUnreadable
    <3> QED BY <1>1, <1>2, <2>1, <3>1
  <2> QED BY <2>2, <2>3
<1>4. CASE ZipReturn
  <2>1. /\ walk = "zip" /\ nodes # <<>> /\ frames # <<>>
        /\ UNCHANGED <<disk, unreadable, failed, still, n, opening, nodes, Truncated>>
    BY <1>4 DEF ZipReturn, BudgetInv, diskVars
  <2>2. CASE Len(frames) = 1
    <3>1. CloseZip
      BY <1>4, <2>2 DEF ZipReturn
    <3> QED BY <1>1, <1>2, <2>1, <3>1
  <2>3. CASE Len(frames) # 1
    <3>1. frames' = rest /\ UNCHANGED walk
      BY <1>4, <2>3 DEF ZipReturn
    <3>2. /\ frames' \in Seq(Frame) /\ frames' # <<>>
          /\ \A i \in 1..Len(frames') : frames'[i].from <= Len(nodes)
      BY <2>1, <2>3, <3>1, PopTypes
    <3> QED BY <2>1, <3>1, <3>2 DEF BudgetInv, WalkTypeOK, Frame
  <2> QED BY <2>2, <2>3
<1>5. CASE Abandoned
  <2>1. /\ CloseZip /\ nodes # <<>> /\ still' = FALSE
        /\ UNCHANGED <<disk, unreadable, failed, n, opening, nodes, Truncated>>
    BY <1>5 DEF Abandoned, BudgetInv
  <2> QED BY <1>1, <1>2, <2>1
<1>6. ASSUME NEW d \in Dir, StartZip(d) PROVE BudgetInv'
  <2>1. /\ walk = "idle" /\ d \in DOMAIN disk /\ nodes' = <<d>>
        /\ UNCHANGED <<disk, unreadable, failed, still, n, opening, Truncated>>
    BY <1>6 DEF StartZip, diskVars
  <2>2. nodes' \in Seq(Node) /\ nodes' # <<>> /\ Len(nodes') = 1
    BY <2>1 DEF Node, Entry
  <2>3. CASE d \in unreadable
    <3>1. walk' = "closed" /\ frames' = <<>>
      BY <1>6, <2>3 DEF StartZip, CloseZip
    <3>2. \A i \in 1..Len(frames') : frames'[i].from <= Len(nodes')
      BY <3>1
    <3> QED BY <2>1, <2>2, <3>1, <3>2 DEF BudgetInv, WalkTypeOK
  <2>4. CASE d \notin unreadable
    <3> DEFINE S == Path(d, disk)
               way == SortedBy(S, {p \in S \X S : p[1] \in Ancestors(p[2], disk)})
               f == [path |-> way, entries |-> ReadDir(d, disk), from |-> 0]
    <3>1. walk' = "zip" /\ frames' = <<f>>
      BY <1>6, <2>4 DEF StartZip
    <3>2. way \in Seq(Nodes(disk)) /\ Nodes(disk) \subseteq Node
      BY <2>1, WalkTypes, WayFromRoot, TreeTypes DEF Nodes, Node
    <3>3. way \in Seq(Node) /\ ReadDir(d, disk) \in Seq(Entry)
      BY <3>2, WalkTypes, ReadDirSorts, SeqOfMore
    <3> HIDE DEF way
    <3>4. f \in Frame /\ f.from = 0
      BY <3>3 DEF Frame
    <3> HIDE DEF f
    <3>5. /\ frames' \in Seq(Frame) /\ frames' # <<>> /\ Len(frames') = 1
          /\ frames'[1] = f
      BY <3>1, <3>4
    <3>6. \A i \in 1..Len(frames') : frames'[i].from <= Len(nodes')
      BY <2>2, <3>4, <3>5
    <3> QED BY <2>1, <2>2, <3>1, <3>5, <3>6 DEF BudgetInv, WalkTypeOK, Frame
  <2> QED BY <2>3, <2>4
<1>7. ASSUME NEW x \in Entry, ZipGone(x) PROVE BudgetInv'
  <2>1. /\ CloseZip /\ nodes # <<>>
        /\ UNCHANGED <<disk, unreadable, failed, still, n, opening, nodes, Truncated>>
    BY <1>7 DEF ZipGone, AtZip, BudgetInv, diskVars
  <2> QED BY <1>1, <1>2, <2>1
<1>8. ASSUME NEW x \in Entry, ZipFile(x) \/ ZipDir(x) PROVE BudgetInv'
  <2>1. /\ walk = "zip" /\ NextEntry(x) /\ Skip /\ nodes # <<>>
        /\ UNCHANGED <<disk, unreadable, failed, still, n, Truncated>>
    BY <1>8 DEF ZipFile, ZipDir, AtZip, BudgetInv, diskVars
  <2>2. /\ frames' \in Seq(Frame) /\ frames' # <<>>
        /\ \A i \in 1..Len(frames') : frames'[i].from <= Len(nodes)
    BY <2>1, SkipTypes
  <2>3. CASE ZipFile(x)
    <3>1. walk' = "zip" /\ opening' = opening /\ nodes' = Append(nodes, x) /\ x \in Node
      BY <2>1, <2>3 DEF ZipFile, Node
    <3>2. nodes' \in Seq(Node) /\ nodes' # <<>> /\ Len(nodes') = Len(nodes) + 1
      BY <3>1, WalkTypes
    <3>3. \A i \in 1..Len(frames') : frames'[i].from \in Nat
      <4>1. \A i \in 1..Len(frames') : frames'[i] \in Frame
        BY <2>2
      <4> QED BY <4>1 DEF Frame
    <3>4. \A i \in 1..Len(frames') : frames'[i].from <= Len(nodes')
      BY <2>2, <3>2, <3>3, WalkTypes
    <3> QED BY <2>1, <2>2, <3>1, <3>2, <3>4 DEF BudgetInv, WalkTypeOK, Frame
  <2>4. CASE ZipDir(x)
    <3>1. walk' = "zipOpen" /\ opening' = x /\ nodes' = nodes /\ x \in Dir
      BY <2>4 DEF ZipDir
    <3> QED BY <2>1, <2>2, <3>1 DEF BudgetInv, WalkTypeOK, Frame
  <2> QED BY <1>8, <2>3, <2>4
<1>9. ASSUME NEW x \in Entry, ZipFileFails(x) PROVE BudgetInv'
  <2>1. /\ CloseZip /\ nodes # <<>> /\ failed' = {x} /\ x \in File
        /\ UNCHANGED <<disk, unreadable, still, n, opening, nodes, Truncated>>
    BY <1>9 DEF ZipFileFails, AtZip, BudgetInv
  <2>2. failed' \subseteq File
    BY <2>1
  <2> QED BY <1>1, <1>2, <2>1, <2>2
<1> QED
  BY <1>3, <1>4, <1>5, <1>6, <1>7, <1>8, <1>9 DEF serveZip

(* Every step keeps the budget. *)
LEMMA StepKeepsBudget == BudgetInv /\ [WalkNext]_walkVars => BudgetInv'
<1> SUFFICES ASSUME BudgetInv, [WalkNext]_walkVars PROVE BudgetInv'
  OBVIOUS
<1>1. CASE Environment
  <2>1. \E tree : Disturb(tree)
    BY <1>1 DEF Environment, DeleteEntry, CreateEntry, MoveEntry
  <2> QED BY <2>1, DisturbKeepsBudget
<1>2. CASE Walk
  BY <1>2, OpenKeepsBudget, EntryKeepsBudget, EndKeepsBudget DEF Walk
<1>3. CASE serveZip
  BY <1>3, ZipKeepsBudget
<1>4. CASE UNCHANGED walkVars
  BY <1>4 DEF walkVars, diskVars, BudgetInv, WalkTypeOK
<1> QED
  BY <1>1, <1>2, <1>3, <1>4 DEF WalkNext, Finished

(* However the directory changes under it, a walk never counts more than one entry over *)
(* its budget, and what it returns it has counted and is within the budget.             *)
THEOREM WalkKeepsBudget == WalkSpec => []BudgetIsKept
<1>1. BudgetInv => BudgetIsKept
  <2> SUFFICES ASSUME BudgetInv PROVE BudgetIsKept
    OBVIOUS
  <2> QED BY WalkTypes DEF BudgetInv, BudgetIsKept
<1> QED
  BY <1>1, InitBudget, StepKeepsBudget, PTL DEF WalkSpec

(* Type correctness of a walk. *)
THEOREM WalkIsTyped == WalkSpec => []WalkTypeOK
<1>1. BudgetInv => WalkTypeOK
  BY DEF BudgetInv
<1> QED
  BY <1>1, InitBudget, StepKeepsBudget, PTL DEF WalkSpec

-----------------------------------------------------------------------------
(* How the stack moves through a tree that stands still. *)

(* An entry of d is on the way to all that is below d, and to nothing else. *)
LEMMA EntriesCover ==
  ASSUME NEW t \in Trees, NEW d \in Nodes(t), NEW v \in Nodes(t)
  PROVE  (\E e \in DOMAIN t : t[e] = d /\ e \in Path(v, t)) <=> d \in Ancestors(v, t)
<1>1. ASSUME d \in Ancestors(v, t) PROVE \E e \in DOMAIN t : t[e] = d /\ e \in Path(v, t)
  <2>1. PICK a \in Path(v, t) \ {Root} : t[a] = d
    BY <1>1, EntryOnTheWay
  <2>2. a \in DOMAIN t
    BY PathIsClosed DEF Closed, Nodes
  <2> QED BY <2>1, <2>2
<1>2. ASSUME NEW e \in DOMAIN t, t[e] = d, e \in Path(v, t) PROVE d \in Ancestors(v, t)
  <2>1. e # Root /\ e \in Nodes(t)
    BY TreeTypes DEF Nodes
  <2>2. d \in Path(v, t)
    BY <1>2, <2>1, PathIsClosed DEF Closed
  <2>3. d \in Path(e, t)
    BY <1>2, <2>1, PathIsClosed DEF Closed
  <2>4. d # v
    <3> SUFFICES ASSUME d = v PROVE FALSE
      OBVIOUS
    <3>1. e = d
      BY <1>2, <2>1, <2>3, PathsDoNotCycle
    <3>2. \E z \in {e} : t[z] \notin {e}
      BY TreeTypes
    <3> QED BY <1>2, <3>1, <3>2
  <2> QED BY <2>2, <2>4 DEF Ancestors
<1> QED
  BY <1>1, <1>2

(* The first entry comes before the others. *)
LEMMA HeadIsFirst ==
  ASSUME NEW s \in Seq(Entry), s # <<>>, Rising(s)
  PROVE  Rising(Tail(s)) /\ \A e \in ToSet(Tail(s)) : Head(s) < e
<1>1. /\ Len(s) \in Nat \ {0} /\ DOMAIN s = 1..Len(s) /\ Head(s) = s[1]
      /\ Len(Tail(s)) = Len(s) - 1 /\ DOMAIN Tail(s) = 1..(Len(s) - 1)
      /\ \A i \in 1..(Len(s) - 1) : Tail(s)[i] = s[i + 1]
  OBVIOUS
<1>2. \A i \in 1..(Len(s) - 1) : i + 1 \in 1..Len(s) /\ 1 \in 1..Len(s) /\ 1 < i + 1
  BY <1>1
<1>3. \A i, j \in 1..(Len(s) - 1) : i < j => i + 1 < j + 1
  BY <1>1
<1>4. Rising(Tail(s))
  BY <1>1, <1>2, <1>3 DEF Rising
<1>5. ASSUME NEW e \in ToSet(Tail(s)) PROVE Head(s) < e
  <2>1. PICK i \in 1..(Len(s) - 1) : e = Tail(s)[i]
    BY <1>1 DEF ToSet
  <2> QED BY <1>1, <1>2, <2>1 DEF Rising
<1> QED
  BY <1>4, <1>5

(* The next entry is taken from the directory at hand. *)
LEMMA StackSkips ==
  ASSUME NEW t \in Trees, NEW fs \in Seq(Frame), fs # <<>>, fs[Len(fs)].entries # <<>>,
         Stack(fs, t)
  PROVE  LET f   == fs[Len(fs)]
             fs2 == Skipped(fs)
             x   == First(fs)
         IN  /\ Stack(fs2, t) /\ Taken(x, fs2[Len(fs2)], t)
             /\ \A i \in 1..Len(fs) : Place(fs2[i]) = Place(fs[i])
             /\ \A v : Pending(v, fs, t) <=> x \in Path(v, t) \/ Pending(v, fs2, t)
<1> DEFINE f   == fs[Len(fs)]
           fs2 == Skipped(fs)
           x   == First(fs)
<1>1. /\ fs2 \in Seq(Frame) /\ fs2 # <<>> /\ Len(fs2) = Len(fs)
      /\ \A i \in 1..Len(fs) : fs2[i].path = fs[i].path /\ fs2[i].from = fs[i].from
      /\ \A i \in 1..(Len(fs) - 1) : fs2[i] = fs[i]
      /\ fs2[Len(fs)].entries = Tail(f.entries)
      /\ x \in Entry
  BY FrameSkipped
<1> HIDE DEF fs2
<1>2. Len(fs) \in Nat \ {0} /\ Len(fs) \in 1..Len(fs) /\ f \in Frame
  OBVIOUS
<1>3. f.entries \in Seq(Entry) /\ f.entries # <<>> /\ Sound(f, t)
  BY <1>2 DEF Frame, Stack
<1>4. ToSet(f.entries) = {x} \cup ToSet(Tail(f.entries))
  BY <1>3, ToSetHas DEF First
<1>5. Rising(Tail(f.entries)) /\ \A e \in ToSet(Tail(f.entries)) : x < e
  BY <1>3, HeadIsFirst DEF Sound, First
<1>6. \A i \in 1..Len(fs) : Place(fs2[i]) = Place(fs[i])
  BY <1>1 DEF Place
<1>7. x \in DOMAIN t /\ t[x] = Place(f)
  BY <1>3, <1>4 DEF Sound
<1>8. Taken(x, fs2[Len(fs2)], t)
  BY <1>1, <1>2, <1>5, <1>6, <1>7 DEF Taken
<1>9. ASSUME NEW i \in 1..Len(fs) PROVE Sound(fs2[i], t)
  <2>1. CASE i = Len(fs)
    <3>1. fs2[i] \in Frame
      BY <1>1
    <3>2. Place(fs2[i]) = Place(f) /\ fs2[i].path = f.path /\ fs2[i].entries = Tail(f.entries)
      BY <1>1, <1>6, <2>1
    <3> QED BY <1>3, <1>4, <1>5, <3>1, <3>2 DEF Sound
  <2>2. CASE i # Len(fs)
    <3>1. i \in 1..(Len(fs) - 1)
      BY <1>2, <2>2
    <3> QED BY <1>1, <3>1 DEF Stack
  <2> QED BY <2>1, <2>2
<1>10. \A i \in 2..Len(fs) : Taken(Place(fs2[i]), fs2[i - 1], t)
  <2> TAKE i \in 2..Len(fs)
  <2>1. i - 1 \in 1..(Len(fs) - 1) /\ i \in 1..Len(fs)
    BY <1>2
  <2> QED BY <1>1, <1>6, <2>1 DEF Stack
<1>11. Stack(fs2, t)
  BY <1>1, <1>6, <1>9, <1>10 DEF Stack
<1>12. ASSUME NEW v PROVE Pending(v, fs, t) <=> x \in Path(v, t) \/ Pending(v, fs2, t)
  <2>1. \A i \in 1..Len(fs) : i = Len(fs) \/ i \in 1..(Len(fs) - 1)
    BY <1>2
  <2>2. ASSUME Pending(v, fs, t) PROVE x \in Path(v, t) \/ Pending(v, fs2, t)
    <3>1. PICK i \in 1..Len(fs) : \E e \in ToSet(fs[i].entries) : e \in Path(v, t)
      BY <2>2 DEF Pending
    <3>2. CASE i = Len(fs)
      BY <1>1, <1>2, <1>4, <3>1, <3>2 DEF Pending
    <3>3. CASE i \in 1..(Len(fs) - 1)
      BY <1>1, <3>1, <3>3 DEF Pending
    <3> QED BY <2>1, <3>2, <3>3
  <2>3. ASSUME Pending(v, fs2, t) PROVE Pending(v, fs, t)
    <3>1. PICK i \in 1..Len(fs) : \E e \in ToSet(fs2[i].entries) : e \in Path(v, t)
      BY <1>1, <2>3 DEF Pending
    <3>2. CASE i = Len(fs)
      BY <1>1, <1>2, <1>4, <3>1, <3>2 DEF Pending
    <3>3. CASE i \in 1..(Len(fs) - 1)
      BY <1>1, <3>1, <3>3 DEF Pending
    <3> QED BY <2>1, <3>2, <3>3
  <2>4. ASSUME x \in Path(v, t) PROVE Pending(v, fs, t)
    BY <1>2, <1>4, <2>4 DEF Pending
  <2> QED BY <2>2, <2>3, <2>4
<1> QED
  BY <1>6, <1>8, <1>11, <1>12 DEF fs2

(* A directory with no entries left is done with. *)
LEMMA StackPops ==
  ASSUME NEW t \in Trees, NEW fs \in Seq(Frame), fs # <<>>, fs[Len(fs)].entries = <<>>,
         Stack(fs, t)
  PROVE  /\ Stack(Front(fs), t)
         /\ \A v : Pending(v, fs, t) <=> Pending(v, Front(fs), t)
<1> DEFINE b == Front(fs)
<1>1. /\ b \in Seq(Frame) /\ Len(b) = Len(fs) - 1 /\ Len(fs) \in Nat \ {0}
      /\ \A i \in 1..(Len(fs) - 1) : b[i] = fs[i]
  BY FramePopped
<1> HIDE DEF b
<1>2. /\ \A i \in 1..(Len(fs) - 1) : i \in 1..Len(fs)
      /\ \A i \in 2..(Len(fs) - 1) : i - 1 \in 1..(Len(fs) - 1) /\ i \in 1..(Len(fs) - 1) /\ i \in 2..Len(fs)
      /\ \A i \in 1..Len(fs) : i = Len(fs) \/ i \in 1..(Len(fs) - 1)
  BY <1>1
<1>3. /\ \A i \in 1..(Len(fs) - 1) : Sound(b[i], t)
      /\ \A i \in 2..(Len(fs) - 1) : Taken(Place(b[i]), b[i - 1], t)
  BY <1>1, <1>2 DEF Stack
<1>4. \A i, j \in 1..(Len(fs) - 1) : i <= j => Place(b[i]) \in Path(Place(b[j]), t)
  BY <1>1, <1>2 DEF Stack
<1>5. ToSet(fs[Len(fs)].entries) = {}
  BY DEF ToSet
<1>6. ASSUME NEW v PROVE Pending(v, fs, t) <=> Pending(v, b, t)
  BY <1>1, <1>2, <1>5 DEF Pending
<1> QED
  BY <1>1, <1>3, <1>4, <1>6 DEF Stack, b

(* A directory is read whose entry was just taken, or the first of a walk. *)
LEMMA StackPushes ==
  ASSUME NEW t \in Trees, NEW fs \in Seq(Frame), Stack(fs, t), NEW f \in Frame,
         f.path # <<>>, Standing(f.path, t), Place(f) \in Nodes(t),
         f.entries = ReadDir(Place(f), t),
         fs # <<>> => Taken(Place(f), fs[Len(fs)], t)
  PROVE  /\ Stack(Append(fs, f), t)
         /\ \A v \in Nodes(t) : Pending(v, Append(fs, f), t) <=>
                                  Pending(v, fs, t) \/ Place(f) \in Ancestors(v, t)
<1> DEFINE g == Append(fs, f)
           m == Len(fs)
           d == Place(f)
<1>1. /\ g \in Seq(Frame) /\ g # <<>> /\ Len(g) = m + 1 /\ m \in Nat
      /\ \A i \in 1..m : g[i] = fs[i]
      /\ g[m + 1] = f
  BY FramePushed
<1>2. /\ ToSet(f.entries) = {y \in DOMAIN t : t[y] = d} /\ Rising(f.entries)
  BY ReadDirSorts
<1>3. Sound(f, t)
  BY <1>2 DEF Sound
<1>4. /\ \A i \in 1..(m + 1) : i = m + 1 \/ i \in 1..m
      /\ \A i \in 1..m : i \in 1..(m + 1)
      /\ \A i \in 2..(m + 1) : (i = m + 1 /\ i - 1 = m) \/ (i \in 2..m /\ i \in 1..m /\ i - 1 \in 1..m)
      /\ \A i \in 1..m : ~(m + 1 <= i) /\ m \in 1..m /\ i <= m
      /\ m + 1 \in 1..(m + 1)
  BY <1>1
<1>5. m # 0 => fs # <<>>
  OBVIOUS
<1> HIDE DEF g, m
<1>6. \A i \in 1..(m + 1) : Sound(g[i], t)
  BY <1>1, <1>3, <1>4 DEF Stack, m
<1>7. ASSUME NEW i \in 2..(m + 1) PROVE Taken(Place(g[i]), g[i - 1], t)
  <2>1. CASE i = m + 1 /\ i - 1 = m
    <3>1. fs # <<>> /\ m \in 1..m
      BY <1>1, <1>5, <2>1
    <3> QED BY <1>1, <2>1, <3>1 DEF m
  <2>2. CASE i \in 2..m /\ i \in 1..m /\ i - 1 \in 1..m
    BY <1>1, <2>2 DEF Stack, m
  <2> QED BY <1>4, <2>1, <2>2
<1>8. ASSUME NEW i \in 1..(m + 1), NEW j \in 1..(m + 1), i <= j
      PROVE  Place(g[i]) \in Path(Place(g[j]), t)
  <2>1. CASE i = m + 1
    <3>1. j = m + 1
      BY <1>4, <1>8, <2>1
    <3> QED BY <1>1, <2>1, <3>1, PathIsClosed DEF Closed
  <2>2. CASE i \in 1..m /\ j \in 1..m
    BY <1>1, <1>8, <2>2 DEF Stack, m
  <2>3. CASE i \in 1..m /\ j = m + 1
    <3>1. m \in 1..m /\ i <= m
      BY <1>4, <2>3
    <3>2. fs # <<>>
      BY <1>1, <1>5, <3>1
    <3>3. d \in DOMAIN t /\ t[d] = Place(fs[m])
      BY <3>2 DEF Taken, m
    <3>4. Place(fs[i]) \in Path(t[d], t)
      BY <2>3, <3>1, <3>3 DEF Stack, m
    <3>5. Place(fs[i]) \in Path(d, t)
      BY <3>3, <3>4, PathUnfolds
    <3> QED BY <1>1, <2>3, <3>5
  <2> QED BY <1>4, <2>1, <2>2, <2>3
<1>9. ASSUME NEW v \in Nodes(t)
      PROVE  Pending(v, g, t) <=> Pending(v, fs, t) \/ d \in Ancestors(v, t)
  <2>1. (\E e \in ToSet(f.entries) : e \in Path(v, t)) <=> d \in Ancestors(v, t)
    BY <1>2, EntriesCover
  <2>2. Pending(v, fs, t) <=> \E i \in 1..m : \E e \in ToSet(fs[i].entries) : e \in Path(v, t)
    BY DEF Pending, m
  <2>3. Pending(v, g, t) <=> \E i \in 1..(m + 1) : \E e \in ToSet(g[i].entries) : e \in Path(v, t)
    BY <1>1 DEF Pending
  <2> QED BY <1>1, <1>4, <2>1, <2>2, <2>3
<1> QED
  BY <1>1, <1>6, <1>7, <1>8, <1>9 DEF Stack, g

(* The way to an entry of a directory goes through the directory. *)
LEMMA StandingLonger ==
  ASSUME NEW t \in Trees, NEW path \in Seq(Node), path # <<>>, Standing(path, t),
         NEW d \in DOMAIN t, t[d] = path[Len(path)]
  PROVE  LET q == Append(path, d)
         IN  q \in Seq(Node) /\ q # <<>> /\ q[Len(q)] = d /\ Standing(q, t)
<1> DEFINE q == Append(path, d)
           m == Len(path)
<1>1. d \in Node
  BY TreeTypes DEF Node
<1>2. /\ q \in Seq(Node) /\ q # <<>> /\ Len(q) = m + 1 /\ m \in Nat \ {0} /\ q[m + 1] = d
      /\ \A i \in 1..m : q[i] = path[i]
  BY <1>1
<1> HIDE DEF q
<1>3. ASSUME NEW i \in 2..(m + 1) PROVE q[i] \in DOMAIN t /\ t[q[i]] = q[i - 1]
  <2>1. CASE i = m + 1
    <3>1. m \in 1..m /\ i - 1 = m
      BY <1>2, <2>1
    <3> QED BY <1>2, <2>1, <3>1
  <2>2. CASE i # m + 1
    <3>1. i \in 2..m /\ i \in 1..m /\ i - 1 \in 1..m
      BY <1>2, <2>2
    <3> QED BY <1>2, <3>1 DEF Standing
  <2> QED BY <2>1, <2>2
<1> QED
  BY <1>2, <1>3 DEF Standing, q

-----------------------------------------------------------------------------
(* How far a walk has come: U is what it visits, O the directory it is about to read. *)

(* What is not left on the stack, nor in that directory. *)
Met(U, fs, O, t) == {v \in U : ~Pending(v, fs, t) /\ Ancestors(v, t) \cap O = {}}

(* The walk is on a sound stack through directories that can be read; what it met     *)
(* comes before all the rest of what it visits, and the directory it is about to read *)
(* is what it met last.                                                               *)
Course(U, fs, O, t, u) ==
  /\ Stack(fs, t)
  /\ \A i \in 1..Len(fs) : Place(fs[i]) \in U \ u
  /\ \A v \in Met(U, fs, O, t), r \in U \ Met(U, fs, O, t) : Before(v, r, t)
  /\ \A o \in O :
       /\ o \in Met(U, fs, O, t)
       /\ \A v \in Met(U, fs, O, t) \ {o} : Before(v, o, t)
       /\ IF fs = <<>> THEN o = Root ELSE Taken(o, fs[Len(fs)], t)

(* The next entry is visited: it is the first of what is left, so exactly what was met *)
(* comes before it, and after it what was met and it itself.                           *)
LEMMA CourseTakes ==
  ASSUME NEW t \in Trees, NEW U \in SUBSET Nodes(t), NEW u, NEW fs \in Seq(Frame), fs # <<>>,
         fs[Len(fs)].entries # <<>>, Course(U, fs, {}, t, u), First(fs) \in U
  PROVE  LET f   == fs[Len(fs)]
             fs2 == Skipped(fs)
             x   == First(fs)
             M   == Met(U, fs, {}, t)
         IN  /\ x \in DOMAIN t /\ t[x] = Place(f) /\ x \notin M
             /\ \A y \in U : y \in M <=> Before(y, x, t)
             /\ \A O : /\ \A o \in O : o = x
                       /\ x \in O \/ \A y \in DOMAIN t : t[y] # x
                       => Met(U, fs2, O, t) = M \cup {x} /\ Course(U, fs2, O, t, u)
<1> DEFINE f   == fs[Len(fs)]
           fs2 == Skipped(fs)
           x   == First(fs)
           M   == Met(U, fs, {}, t)
<1>1. /\ Stack(fs, t) /\ \A i \in 1..Len(fs) : Place(fs[i]) \in U \ u
      /\ \A v \in M, r \in U \ M : Before(v, r, t)
  BY DEF Course
<1>2. fs2 \in Seq(Frame) /\ fs2 # <<>> /\ Len(fs2) = Len(fs)
  BY FrameSkipped
<1>3. Len(fs) \in 1..Len(fs)
  OBVIOUS
<1>4. /\ Stack(fs2, t) /\ Taken(x, fs2[Len(fs2)], t)
      /\ \A i \in 1..Len(fs) : Place(fs2[i]) = Place(fs[i])
      /\ \A v : Pending(v, fs, t) <=> x \in Path(v, t) \/ Pending(v, fs2, t)
  BY <1>1, StackSkips
<1> HIDE DEF fs2
<1>5. x \in U /\ x \in DOMAIN t /\ t[x] = Place(f)
  BY <1>2, <1>3, <1>4 DEF Taken
<1>6. \A v \in Nodes(t) : Pending(v, fs2, t) => Before(x, v, t) /\ x \notin Path(v, t)
  BY <1>2, <1>4, TakenIsFirst
<1>7. x \in Path(x, t) /\ \A v \in U : x \in Path(v, t) <=> v = x \/ x \in Ancestors(v, t)
  BY <1>5, PathIsClosed DEF Closed, Ancestors
<1>8. M \subseteq U /\ \A v \in U : v \in M <=> ~Pending(v, fs2, t) /\ x \notin Path(v, t)
  BY <1>4 DEF Met
<1>9. x \notin M
  BY <1>7, <1>8
<1>10. \A v \in M : Before(v, x, t)
  BY <1>1, <1>5, <1>9
<1>11. \A r \in U \ M : r = x \/ Before(x, r, t)
  BY <1>6, <1>7, <1>8 DEF Before
<1>12. \A y \in U : y \in M <=> Before(y, x, t)
  <2>1. ASSUME NEW y \in U, Before(y, x, t), y \notin M PROVE FALSE
    <3>1. y = x \/ Before(x, y, t)
      BY <1>11, <2>1
    <3>2. ~Before(y, y, t)
      BY BeforeIrreflexive
    <3>3. x \in Nodes(t)
      BY <1>5
    <3> QED BY <2>1, <3>1, <3>2, <3>3, BeforeTransitive
  <2> QED BY <1>10, <2>1
<1>13. ASSUME NEW O, \A o \in O : o = x, x \in O \/ \A y \in DOMAIN t : t[y] # x
       PROVE  Met(U, fs2, O, t) = M \cup {x} /\ Course(U, fs2, O, t, u)
  <2> DEFINE M2 == Met(U, fs2, O, t)
  <2>1. x \in O \/ \A v \in U : x \notin Ancestors(v, t)
    BY <1>5, <1>13, EntriesCover
  <2>2. \A v \in U : Ancestors(v, t) \cap O = {} <=> x \notin Ancestors(v, t)
    BY <1>13, <2>1
  <2>3. M2 \subseteq U /\ \A v \in U : v \in M2 <=> ~Pending(v, fs2, t) /\ x \notin Ancestors(v, t)
    BY <2>2 DEF Met
  <2>4. ~Pending(x, fs2, t) /\ x \notin Ancestors(x, t)
    BY <1>5, <1>6, <1>7 DEF Ancestors
  <2>5. M2 = M \cup {x}
    BY <1>5, <1>7, <1>8, <2>3, <2>4
  <2>6. \A v \in M2, r \in U \ M2 : Before(v, r, t)
    BY <1>1, <1>11, <2>5
  <2>7. \A i \in 1..Len(fs2) : Place(fs2[i]) \in U \ u
    BY <1>1, <1>2, <1>4
  <2>8. x \in M2 /\ \A v \in M2 \ {x} : Before(v, x, t)
    BY <1>10, <2>5
  <2> HIDE DEF M2, x
  <2>9. \A o \in O : /\ o \in M2 /\ \A v \in M2 \ {o} : Before(v, o, t)
                     /\ IF fs2 = <<>> THEN o = Root ELSE Taken(o, fs2[Len(fs2)], t)
    BY <1>2, <1>4, <1>13, <2>8
  <2>10. Course(U, fs2, O, t, u)
    BY <1>4, <2>6, <2>7, <2>9 DEF Course, M2
  <2> QED BY <2>5, <2>10 DEF M2
<1> QED
  BY <1>5, <1>9, <1>12, <1>13 DEF fs2

(* The directory is read. *)
LEMMA CourseEnters ==
  ASSUME NEW t \in Trees, NEW U \in SUBSET Nodes(t), NEW u, NEW fs \in Seq(Frame),
         NEW f \in Frame, Course(U, fs, {Place(f)}, t, u), Place(f) \notin u,
         f.path # <<>>, Standing(f.path, t), f.entries = ReadDir(Place(f), t)
  PROVE  /\ Course(U, Append(fs, f), {}, t, u)
         /\ Met(U, Append(fs, f), {}, t) = Met(U, fs, {Place(f)}, t)
<1> DEFINE g == Append(fs, f)
           d == Place(f)
           M == Met(U, fs, {d}, t)
<1>1. /\ Stack(fs, t) /\ \A i \in 1..Len(fs) : Place(fs[i]) \in U \ u
      /\ \A v \in M, r \in U \ M : Before(v, r, t)
      /\ d \in M
      /\ fs # <<>> => Taken(d, fs[Len(fs)], t)
  BY DEF Course
<1>2. d \in U
  BY <1>1 DEF Met
<1>3. /\ Stack(g, t)
      /\ \A v \in Nodes(t) : Pending(v, g, t) <=> Pending(v, fs, t) \/ d \in Ancestors(v, t)
  BY <1>1, <1>2, StackPushes
<1>4. /\ Len(g) = Len(fs) + 1 /\ Len(fs) \in Nat
      /\ \A i \in 1..Len(fs) : g[i] = fs[i]
      /\ g[Len(fs) + 1] = f
  BY FramePushed
<1> HIDE DEF g
<1>5. Met(U, g, {}, t) = M
  <2>1. \A v \in U : v \in Met(U, g, {}, t) <=> v \in M
    BY <1>3 DEF Met
  <2> QED BY <2>1 DEF Met
<1>6. \A i \in 1..Len(g) : Place(g[i]) \in U \ u
  <2> TAKE i \in 1..Len(g)
  <2>1. i \in 1..Len(fs) \/ i = Len(fs) + 1
    BY <1>4
  <2> QED BY <1>1, <1>2, <1>4, <2>1
<1>7. Course(U, g, {}, t, u)
  BY <1>1, <1>3, <1>5, <1>6 DEF Course
<1> QED
  BY <1>5, <1>7 DEF g

(* The directory cannot be read, and the walk does not visit what is in it. *)
LEMMA CoursePasses ==
  ASSUME NEW t \in Trees, NEW U \in SUBSET Nodes(t), NEW u, NEW fs \in Seq(Frame),
         NEW d, Course(U, fs, {d}, t, u), \A v \in U : d \notin Ancestors(v, t)
  PROVE  /\ Course(U, fs, {}, t, u)
         /\ Met(U, fs, {}, t) = Met(U, fs, {d}, t)
<1>1. Met(U, fs, {}, t) = Met(U, fs, {d}, t)
  BY DEF Met
<1> QED
  BY <1>1 DEF Course

(* A directory is done with.  After that of the walk itself nothing is left. *)
LEMMA CoursePops ==
  ASSUME NEW t \in Trees, NEW U \in SUBSET Nodes(t), NEW u, NEW fs \in Seq(Frame), fs # <<>>,
         fs[Len(fs)].entries = <<>>, Course(U, fs, {}, t, u)
  PROVE  /\ Course(U, Front(fs), {}, t, u)
         /\ Met(U, Front(fs), {}, t) = Met(U, fs, {}, t)
         /\ Len(fs) = 1 => Met(U, fs, {}, t) = U
<1>1. /\ Front(fs) \in Seq(Frame) /\ Len(Front(fs)) = Len(fs) - 1 /\ Len(fs) \in Nat \ {0}
      /\ \A i \in 1..(Len(fs) - 1) : Front(fs)[i] = fs[i] /\ i \in 1..Len(fs)
  BY FramePopped
<1>2. Stack(Front(fs), t) /\ \A v : Pending(v, fs, t) <=> Pending(v, Front(fs), t)
  BY StackPops DEF Course
<1>3. Met(U, Front(fs), {}, t) = Met(U, fs, {}, t)
  BY <1>2 DEF Met
<1>4. Course(U, Front(fs), {}, t, u)
  BY <1>1, <1>2, <1>3 DEF Course
<1>5. ASSUME Len(fs) = 1 PROVE Met(U, fs, {}, t) = U
  <2>1. ToSet(fs[Len(fs)].entries) = {} /\ \A i \in 1..Len(fs) : i = Len(fs)
    BY <1>5 DEF ToSet
  <2>2. \A v : ~Pending(v, fs, t)
    BY <2>1 DEF Pending
  <2> QED BY <2>2 DEF Met
<1> QED
  BY <1>3, <1>4, <1>5

-----------------------------------------------------------------------------
(* What a walk of a directory that stands still returns. *)

(* The nodes of s are in the order of the tree. *)
InTreeOrder(s, t) == \A i, j \in DOMAIN s : i < j => Before(s[i], s[j], t)

(* A node that comes after all of a sequence in order goes to its end. *)
LEMMA OrderGrows ==
  ASSUME NEW t, NEW s \in Seq(Node), InTreeOrder(s, t), NEW x \in Node,
         \A y \in ToSet(s) : Before(y, x, t)
  PROVE  /\ Append(s, x) \in Seq(Node) /\ InTreeOrder(Append(s, x), t)
         /\ ToSet(Append(s, x)) = ToSet(s) \cup {x}
         /\ Len(Append(s, x)) = Len(s) + 1 /\ Len(s) \in Nat
         /\ \A i \in 1..Len(s) : Append(s, x)[i] = s[i]
         /\ Append(s, x)[Len(s) + 1] = x
<1> DEFINE q == Append(s, x)
           m == Len(s)
<1>1. /\ q \in Seq(Node) /\ Len(q) = m + 1 /\ m \in Nat /\ DOMAIN q = 1..(m + 1)
      /\ DOMAIN s = 1..m /\ q[m + 1] = x /\ \A i \in 1..m : q[i] = s[i]
  OBVIOUS
<1>2. ToSet(q) = ToSet(s) \cup {x}
  BY ToSetHas
<1> HIDE DEF q, m
<1>3. ASSUME NEW i \in DOMAIN q, NEW j \in DOMAIN q, i < j PROVE Before(q[i], q[j], t)
  <2>1. i \in 1..m /\ (j \in 1..m \/ j = m + 1)
    BY <1>1, <1>3
  <2>2. s[i] \in ToSet(s)
    BY <1>1, <2>1 DEF ToSet
  <2> QED BY <1>1, <1>3, <2>1, <2>2 DEF InTreeOrder
<1> QED
  BY <1>1, <1>2, <1>3 DEF InTreeOrder, q, m

(* There is one sequence of given nodes in the order of the tree. *)
LEMMA OrderedIsInOrder ==
  ASSUME NEW t \in Trees, NEW s \in Seq(Node), InTreeOrder(s, t), ToSet(s) \subseteq Nodes(t)
  PROVE  s = InOrder(ToSet(s), t)
<1> DEFINE S == ToSet(s)
           R == {p \in S \X S : Before(p[1], p[2], t)}
<1>1. Orders(R, S) /\ InOrder(S, t) = SortedBy(S, R)
  BY InOrderSorts
<1>2. s \in Seq(S) /\ \A i \in DOMAIN s : s[i] \in S
  <2>1. \A i \in DOMAIN s : s[i] \in S
    BY DEF ToSet
  <2>2. s \in [1..Len(s) -> S] /\ Len(s) \in Nat
    BY <2>1
  <2> HIDE DEF S
  <2>3. s \in Seq(S)
    BY <2>1, <2>2
  <2> QED BY <2>1, <2>3
<1>3. Increasing(s, R)
  BY <1>2 DEF Increasing, InTreeOrder
<1> HIDE DEF R
<1> QED
  BY <1>1, <1>2, <1>3, SortedByIsUnique

(* What a walk visits. *)
LEMMA VisitedTypes ==
  ASSUME NEW t \in Trees, NEW u \in SUBSET Dir
  PROVE  /\ Visited(t, u) \subseteq Nodes(t) /\ IsFiniteSet(Visited(t, u))
         /\ Root \in Visited(t, u) \ u
         /\ \A x \in DOMAIN t : t[x] \in Visited(t, u) \ u => x \in Visited(t, u)
         /\ \A d \in u, v \in Visited(t, u) : d \notin Ancestors(v, t)
<1>1. Visited(t, u) \subseteq Nodes(t)
  BY DEF Visited, Nodes
<1>2. IsFiniteSet(Visited(t, u))
  BY <1>1, TreeTypes, FS_Subset
<1>3. Root \notin u /\ Path(Root, t) = {Root}
  BY FileListAssumption, PathOfRoot DEF Entry
<1>4. ASSUME NEW x \in DOMAIN t, t[x] \in Visited(t, u) \ u PROVE x \in Visited(t, u)
  <2>1. Ancestors(x, t) \subseteq Path(t[x], t)
    BY AboveMeansInTheDirectory DEF Ancestors
  <2>2. Path(t[x], t) \cap u = {}
    <3>1. CASE t[x] = Root
      BY <1>3, <3>1
    <3>2. CASE t[x] # Root
      BY <1>4, <3>2 DEF Visited, Ancestors
    <3> QED BY <3>1, <3>2
  <2> QED BY <2>1, <2>2 DEF Visited
<1>5. \A d \in u, v \in Visited(t, u) : d \notin Ancestors(v, t)
  BY <1>3 DEF Visited, Ancestors
<1> QED
  BY <1>1, <1>2, <1>3, <1>4, <1>5 DEF Visited

(* The nodes so far, of which k were counted: those met, in order, but for unreadable *)
(* directories and the one about to be read.  Those of a directory being walked are   *)
(* the last.                                                                          *)
Listing(fs, O, ns, k, t, u) ==
  LET M == Met(Visited(t, u), fs, O, t)
  IN  /\ Course(Visited(t, u), fs, O, t, u)
      /\ k = Cardinality(M)
      /\ ToSet(ns) = (M \ u) \ O
      /\ InTreeOrder(ns, t)
      /\ \A i \in 1..Len(fs), j \in 1..Len(ns) :
           j <= fs[i].from <=> Place(fs[i]) \notin Path(ns[j], t)
      /\ fs # <<>> => Place(fs[1]) = Root

(* The next entry is counted, and listed if it is a file. *)
LEMMA ListingTakes ==
  ASSUME NEW t \in Trees, NEW u \in SUBSET Dir, NEW fs \in Seq(Frame), fs # <<>>,
         fs[Len(fs)].entries # <<>>, NEW ns \in Seq(Node), NEW k, Listing(fs, {}, ns, k, t, u),
         \A i \in 1..Len(fs) : fs[i].from <= Len(ns)
  PROVE  LET f   == fs[Len(fs)]
             fs2 == Skipped(fs)
             x   == First(fs)
         IN  /\ x \in Dir  => Listing(fs2, {x}, ns, k + 1, t, u)
             /\ x \in File => Listing(fs2, {}, Append(ns, x), k + 1, t, u)
<1> DEFINE f   == fs[Len(fs)]
           fs2 == Skipped(fs)
           x   == First(fs)
           U   == Visited(t, u)
           M   == Met(U, fs, {}, t)
<1>1. /\ U \subseteq Nodes(t) /\ IsFiniteSet(U)
      /\ \A y \in DOMAIN t : t[y] \in U \ u => y \in U
  BY VisitedTypes
<1>2. /\ Course(U, fs, {}, t, u) /\ k = Cardinality(M) /\ ToSet(ns) = M \ u
      /\ InTreeOrder(ns, t)
      /\ \A i \in 1..Len(fs), j \in 1..Len(ns) :
           j <= fs[i].from <=> Place(fs[i]) \notin Path(ns[j], t)
      /\ Place(fs[1]) = Root
  BY DEF Listing
<1>3. /\ fs2 \in Seq(Frame) /\ fs2 # <<>> /\ Len(fs2) = Len(fs)
      /\ \A i \in 1..Len(fs) : fs2[i].path = fs[i].path /\ fs2[i].from = fs[i].from
      /\ x \in Entry
  BY FrameSkipped
<1> HIDE DEF fs2
<1>4. Len(fs) \in Nat \ {0} /\ Len(fs) \in 1..Len(fs) /\ 1 \in 1..Len(fs) /\ f \in Frame
  OBVIOUS
<1>5. x \in DOMAIN t /\ t[x] = Place(f)
  <2>1. Sound(f, t)
    BY <1>2, <1>4 DEF Course, Stack
  <2>2. f.entries \in Seq(Entry)
    BY <1>4 DEF Frame
  <2>3. x \in ToSet(f.entries)
    BY <2>2, ToSetHas DEF First
  <2> QED BY <2>1, <2>3 DEF Sound
<1>6. x \in U
  <2>1. Place(f) \in U \ u
    BY <1>2, <1>4 DEF Course
  <2> QED BY <1>1, <1>5, <2>1
<1>7. /\ x \notin M /\ M \subseteq U /\ \A y \in U : y \in M <=> Before(y, x, t)
      /\ Met(U, fs2, {x}, t) = M \cup {x} /\ Course(U, fs2, {x}, t, u)
      /\ (\A y \in DOMAIN t : t[y] # x) =>
           Met(U, fs2, {}, t) = M \cup {x} /\ Course(U, fs2, {}, t, u)
  <2>1. U \in SUBSET Nodes(t) /\ Course(U, fs, {}, t, u) /\ M \subseteq U
    BY <1>1, <1>2 DEF Met
  <2> QED BY <1>6, <2>1, CourseTakes DEF fs2
<1>8. IsFiniteSet(M)
  BY <1>1, FS_Subset DEF Met
<1>9. x \notin M => k + 1 = Cardinality(M \cup {x})
  BY <1>2, <1>8, FS_AddElement
<1>10. \A i \in 1..Len(fs) : Place(fs2[i]) = Place(fs[i]) /\ fs2[i].from = fs[i].from
  BY <1>3 DEF Place
<1>11. Place(fs2[1]) = Root
  BY <1>2, <1>4, <1>10
<1>12. \A i \in 1..Len(fs), j \in 1..Len(ns) :
         j <= fs2[i].from <=> Place(fs2[i]) \notin Path(ns[j], t)
  BY <1>2, <1>10
<1>13. ASSUME x \in Dir PROVE Listing(fs2, {x}, ns, k + 1, t, u)
  <2>1. ToSet(ns) = ((M \cup {x}) \ u) \ {x}
    BY <1>2, <1>7
  <2> HIDE DEF M, x, U
  <2> QED BY <1>2, <1>3, <1>7, <1>9, <1>11, <1>12, <2>1 DEF Listing, U
<1>14. ASSUME x \in File PROVE Listing(fs2, {}, Append(ns, x), k + 1, t, u)
  <2>1. \A y \in DOMAIN t : t[y] # x
    <3>1. x \notin Dir /\ x # Root
      BY <1>3, <1>14, FileListAssumption
    <3> QED BY <3>1, TreeTypes
  <2>2. /\ x \notin M /\ Met(U, fs2, {}, t) = M \cup {x} /\ Course(U, fs2, {}, t, u)
        /\ M \subseteq U /\ \A y \in U : y \in M <=> Before(y, x, t)
    BY <1>7, <2>1
  <2>3. x \notin u /\ x \in Node
    BY <1>3, <1>14, FileListAssumption DEF Node
  <2>4. \A y \in ToSet(ns) : Before(y, x, t)
    BY <1>2, <2>2
  <2> DEFINE q == Append(ns, x)
  <2>5. /\ InTreeOrder(q, t) /\ ToSet(q) = ToSet(ns) \cup {x}
        /\ Len(q) = Len(ns) + 1 /\ Len(ns) \in Nat
        /\ \A i \in 1..Len(ns) : q[i] = ns[i]
        /\ q[Len(ns) + 1] = x
    BY <1>2, <2>3, <2>4, OrderGrows
  <2> HIDE DEF q
  <2>6. ToSet(q) = ((M \cup {x}) \ u) \ {}
    BY <1>2, <2>3, <2>5
  <2>7. ASSUME NEW i \in 1..Len(fs), NEW j \in 1..Len(q)
        PROVE  j <= fs2[i].from <=> Place(fs2[i]) \notin Path(q[j], t)
    <3>1. CASE j \in 1..Len(ns)
      BY <1>12, <2>5, <3>1
    <3>2. CASE j = Len(ns) + 1
      <4>1. Place(fs[i]) \in Path(Place(f), t)
        BY <1>2, <1>4 DEF Course, Stack
      <4>2. Place(fs[i]) \in Path(x, t)
        BY <1>5, <4>1, PathUnfolds
      <4>3. fs[i].from \in Nat /\ fs[i].from <= Len(ns)
        <5>1. fs[i] \in Frame
          OBVIOUS
        <5> QED BY <5>1 DEF Frame
      <4>4. ~(j <= fs[i].from)
        BY <2>5, <3>2, <4>3
      <4> QED BY <1>10, <2>5, <3>2, <4>2, <4>4
    <3> QED BY <2>5, <3>1, <3>2
  <2> HIDE DEF M, x, U
  <2> QED BY <1>3, <1>9, <1>11, <2>2, <2>5, <2>6, <2>7 DEF Listing, U, q
<1> QED
  BY <1>13, <1>14 DEF fs2

(* A directory is read and listed, and its nodes come after those there are. *)
LEMMA ListingEnters ==
  ASSUME NEW t \in Trees, NEW u \in SUBSET Dir, NEW fs \in Seq(Frame), NEW f \in Frame,
         NEW ns \in Seq(Node), NEW k, Listing(fs, {Place(f)}, ns, k, t, u), Place(f) \notin u,
         \A i \in 1..Len(fs) : fs[i].from <= Len(ns),
         f.path # <<>>, Standing(f.path, t), f.entries = ReadDir(Place(f), t),
         f.from = Len(ns)
  PROVE  Listing(Append(fs, f), {}, Append(ns, Place(f)), k, t, u)
<1> DEFINE d == Place(f)
           U == Visited(t, u)
           M == Met(U, fs, {d}, t)
           g == Append(fs, f)
           q == Append(ns, d)
<1>1. U \in SUBSET Nodes(t) /\ M \subseteq U
  BY VisitedTypes DEF Met
<1>2. /\ Course(U, fs, {d}, t, u) /\ k = Cardinality(M) /\ ToSet(ns) = (M \ u) \ {d}
      /\ InTreeOrder(ns, t)
      /\ \A i \in 1..Len(fs), j \in 1..Len(ns) :
           j <= fs[i].from <=> Place(fs[i]) \notin Path(ns[j], t)
      /\ fs # <<>> => Place(fs[1]) = Root
  BY DEF Listing
<1>3. Course(U, g, {}, t, u) /\ Met(U, g, {}, t) = M
  BY <1>1, <1>2, CourseEnters
<1>4. /\ d \in M /\ \A v \in M \ {d} : Before(v, d, t)
      /\ fs = <<>> => d = Root
      /\ fs # <<>> => Taken(d, fs[Len(fs)], t)
  BY <1>2 DEF Course
<1>5. d \in Nodes(t) /\ d \in Node /\ d \in Path(d, t)
  BY <1>1, <1>4, TreeTypes, PathIsClosed DEF Closed, Nodes, Node
<1>6. /\ InTreeOrder(q, t) /\ ToSet(q) = ToSet(ns) \cup {d}
      /\ Len(q) = Len(ns) + 1 /\ Len(ns) \in Nat
      /\ \A i \in 1..Len(ns) : q[i] = ns[i]
      /\ q[Len(ns) + 1] = d
  <2>1. \A y \in ToSet(ns) : Before(y, d, t)
    BY <1>2, <1>4
  <2>2. InTreeOrder(ns, t) /\ d \in Node
    BY <1>2, <1>5
  <2> HIDE DEF d
  <2> QED BY <2>1, <2>2, OrderGrows
<1>7. /\ Len(g) = Len(fs) + 1 /\ Len(fs) \in Nat
      /\ \A i \in 1..Len(fs) : g[i] = fs[i]
      /\ g[Len(fs) + 1] = f
  BY FramePushed
<1>8. fs # <<>> => Len(fs) \in 1..Len(fs) /\ 1 \in 1..Len(fs) /\ \A i \in 1..Len(fs) : i <= Len(fs)
  OBVIOUS
<1>9. ToSet(q) = (M \ u) \ {}
  BY <1>2, <1>4, <1>6
<1>10. fs = <<>> => Len(fs) = 0
  OBVIOUS
<1>11. \A i \in 1..Len(fs) : fs[i].from \in Nat
  <2> TAKE i \in 1..Len(fs)
  <2>1. fs[i] \in Frame
    OBVIOUS
  <2> QED BY <2>1 DEF Frame
<1>12. \A i \in 1..Len(fs) : Place(fs[i]) \in Path(d, t)
  <2> TAKE i \in 1..Len(fs)
  <2>1. fs # <<>>
    BY <1>10
  <2>2. Place(fs[i]) \in Path(Place(fs[Len(fs)]), t)
    BY <1>2, <1>8, <2>1 DEF Course, Stack
  <2>3. d \in DOMAIN t /\ t[d] = Place(fs[Len(fs)])
    BY <1>4, <2>1 DEF Taken
  <2> QED BY <2>2, <2>3, PathUnfolds
<1>13. \A j \in 1..Len(ns) : d \notin Path(ns[j], t)
  <2> TAKE j \in 1..Len(ns)
  <2>1. ns[j] \in ToSet(ns)
    BY ToSetHas
  <2>2. ns[j] \in M \ {d} /\ ns[j] \in Nodes(t)
    BY <1>1, <1>2, <2>1
  <2>3. Before(ns[j], d, t)
    BY <1>4, <2>2
  <2>4. d \in Ancestors(ns[j], t) => Before(d, ns[j], t)
    BY DEF Before
  <2>5. ~(Before(ns[j], d, t) /\ Before(d, ns[j], t))
    BY <1>5, <2>2, BeforeTransitive, BeforeIrreflexive
  <2> QED BY <2>2, <2>3, <2>4, <2>5 DEF Ancestors
<1> HIDE DEF M, U, d, g, q
<1>14. ASSUME NEW i \in 1..Len(g), NEW j \in 1..Len(q)
       PROVE  j <= g[i].from <=> Place(g[i]) \notin Path(q[j], t)
  <2>1. CASE i \in 1..Len(fs) /\ j \in 1..Len(ns)
    BY <1>2, <1>6, <1>7, <2>1
  <2>2. CASE i \in 1..Len(fs) /\ j = Len(ns) + 1
    <3>1. ~(j <= fs[i].from)
      BY <1>6, <1>11, <2>2
    <3> QED BY <1>6, <1>7, <1>12, <2>2, <3>1
  <2>3. CASE i = Len(fs) + 1 /\ j \in 1..Len(ns)
    <3>1. j <= f.from
      BY <1>6, <2>3
    <3> QED BY <1>6, <1>7, <1>13, <2>3, <3>1 DEF d
  <2>4. CASE i = Len(fs) + 1 /\ j = Len(ns) + 1
    <3>1. ~(j <= f.from)
      BY <1>6, <2>4
    <3> QED BY <1>5, <1>6, <1>7, <2>4, <3>1 DEF d
  <2> QED BY <1>6, <1>7, <2>1, <2>2, <2>3, <2>4
<1>15. Place(g[1]) = Root
  <2>1. CASE fs = <<>>
    BY <1>4, <1>7, <1>10, <2>1 DEF d
  <2>2. CASE fs # <<>>
    BY <1>2, <1>7, <1>8, <2>2
  <2> QED BY <2>1, <2>2
<1> QED
  BY <1>2, <1>3, <1>6, <1>9, <1>14, <1>15 DEF Listing, U, d, g, q

(* A directory that cannot be read is counted, not listed. *)
LEMMA ListingPasses ==
  ASSUME NEW t \in Trees, NEW u \in SUBSET Dir, NEW fs \in Seq(Frame), NEW d \in u,
         NEW ns, NEW k, Listing(fs, {d}, ns, k, t, u)
  PROVE  Listing(fs, {}, ns, k, t, u)
<1> DEFINE U == Visited(t, u)
<1>1. U \in SUBSET Nodes(t) /\ \A v \in U : d \notin Ancestors(v, t)
  BY VisitedTypes
<1>2. Course(U, fs, {d}, t, u)
  BY DEF Listing
<1>3. Course(U, fs, {}, t, u) /\ Met(U, fs, {}, t) = Met(U, fs, {d}, t)
  BY <1>1, <1>2, CoursePasses
<1>4. ToSet(ns) = (Met(U, fs, {}, t) \ u) \ {}
  BY <1>3 DEF Listing
<1> QED
  BY <1>3, <1>4 DEF Listing

(* A directory is done with; its nodes stay. *)
LEMMA ListingPops ==
  ASSUME NEW t \in Trees, NEW u \in SUBSET Dir, NEW fs \in Seq(Frame), fs # <<>>,
         fs[Len(fs)].entries = <<>>, NEW ns, NEW k, Listing(fs, {}, ns, k, t, u)
  PROVE  Listing(Front(fs), {}, ns, k, t, u)
<1> DEFINE U == Visited(t, u)
           b == Front(fs)
<1>1. U \in SUBSET Nodes(t)
  BY VisitedTypes
<1>2. Course(U, fs, {}, t, u)
  BY DEF Listing
<1>3. Course(U, b, {}, t, u) /\ Met(U, b, {}, t) = Met(U, fs, {}, t)
  BY <1>1, <1>2, CoursePops
<1>4. /\ b \in Seq(Frame) /\ Len(b) = Len(fs) - 1 /\ Len(fs) \in Nat \ {0}
      /\ \A i \in 1..(Len(fs) - 1) : b[i] = fs[i] /\ i \in 1..Len(fs)
  BY FramePopped
<1> HIDE DEF b
<1>5. b # <<>> => b[1] = fs[1]
  <2>1. b # <<>> => Len(b) # 0
    BY <1>4
  <2> QED BY <1>4, <2>1
<1>6. \A i \in 1..Len(b), j \in 1..Len(ns) :
        j <= b[i].from <=> Place(b[i]) \notin Path(ns[j], t)
  BY <1>4 DEF Listing
<1> QED
  BY <1>3, <1>5, <1>6 DEF Listing, b

(* Ranks in the order of the tree. *)
LEMMA RanksInTree ==
  ASSUME NEW t \in Trees, NEW U \in SUBSET Nodes(t), NEW x \in U
  PROVE  /\ Cardinality({y \in U : Before(y, x, t)}) \in 0..(Cardinality(U) - 1)
         /\ \A z \in U : Before(x, z, t) =>
              Cardinality({y \in U : Before(y, x, t)}) < Cardinality({y \in U : Before(y, z, t)})
<1> DEFINE R == {p \in U \X U : Before(p[1], p[2], t)}
<1>1. Orders(R, U)
  BY InOrderSorts
<1>2. \A z \in U : Below(z, U, R) = {y \in U : Before(y, z, t)}
  BY DEF Below
<1>3. \A z \in U : <<x, z>> \in R <=> Before(x, z, t)
  OBVIOUS
<1> HIDE DEF R
<1>4. /\ Cardinality(Below(x, U, R)) \in 0..(Cardinality(U) - 1)
      /\ \A z \in U : <<x, z>> \in R => Cardinality(Below(x, U, R)) < Cardinality(Below(z, U, R))
  BY <1>1, RanksDiffer
<1> QED
  BY <1>2, <1>3, <1>4

(* The walk is over within its budget: it met all it visits, so this is the whole *)
(* listing.                                                                       *)
LEMMA ListingEnds ==
  ASSUME NEW t \in Trees, NEW u \in SUBSET Dir, NEW fs \in Seq(Frame), fs # <<>>,
         fs[Len(fs)].entries = <<>>, Len(fs) = 1, NEW ns \in Seq(Node), NEW k \in Nat,
         k <= Limit, Listing(fs, {}, ns, k, t, u)
  PROVE  [nodes |-> ns, Truncated |-> FALSE] = List(t, u)
<1> DEFINE U == Visited(t, u)
           before(x) == {y \in U : Before(y, x, t)}
<1>1. U \in SUBSET Nodes(t) /\ IsFiniteSet(U)
  BY VisitedTypes
<1>2. Course(U, fs, {}, t, u)
  BY DEF Listing
<1>3. Met(U, fs, {}, t) = U
  BY <1>1, <1>2, CoursePops
<1>4. k = Cardinality(U) /\ ToSet(ns) = U \ u /\ InTreeOrder(ns, t)
  BY <1>3 DEF Listing
<1>5. Cut(t, u) = {}
  <2> SUFFICES ASSUME NEW x \in U, Cardinality(before(x)) = Limit PROVE FALSE
    BY DEF Cut
  <2>1. Cardinality(before(x)) \in 0..(Cardinality(U) - 1)
    BY <1>1, RanksInTree
  <2> HIDE DEF U, before
  <2>2. Limit \in 0..(k - 1)
    BY <1>4, <2>1
  <2> QED BY <2>2
<1>6. Listed(t, u) = U \ u
  BY <1>5 DEF Listed
<1>7. ns = InOrder(U \ u, t)
  BY <1>1, <1>4, OrderedIsInOrder
<1> QED
  BY <1>5, <1>6, <1>7 DEF List

(* Where the budget runs out, and what is lost there. *)
LEMMA CutAt ==
  ASSUME NEW t \in Trees, NEW u \in SUBSET Dir, NEW x \in Visited(t, u),
         NEW M \in SUBSET Visited(t, u), Cardinality(M) = Limit,
         \A y \in Visited(t, u) : y \in M <=> Before(y, x, t)
  PROVE  /\ Cut(t, u) = {x}
         /\ Listed(t, u) = {v \in M \ u : Path(v, t) \cap (Ancestors(x, t) \ {Root}) = {}}
<1> DEFINE U == Visited(t, u)
           before(z) == {y \in U : Before(y, z, t)}
<1>1. U \in SUBSET Nodes(t) /\ IsFiniteSet(U) /\ x \in U
  BY VisitedTypes
<1>2. M = before(x)
  OBVIOUS
<1>3. ASSUME NEW z \in U, Cardinality(before(z)) = Limit PROVE z = x
  <2>1. z # x => Before(x, z, t) \/ Before(z, x, t)
    BY <1>1, BeforeTotal
  <2>2. Before(x, z, t) => Cardinality(before(x)) < Cardinality(before(z))
    BY <1>1, RanksInTree
  <2>3. Before(z, x, t) => Cardinality(before(z)) < Cardinality(before(x))
    BY <1>1, RanksInTree
  <2>4. Cardinality(before(x)) = Limit
    BY <1>2
  <2> HIDE DEF before, U
  <2> QED BY <1>3, <2>1, <2>2, <2>3, <2>4, FileListAssumption
<1>4. Cut(t, u) = {x}
  <2>1. \A z \in U : Cardinality(before(z)) = Limit <=> z = x
    BY <1>2, <1>3
  <2>2. Cut(t, u) = {z \in U : Cardinality(before(z)) = Limit}
    BY DEF Cut
  <2> HIDE DEF before, U
  <2> QED BY <1>1, <2>1, <2>2
<1>5. Listed(t, u) = {v \in U \ u : /\ \A y \in Cut(t, u) : Before(v, y, t)
                                    /\ Path(v, t) \cap (Ancestors(x, t) \ {Root}) = {}}
  <2> DEFINE lost == (UNION {Ancestors(z, t) : z \in Cut(t, u)}) \ {Root}
  <2>1. lost = Ancestors(x, t) \ {Root}
    BY <1>4
  <2>2. Listed(t, u) = {v \in Visited(t, u) \ u : /\ \A y \in Cut(t, u) : Before(v, y, t)
                                                 /\ Path(v, t) \cap lost = {}}
    BY Zenon DEF Listed
  <2> HIDE DEF lost
  <2> QED BY <2>1, <2>2
<1>6. \A v \in U : v \in M <=> \A y \in Cut(t, u) : Before(v, y, t)
  BY <1>4
<1> QED
  BY <1>4, <1>5, <1>6

(* The budget runs out at the next entry: exactly as many nodes as the budget allows  *)
(* come before it, so it is the one where List cuts, and what the root's call returns *)
(* leaves out the directories it is in.                                               *)
LEMMA ListingIsCut ==
  ASSUME NEW t \in Trees, NEW u \in SUBSET Dir, NEW fs \in Seq(Frame), fs # <<>>,
         fs[Len(fs)].entries # <<>>, NEW ns \in Seq(Node), NEW k \in Nat,
         k <= Limit, ~(k + 1 <= Limit), Listing(fs, {}, ns, k, t, u),
         \A i \in 1..Len(fs) : fs[i].from <= Len(ns)
  PROVE  LET r == IF Len(fs) = 1 THEN ns ELSE SubSeq(ns, 1, fs[2].from)
         IN  [nodes |-> r, Truncated |-> TRUE] = List(t, u)
<1> DEFINE f == fs[Len(fs)]
           x == First(fs)
           U == Visited(t, u)
           M == Met(U, fs, {}, t)
           above == Ancestors(x, t) \ {Root}
           kept == {v \in M \ u : Path(v, t) \cap above = {}}
<1>1. /\ U \in SUBSET Nodes(t) /\ IsFiniteSet(U) /\ M \in SUBSET U
      /\ \A y \in DOMAIN t : t[y] \in U \ u => y \in U
  BY VisitedTypes DEF Met
<1>2. /\ Course(U, fs, {}, t, u) /\ k = Cardinality(M) /\ ToSet(ns) = M \ u
      /\ InTreeOrder(ns, t)
      /\ \A i \in 1..Len(fs), j \in 1..Len(ns) :
           j <= fs[i].from <=> Place(fs[i]) \notin Path(ns[j], t)
      /\ Place(fs[1]) = Root
  BY DEF Listing
<1>3. Len(fs) \in Nat \ {0} /\ Len(fs) \in 1..Len(fs) /\ 1 \in 1..Len(fs) /\ f \in Frame
  OBVIOUS
<1>4. x \in DOMAIN t /\ t[x] = Place(f) /\ Stack(fs, t)
  <2>1. Sound(f, t) /\ Stack(fs, t)
    BY <1>2, <1>3 DEF Course, Stack
  <2>2. f.entries \in Seq(Entry)
    BY <1>3 DEF Frame
  <2>3. x \in ToSet(f.entries)
    BY <2>2, ToSetHas DEF First
  <2> QED BY <2>1, <2>3 DEF Sound
<1>5. x \in U
  <2>1. Place(f) \in U \ u
    BY <1>2, <1>3 DEF Course
  <2> QED BY <1>1, <1>4, <2>1
<1>6. \A y \in U : y \in M <=> Before(y, x, t)
  BY <1>1, <1>2, <1>5, CourseTakes
<1>7. Cardinality(M) = Limit
  BY <1>2, FileListAssumption
<1>8. Cut(t, u) = {x} /\ Listed(t, u) = kept
  BY <1>1, <1>5, <1>6, <1>7, CutAt
<1>9. above = Path(Place(f), t) \ {Root}
  <2>1. Path(x, t) = {x} \cup Path(t[x], t)
    BY <1>4, PathUnfolds
  <2>2. x \notin Path(t[x], t)
    <3> SUFFICES ASSUME x \in Path(t[x], t) PROVE FALSE
      OBVIOUS
    <3>1. t[x] \in Path(x, t) /\ x \in Nodes(t) /\ t[x] \in Nodes(t)
      BY <1>4, TreeTypes, PathUnfolds, PathIsClosed DEF Nodes, Closed
    <3>2. t[x] = x
      BY <3>1, PathsDoNotCycle
    <3>3. \E z \in {x} : t[z] \notin {x}
      BY <1>4, TreeTypes
    <3> QED BY <3>2, <3>3
  <2> QED BY <1>4, <2>1, <2>2 DEF Ancestors
<1>10. CASE Len(fs) = 1
  <2>1. above = {}
    BY <1>2, <1>9, <1>10, PathOfRoot
  <2>2. kept = M \ u
    BY <2>1
  <2>3. ns = InOrder(kept, t)
    BY <1>1, <1>2, <2>2, OrderedIsInOrder
  <2> QED BY <1>8, <1>10, <2>3 DEF List
<1>11. CASE Len(fs) # 1
  <2> DEFINE m == fs[2].from
             r == SubSeq(ns, 1, m)
             w == Place(fs[2])
  <2>1. 2 \in 1..Len(fs) /\ 2 \in 2..Len(fs) /\ 2 <= Len(fs)
    <3>1. \A z \in Nat \ {0} : z # 1 => 2 \in 1..z /\ 2 \in 2..z /\ 2 <= z
      OBVIOUS
    <3> QED BY <1>3, <1>11, <3>1
  <2>2. m \in 0..Len(ns)
    <3>1. fs[2] \in Frame /\ Len(ns) \in Nat
      BY <2>1
    <3> QED BY <2>1, <3>1 DEF Frame
  <2>3. r \in Seq(Node) /\ Len(r) = m /\ \A i \in 1..m : r[i] = ns[i]
    BY <2>2, InitialPart
  <2>4. w \in DOMAIN t /\ t[w] = Root /\ w # Root
    <3>1. Taken(w, fs[1], t)
      BY <1>4, <2>1 DEF Stack
    <3> QED BY <1>2, <3>1, TreeTypes DEF Taken
  <2>5. w \in above
    BY <1>3, <1>4, <1>9, <2>1, <2>4 DEF Stack
  <2>6. \A v \in Nodes(t) : Path(v, t) \cap above = {} <=> w \notin Path(v, t)
    <3> TAKE v \in Nodes(t)
    <3> SUFFICES ASSUME NEW a \in Path(v, t) \cap above PROVE w \in Path(v, t)
      BY <2>5
    <3>1. Place(f) \in Nodes(t) /\ a \in Path(Place(f), t) /\ w \in Path(Place(f), t) /\ a # Root
      BY <1>4, <1>9, <2>5, TreeTypes
    <3>2. a \in Path(w, t) \/ w \in Path(a, t)
      BY <3>1, PathIsChain
    <3>3. Path(w, t) = {w, Root}
      BY <2>4, PathUnfolds, PathOfRoot
    <3>4. a \in Nodes(t)
      BY <3>1, PathIsClosed DEF Closed
    <3>5. w \in Path(a, t)
      BY <2>4, <3>1, <3>2, <3>3, PathIsClosed DEF Closed, Nodes
    <3> QED BY <3>5, PathWithin
  <2>7. /\ DOMAIN ns = 1..Len(ns) /\ DOMAIN r = 1..m /\ \A i \in 1..m : i \in 1..Len(ns) /\ i <= m
        /\ \A i \in 1..Len(ns) : i <= m => i \in 1..m
    BY <2>2, <2>3
  <2> HIDE DEF r, w, m
  <2>8. \A j \in 1..Len(ns) : j <= m <=> w \notin Path(ns[j], t)
    BY <1>2, <2>1 DEF m, w
  <2>9. ToSet(r) = kept
    <3>1. \A v : v \in ToSet(ns) <=> \E j \in 1..Len(ns) : v = ns[j]
      BY <2>7 DEF ToSet
    <3>2. \A v : v \in ToSet(r) <=> \E j \in 1..m : v = ns[j]
      BY <2>3, <2>7 DEF ToSet
    <3>3. \A v : v \in ToSet(r) <=> v \in ToSet(ns) /\ w \notin Path(v, t)
      BY <2>7, <2>8, <3>1, <3>2
    <3>4. \A v \in ToSet(ns) : v \in Nodes(t)
      BY <1>1, <1>2
    <3> QED BY <1>2, <2>6, <3>3, <3>4
  <2>10. InTreeOrder(r, t)
    BY <1>2, <2>3, <2>7 DEF InTreeOrder
  <2>11. r = InOrder(kept, t)
    <3>1. kept \subseteq Nodes(t)
      BY <1>1
    <3> HIDE DEF kept
    <3> QED BY <2>3, <2>9, <2>10, <3>1, OrderedIsInOrder
  <2> HIDE DEF kept
  <2> QED BY <1>8, <1>11, <2>11 DEF List, r, m
<1> QED
  BY <1>10, <1>11

(* A walk of the root begins with the root met and counted. *)
LEMMA ListingStarts ==
  ASSUME NEW t \in Trees, NEW u \in SUBSET Dir
  PROVE  Listing(<<>>, {Root}, <<>>, 1, t, u)
<1> DEFINE U == Visited(t, u)
           M == Met(U, <<>>, {Root}, t)
<1>1. U \subseteq Nodes(t) /\ Root \in U
  BY VisitedTypes
<1>2. 1..Len(<<>>) = {} /\ 2..Len(<<>>) = {} /\ ToSet(<<>>) = {} /\ DOMAIN <<>> = {}
  BY DEF ToSet
<1>3. \A v : ~Pending(v, <<>>, t)
  BY <1>2 DEF Pending
<1>4. Ancestors(Root, t) = {}
  BY PathOfRoot DEF Ancestors
<1>5. \A v \in U : v # Root => Root \in Ancestors(v, t)
  BY <1>1, PathIsChain DEF Ancestors
<1>6. M = {Root}
  BY <1>1, <1>3, <1>4, <1>5 DEF Met
<1>7. Stack(<<>>, t)
  BY <1>2 DEF Stack
<1>8. Course(U, <<>>, {Root}, t, u)
  <2>1. \A r \in U \ {Root} : Before(Root, r, t)
    BY <1>5 DEF Before
  <2> HIDE DEF U
  <2> QED BY <1>2, <1>6, <1>7, <2>1 DEF Course
<1>9. Cardinality({Root}) = 1
  BY FS_Singleton
<1> QED
  BY <1>2, <1>6, <1>8, <1>9 DEF Listing, InTreeOrder

-----------------------------------------------------------------------------
(* What the archive of a directory that stands still holds. *)

(* The directory and what is below it; what the archive of it is to hold. *)
InDir(d, t) == {v \in Nodes(t) : d \in Path(v, t)}

Held(d, t, u) == {x \in InDir(d, t) \cap File : \A z \in u \cap InDir(d, t) : Before(x, z, t)}

(* A directory, what is below it, and what is in one of these. *)
LEMMA InDirTypes ==
  ASSUME NEW t \in Trees, NEW d \in DOMAIN t
  PROVE  /\ InDir(d, t) \subseteq DOMAIN t /\ d \in InDir(d, t)
         /\ InDir(d, t) = {x \in DOMAIN t : d \in Ancestors(x, t)} \cup {d}
         /\ \A x \in DOMAIN t : t[x] \in InDir(d, t) => x \in InDir(d, t)
<1>1. d # Root /\ d \in Nodes(t) /\ d \in Path(d, t) /\ Path(Root, t) = {Root}
  BY TreeTypes, PathIsClosed, PathOfRoot DEF Nodes, Closed
<1>2. InDir(d, t) \subseteq DOMAIN t
  BY <1>1 DEF InDir, Nodes
<1>3. \A x \in DOMAIN t : x \in InDir(d, t) <=> d \in Path(x, t)
  BY DEF InDir, Nodes
<1>4. \A x \in DOMAIN t : t[x] \in InDir(d, t) => x \in InDir(d, t)
  BY <1>3, PathUnfolds DEF InDir
<1>5. \A x \in DOMAIN t : d \in Ancestors(x, t) \/ x = d <=> d \in Path(x, t)
  BY <1>1 DEF Ancestors
<1> QED
  BY <1>1, <1>2, <1>3, <1>4, <1>5

(* The files so far: those met, in order; of the directories met only the one about to *)
(* be read may turn out unreadable.                                                    *)
Archive(d, fs, O, ns, t, u) ==
  LET M == Met(InDir(d, t), fs, O, t)
  IN  /\ Course(InDir(d, t), fs, O, t, u)
      /\ ToSet(ns) = M \cap File
      /\ InTreeOrder(ns, t)
      /\ M \cap u \subseteq O

(* The next entry lies below the directory that is zipped. *)
LEMMA NextIsInside ==
  ASSUME NEW t \in Trees, NEW u, NEW d \in DOMAIN t, NEW fs \in Seq(Frame), fs # <<>>,
         fs[Len(fs)].entries # <<>>, Course(InDir(d, t), fs, {}, t, u)
  PROVE  First(fs) \in InDir(d, t) \cap Entry
<1> DEFINE f == fs[Len(fs)]
           x == First(fs)
           U == InDir(d, t)
<1>1. \A y \in DOMAIN t : t[y] \in U => y \in U
  BY InDirTypes
<1>2. Len(fs) \in 1..Len(fs) /\ f \in Frame
  OBVIOUS
<1>3. Sound(f, t) /\ Place(f) \in U
  BY <1>2 DEF Course, Stack
<1>4. f.entries \in Seq(Entry)
  BY <1>2 DEF Frame
<1>5. x \in ToSet(f.entries)
  BY <1>4, ToSetHas DEF First
<1>6. x \in DOMAIN t /\ t[x] = Place(f)
  BY <1>3, <1>5 DEF Sound
<1> QED
  BY <1>1, <1>3, <1>6, TreeTypes

(* The next entry is a file, which is added, or a directory, which is about to be *)
(* read.                                                                          *)
LEMMA ArchiveTakes ==
  ASSUME NEW t \in Trees, NEW u \in SUBSET Dir, NEW d \in DOMAIN t, NEW fs \in Seq(Frame),
         fs # <<>>, fs[Len(fs)].entries # <<>>, NEW ns \in Seq(Node), Archive(d, fs, {}, ns, t, u)
  PROVE  LET x == First(fs)
         IN  /\ x \in Dir  => Archive(d, Skipped(fs), {x}, ns, t, u)
             /\ x \in File => Archive(d, Skipped(fs), {}, Append(ns, x), t, u)
<1> DEFINE x == First(fs)
           U == InDir(d, t)
           M == Met(U, fs, {}, t)
<1>1. /\ U \in SUBSET Nodes(t) /\ M \subseteq U /\ \A y \in DOMAIN t : t[y] \in U => y \in U
  BY InDirTypes DEF Met, Nodes
<1>2. /\ Course(U, fs, {}, t, u) /\ ToSet(ns) = M \cap File /\ InTreeOrder(ns, t)
      /\ M \cap u = {}
  BY DEF Archive
<1>5. x \in U /\ x \in Entry
  BY <1>2, NextIsInside
<1> HIDE DEF U
<1>6. /\ x \notin M /\ \A y \in U : y \in M <=> Before(y, x, t)
      /\ Met(U, Skipped(fs), {x}, t) = M \cup {x} /\ Course(U, Skipped(fs), {x}, t, u)
      /\ (\A y \in DOMAIN t : t[y] # x) =>
           Met(U, Skipped(fs), {}, t) = M \cup {x} /\ Course(U, Skipped(fs), {}, t, u)
  BY <1>1, <1>2, <1>5, CourseTakes
<1>7. ASSUME x \in Dir PROVE Archive(d, Skipped(fs), {x}, ns, t, u)
  <2>1. x \notin File
    BY <1>7, FileListAssumption
  <2>2. ToSet(ns) = (M \cup {x}) \cap File /\ (M \cup {x}) \cap u \subseteq {x}
    BY <1>2, <2>1
  <2> HIDE DEF M, x
  <2> QED BY <1>2, <1>6, <2>2 DEF Archive, U
<1>8. ASSUME x \in File PROVE Archive(d, Skipped(fs), {}, Append(ns, x), t, u)
  <2>1. \A y \in DOMAIN t : t[y] # x
    <3>1. x \notin Dir /\ x # Root
      BY <1>5, <1>8, FileListAssumption
    <3> QED BY <3>1, TreeTypes
  <2>2. Met(U, Skipped(fs), {}, t) = M \cup {x} /\ Course(U, Skipped(fs), {}, t, u)
    BY <1>6, <2>1
  <2>3. x \notin u /\ x \in Node
    BY <1>5, <1>8, FileListAssumption DEF Node
  <2>4. \A y \in ToSet(ns) : Before(y, x, t)
    BY <1>1, <1>2, <1>6
  <2>5. InTreeOrder(Append(ns, x), t) /\ ToSet(Append(ns, x)) = ToSet(ns) \cup {x}
    BY <1>2, <2>3, <2>4, OrderGrows
  <2>6. ToSet(Append(ns, x)) = (M \cup {x}) \cap File /\ (M \cup {x}) \cap u \subseteq {}
    BY <1>2, <1>8, <2>3, <2>5
  <2> HIDE DEF M, x
  <2> QED BY <2>2, <2>5, <2>6 DEF Archive, U
<1> QED
  BY <1>7, <1>8

(* A directory below is read. *)
LEMMA ArchiveEnters ==
  ASSUME NEW t \in Trees, NEW u \in SUBSET Dir, NEW d \in DOMAIN t, NEW fs \in Seq(Frame),
         NEW f \in Frame, NEW ns, Archive(d, fs, {Place(f)}, ns, t, u), Place(f) \notin u,
         f.path # <<>>, Standing(f.path, t), f.entries = ReadDir(Place(f), t)
  PROVE  Archive(d, Append(fs, f), {}, ns, t, u)
<1> DEFINE U == InDir(d, t)
<1>1. U \in SUBSET Nodes(t)
  BY InDirTypes DEF Nodes
<1>2. Course(U, fs, {Place(f)}, t, u)
  BY DEF Archive
<1>3. /\ Course(U, Append(fs, f), {}, t, u)
      /\ Met(U, Append(fs, f), {}, t) = Met(U, fs, {Place(f)}, t)
  BY <1>1, <1>2, CourseEnters
<1> QED
  BY <1>3 DEF Archive

(* A directory below is done with. *)
LEMMA ArchivePops ==
  ASSUME NEW t \in Trees, NEW u \in SUBSET Dir, NEW d \in DOMAIN t, NEW fs \in Seq(Frame),
         fs # <<>>, fs[Len(fs)].entries = <<>>, NEW ns, Archive(d, fs, {}, ns, t, u)
  PROVE  Archive(d, Front(fs), {}, ns, t, u)
<1> DEFINE U == InDir(d, t)
<1>1. U \in SUBSET Nodes(t)
  BY InDirTypes DEF Nodes
<1>2. Course(U, fs, {}, t, u)
  BY DEF Archive
<1>3. Course(U, Front(fs), {}, t, u) /\ Met(U, Front(fs), {}, t) = Met(U, fs, {}, t)
  BY <1>1, <1>2, CoursePops
<1> QED
  BY <1>3 DEF Archive

(* It begins with the directory met, and read. *)
LEMMA ArchiveStarts ==
  ASSUME NEW t \in Trees, NEW u \in SUBSET Dir, NEW d \in DOMAIN t \cap Dir, d \notin u,
         NEW f \in Frame, Place(f) = d, f.path # <<>>, Standing(f.path, t),
         f.entries = ReadDir(d, t)
  PROVE  Archive(d, <<f>>, {}, <<>>, t, u)
<1> DEFINE U == InDir(d, t)
           g == <<f>>
           M == Met(U, g, {}, t)
<1>1. d \in U /\ U \subseteq Nodes(t) /\ d \in Nodes(t)
      /\ \A v \in U : v = d \/ d \in Ancestors(v, t)
  BY InDirTypes DEF Nodes
<1>2. /\ 1..Len(<<>>) = {} /\ 2..Len(<<>>) = {} /\ ToSet(<<>>) = {} /\ DOMAIN <<>> = {}
      /\ <<>> \in Seq(Frame) /\ Append(<<>>, f) = g /\ Len(g) = 1 /\ g[1] = f
  BY DEF ToSet
<1>3. Stack(<<>>, t) /\ \A v : ~Pending(v, <<>>, t)
  BY <1>2 DEF Stack, Pending
<1>4. /\ Stack(g, t)
      /\ \A v \in Nodes(t) : Pending(v, g, t) <=> d \in Ancestors(v, t)
  <2>1. /\ Stack(Append(<<>>, f), t)
        /\ \A v \in Nodes(t) : Pending(v, Append(<<>>, f), t) <=>
                                 Pending(v, <<>>, t) \/ Place(f) \in Ancestors(v, t)
    BY <1>1, <1>2, <1>3, StackPushes
  <2> QED BY <1>2, <1>3, <2>1
<1> HIDE DEF g
<1>5. M = {d}
  <2>1. d \notin Ancestors(d, t)
    BY DEF Ancestors
  <2> QED BY <1>1, <1>4, <2>1 DEF Met
<1>6. Course(U, g, {}, t, u)
  <2>1. \A r \in U \ {d} : Before(d, r, t)
    BY <1>1 DEF Before
  <2>2. \A i \in 1..Len(g) : Place(g[i]) \in U \ u
    BY <1>1, <1>2
  <2> HIDE DEF U
  <2> QED BY <1>4, <1>5, <2>1, <2>2 DEF Course
<1>7. d \notin File
  BY FileListAssumption
<1> QED
  BY <1>2, <1>5, <1>6, <1>7 DEF Archive, InTreeOrder, g

(* It ends with all files, or with those before the directory that cannot be read. *)
LEMMA ArchiveEnds ==
  ASSUME NEW t \in Trees, NEW u \in SUBSET Dir, NEW d \in DOMAIN t, NEW fs \in Seq(Frame),
         fs # <<>>, NEW ns \in Seq(Node), NEW O, Archive(d, fs, O, ns, t, u),
         \/ O = {} /\ fs[Len(fs)].entries = <<>> /\ Len(fs) = 1
         \/ \E o \in u : O = {o}
  PROVE  ns = InOrder(Held(d, t, u), t)
<1> DEFINE U == InDir(d, t)
           M == Met(U, fs, O, t)
<1>1. U \in SUBSET Nodes(t) /\ M \subseteq U
  BY InDirTypes DEF Nodes, Met
<1>2. /\ Course(U, fs, O, t, u) /\ ToSet(ns) = M \cap File /\ InTreeOrder(ns, t)
      /\ M \cap u \subseteq O
  BY DEF Archive
<1>3. M \cap File = Held(d, t, u)
  <2>1. CASE O = {} /\ fs[Len(fs)].entries = <<>> /\ Len(fs) = 1
    <3>1. M = U
      BY <1>1, <1>2, <2>1, CoursePops
    <3> QED BY <1>2, <2>1, <3>1 DEF Held
  <2>2. CASE \E o \in u : O = {o}
    <3>1. PICK o \in u : O = {o}
      BY <2>2
    <3>2. /\ o \in M /\ \A v \in M \ {o} : Before(v, o, t)
          /\ \A v \in M, r \in U \ M : Before(v, r, t)
      BY <1>2, <3>1 DEF Course
    <3>3. o \in Nodes(t) /\ o \in u \cap U /\ o \notin File
      BY <1>1, <3>2, FileListAssumption
    <3>4. ASSUME NEW x \in M \cap File PROVE x \in Held(d, t, u)
      <4>1. \A z \in u \cap U : Before(x, z, t)
        BY <1>2, <3>1, <3>2, <3>3, <3>4
      <4> QED BY <1>1, <4>1 DEF Held
    <3>5. ASSUME NEW x \in Held(d, t, u) PROVE x \in M
      <4>1. x \in U /\ x \in Nodes(t) /\ Before(x, o, t)
        BY <1>1, <3>3 DEF Held
      <4>2. x \notin M => Before(o, x, t)
        BY <3>2, <4>1
      <4> QED BY <3>3, <4>1, <4>2, BeforeTransitive, BeforeIrreflexive
    <3> QED BY <3>4, <3>5 DEF Held
  <2> QED BY <2>1, <2>2
<1> QED
  BY <1>1, <1>2, <1>3, OrderedIsInOrder

(* It ends with the files before one that cannot be opened or copied. *)
LEMMA ArchiveBreaks ==
  ASSUME NEW t \in Trees, NEW u \in SUBSET Dir, NEW d \in DOMAIN t, NEW fs \in Seq(Frame),
         fs # <<>>, fs[Len(fs)].entries # <<>>, NEW ns \in Seq(Node), Archive(d, fs, {}, ns, t, u),
         First(fs) \in File
  PROVE  ns = InOrder(Held(d, t, u \cup {First(fs)}), t)
<1> DEFINE x == First(fs)
           U == InDir(d, t)
           M == Met(U, fs, {}, t)
<1>1. U \in SUBSET Nodes(t) /\ M \subseteq U
  BY InDirTypes DEF Met, Nodes
<1>2. /\ Course(U, fs, {}, t, u) /\ ToSet(ns) = M \cap File /\ InTreeOrder(ns, t)
      /\ M \cap u = {}
  BY DEF Archive
<1>3. x \in U
  BY <1>2, NextIsInside
<1> HIDE DEF U
<1>4. x \notin M /\ \A y \in U : y \in M <=> Before(y, x, t)
  BY <1>1, <1>2, <1>3, CourseTakes
<1>5. \A v \in M, r \in U \ M : Before(v, r, t)
  BY <1>2 DEF Course
<1> HIDE DEF M, x
<1>6. ASSUME NEW y \in M \cap File PROVE y \in Held(d, t, u \cup {x})
  <2>1. y \in U \cap File
    BY <1>1, <1>6
  <2>2. \A z \in (u \cup {x}) \cap U : Before(y, z, t)
    BY <1>2, <1>4, <1>5, <1>6
  <2> QED BY <2>1, <2>2 DEF Held, U
<1>7. ASSUME NEW y \in Held(d, t, u \cup {x}) PROVE y \in M \cap File
  <2>1. y \in U \cap File /\ \A z \in (u \cup {x}) \cap U : Before(y, z, t)
    BY DEF Held, U
  <2> QED BY <1>3, <1>4, <2>1
<1>8. ToSet(ns) = Held(d, t, u \cup {x}) /\ ToSet(ns) \subseteq Nodes(t)
  BY <1>1, <1>2, <1>6, <1>7
<1> QED
  BY <1>2, <1>8, OrderedIsInOrder DEF x

-----------------------------------------------------------------------------
(* A walk of a directory that stands still is exact. *)

(* Where List stands, the nodes so far are the listing so far; at its end they are *)
(* the listing.                                                                    *)
ListIsExact ==
  /\ walk = "open"    => Listing(frames, {opening}, nodes, n, disk, unreadable)
  /\ walk = "entries" => Listing(frames, {}, nodes, n, disk, unreadable)
  /\ walk = "done"    => [nodes |-> nodes, Truncated |-> Truncated] = List(disk, unreadable)

(* The same of serveZip, whose first node is the directory that is zipped.  A file that *)
(* fails ends the archive.                                                              *)
ZipIsExact ==
  /\ walk # "closed" => failed = {}
  /\ walk \in {"zip", "zipOpen", "closed"} => Head(nodes) \in Dir \cap DOMAIN disk
  /\ walk = "zip"     => Archive(Head(nodes), frames, {}, Tail(nodes), disk, unreadable)
  /\ walk = "zipOpen" => Archive(Head(nodes), frames, {opening}, Tail(nodes), disk, unreadable)
  /\ walk = "closed"  => Tail(nodes) = InOrder(Held(Head(nodes), disk, unreadable \cup failed), disk)

(* The inductive invariant of the walk: within the budget, and exact as long as *)
(* nothing changed.                                                             *)
ExactInv == BudgetInv /\ (still => ListIsExact /\ ZipIsExact)

(* Nothing has moved on the way to the next entry, or to the directory to read. *)
LEMMA NothingMoved ==
  ASSUME BudgetInv, Stack(frames, disk), NEW x \in Node,
         IF frames = <<>> THEN x = Root ELSE x \in DOMAIN disk /\ disk[x] = Place(frames[Len(frames)])
  PROVE  LET q == Append(here, x)
         IN  InPlace(x) /\ q \in Seq(Node) /\ q # <<>> /\ q[Len(q)] = x /\ Standing(q, disk)
<1> DEFINE q == Append(here, x)
<1>1. q \in Seq(Node) /\ q # <<>> /\ q[Len(q)] = x /\ Standing(q, disk)
  <2>1. CASE frames = <<>>
    <3>1. q = <<Root>> /\ Len(q) = 1 /\ q[1] = Root /\ x = Root
      BY <2>1 DEF here
    <3>2. Standing(q, disk)
      BY <3>1 DEF Standing
    <3> QED BY <3>1, <3>2 DEF Node
  <2>2. CASE frames # <<>>
    <3> DEFINE f == frames[Len(frames)]
    <3>1. f \in Frame /\ Sound(f, disk)
      <4>1. Len(frames) \in 1..Len(frames) /\ frames \in Seq(Frame)
        BY <2>2, WalkTypes
      <4> QED BY <4>1 DEF Stack
    <3>2. f.path \in Seq(Node) /\ f.path # <<>> /\ Standing(f.path, disk)
          /\ disk[x] = f.path[Len(f.path)] /\ x \in DOMAIN disk
      BY <2>2, <3>1 DEF Sound, Frame, Place
    <3>3. here = f.path
      BY <2>2 DEF here, top
    <3> QED BY <3>2, <3>3, WalkTypes, StandingLonger
  <2> QED BY <2>1, <2>2
<1>2. InPlace(x)
  BY <1>1 DEF InPlace, Exists, Standing
<1> QED
  BY <1>1, <1>2

(* List begins at the root. *)
LEMMA StartIsExact ==
  ASSUME ExactInv, still, Start
  PROVE  (ListIsExact /\ ZipIsExact)'
<1>1. /\ walk' = "open" /\ opening' = Root /\ n' = 1 /\ frames' = <<>> /\ nodes' = <<>>
      /\ UNCHANGED <<disk, unreadable, failed>> /\ failed = {}
  BY DEF Start, diskVars, ExactInv, BudgetInv, ZipIsExact
<1>2. Listing(<<>>, {Root}, <<>>, 1, disk, unreadable)
  BY WalkTypes, ListingStarts DEF ExactInv
<1> QED
  BY <1>1, <1>2 DEF ListIsExact, ZipIsExact

(* The directory is read and listed, or passed over. *)
LEMMA OpenIsExact ==
  ASSUME ExactInv, still, Open
  PROVE  (ListIsExact /\ ZipIsExact)'
<1>1. /\ walk = "open" /\ walk' = "entries" /\ n' = n
      /\ UNCHANGED <<disk, unreadable, failed, Truncated>> /\ failed = {}
  BY DEF Open, diskVars, ExactInv, ZipIsExact
<1>2. Listing(frames, {opening}, nodes, n, disk, unreadable)
  BY <1>1 DEF ExactInv, ListIsExact
<1>3. /\ disk \in Trees /\ unreadable \in SUBSET Dir /\ frames \in Seq(Frame) /\ nodes \in Seq(Node)
      /\ opening \in Dir \cup {Root} /\ opening \in Node
      /\ \A i \in 1..Len(frames) : frames[i].from <= Len(nodes)
  BY WalkTypes DEF ExactInv, BudgetInv, Node, Entry
<1>4. Stack(frames, disk) /\ IF frames = <<>> THEN opening = Root
                             ELSE opening \in DOMAIN disk /\ disk[opening] = Place(frames[Len(frames)])
  BY <1>2 DEF Listing, Course, Taken
<1> DEFINE q == Append(here, opening)
<1>5. InPlace(opening) /\ q \in Seq(Node) /\ q # <<>> /\ q[Len(q)] = opening /\ Standing(q, disk)
  BY <1>3, <1>4, NothingMoved DEF ExactInv
<1>6. CASE Readable(opening)
  <2> DEFINE f == [path |-> q, entries |-> ReadDir(opening, disk), from |-> Len(nodes)]
  <2>1. frames' = Append(frames, f) /\ nodes' = Append(nodes, opening)
    BY <1>6 DEF Open, Enter
  <2>2. f \in Frame
    <3>1. ReadDir(opening, disk) \in Seq(Entry) /\ Len(nodes) \in Nat
      BY <1>3, ReadDirSorts
    <3> QED BY <1>5, <3>1 DEF Frame
  <2>3. Place(f) = opening /\ f.path = q /\ f.entries = ReadDir(opening, disk) /\ f.from = Len(nodes)
    BY <1>5 DEF Place
  <2>4. opening \notin unreadable
    BY <1>6 DEF Readable
  <2> HIDE DEF f, q
  <2>5. Listing(Append(frames, f), {}, Append(nodes, opening), n, disk, unreadable)
    BY <1>2, <1>3, <1>5, <2>2, <2>3, <2>4, ListingEnters
  <2> QED BY <1>1, <2>1, <2>5 DEF ListIsExact, ZipIsExact
<1>7. CASE ~Readable(opening)
  <2>1. frames' = frames /\ nodes' = nodes /\ opening \in unreadable
    BY <1>5, <1>7 DEF Open, Readable
  <2>2. Listing(frames, {}, nodes, n, disk, unreadable)
    BY <1>2, <1>3, <2>1, ListingPasses
  <2> QED BY <1>1, <2>1, <2>2 DEF ListIsExact, ZipIsExact
<1> QED
  BY <1>6, <1>7

(* The next entry is there. *)
LEMMA NextIsThere ==
  ASSUME BudgetInv, Stack(frames, disk), NEW x, NextEntry(x)
  PROVE  InPlace(x) /\ x = First(frames) /\ frames[Len(frames)].entries # <<>> /\ x \in Entry
<1>1. frames # <<>> /\ frames[Len(frames)].entries # <<>> /\ x = First(frames)
      /\ x = Head(frames[Len(frames)].entries)
  BY DEF NextEntry, top, First
<1> DEFINE f == frames[Len(frames)]
<1>2. f \in Frame /\ Sound(f, disk)
  <2>1. Len(frames) \in 1..Len(frames) /\ frames \in Seq(Frame)
    BY <1>1, WalkTypes
  <2> QED BY <2>1 DEF Stack
<1>3. f.entries \in Seq(Entry)
  BY <1>2 DEF Frame
<1>4. x \in ToSet(f.entries) /\ x \in Entry
  BY <1>1, <1>3, ToSetHas
<1>5. x \in DOMAIN disk /\ disk[x] = Place(f)
  BY <1>2, <1>4 DEF Sound
<1> QED
  BY <1>1, <1>4, <1>5, NothingMoved DEF Node

(* No entry is gone; the next one is listed, entered, or where the budget runs out. *)
LEMMA EntriesAreExact ==
  ASSUME ExactInv, still, NEW x, Gone(x) \/ ListFile(x) \/ ListDir(x) \/ OverBudget(x)
  PROVE  (ListIsExact /\ ZipIsExact)'
<1>1. /\ walk = "entries" /\ NextEntry(x)
      /\ UNCHANGED <<disk, unreadable, failed>> /\ failed = {}
  BY DEF Gone, ListFile, ListDir, OverBudget, At, diskVars, ExactInv, ZipIsExact
<1>2. Listing(frames, {}, nodes, n, disk, unreadable) /\ n <= Limit /\ n \in Nat /\ Limit \in Nat
  BY <1>1, WalkTypes DEF ExactInv, ListIsExact, BudgetInv
<1>3. /\ disk \in Trees /\ unreadable \in SUBSET Dir /\ frames \in Seq(Frame) /\ nodes \in Seq(Node)
      /\ frames # <<>> /\ \A i \in 1..Len(frames) : frames[i].from <= Len(nodes)
  BY <1>1, WalkTypes DEF ExactInv, BudgetInv
<1>4. InPlace(x) /\ x = First(frames) /\ frames[Len(frames)].entries # <<>>
  BY <1>1, <1>2, NextIsThere DEF ExactInv, Listing, Course
<1>5. /\ x \in Dir  => Listing(Skipped(frames), {x}, nodes, n + 1, disk, unreadable)
      /\ x \in File => Listing(Skipped(frames), {}, Append(nodes, x), n + 1, disk, unreadable)
  BY <1>2, <1>3, <1>4, ListingTakes
<1>6. Skip => frames' = Skipped(frames)
  BY DEF Skip, rest, top, Skipped
<1>7. CASE Gone(x)
  BY <1>4, <1>7 DEF Gone
<1>8. CASE ListFile(x)
  BY <1>1, <1>5, <1>6, <1>8 DEF ListFile, ListIsExact, ZipIsExact
<1>9. CASE ListDir(x)
  <2>1. /\ walk' = "open" /\ opening' = x /\ x \in Dir /\ n' = n + 1
        /\ frames' = Skipped(frames) /\ nodes' = nodes
    BY <1>6, <1>9 DEF ListDir
  <2> QED BY <1>1, <1>5, <2>1 DEF ListIsExact, ZipIsExact
<1>10. CASE OverBudget(x)
  <2> DEFINE r == IF Len(frames) = 1 THEN nodes ELSE SubSeq(nodes, 1, frames[2].from)
  <2>1. walk' = "done" /\ nodes' = r /\ Truncated' = TRUE /\ ~(n + 1 <= Limit)
    BY <1>2, <1>10 DEF OverBudget, Done, overBudget
  <2>2. [nodes |-> r, Truncated |-> TRUE] = List(disk, unreadable)
    BY <1>2, <1>3, <1>4, <2>1, ListingIsCut
  <2> HIDE DEF r
  <2> QED BY <1>1, <2>1, <2>2 DEF ListIsExact, ZipIsExact
<1> QED
  BY <1>7, <1>8, <1>9, <1>10

(* A call of list returns, or the first of all does. *)
LEMMA ReturnIsExact ==
  ASSUME ExactInv, still, Return
  PROVE  (ListIsExact /\ ZipIsExact)'
<1>1. /\ walk = "entries" /\ frames[Len(frames)].entries = <<>> /\ n' = n
      /\ UNCHANGED <<disk, unreadable, failed>> /\ failed = {}
  BY DEF Return, top, diskVars, ExactInv, ZipIsExact
<1>2. Listing(frames, {}, nodes, n, disk, unreadable) /\ n <= Limit /\ n \in Nat
  BY <1>1, WalkTypes DEF ExactInv, ListIsExact, BudgetInv
<1>3. /\ disk \in Trees /\ unreadable \in SUBSET Dir /\ frames \in Seq(Frame) /\ nodes \in Seq(Node)
      /\ frames # <<>>
  BY <1>1, WalkTypes DEF ExactInv, BudgetInv
<1>4. CASE Len(frames) = 1
  <2>1. walk' = "done" /\ nodes' = nodes /\ Truncated' = FALSE
    BY <1>4 DEF Return, Done
  <2>2. [nodes |-> nodes, Truncated |-> FALSE] = List(disk, unreadable)
    BY <1>1, <1>2, <1>3, <1>4, ListingEnds
  <2> QED BY <1>1, <2>1, <2>2 DEF ListIsExact, ZipIsExact
<1>5. CASE Len(frames) # 1
  <2>1. walk' = walk /\ nodes' = nodes /\ frames' = Front(frames)
    BY <1>5 DEF Return, rest
  <2>2. Listing(Front(frames), {}, nodes, n, disk, unreadable)
    BY <1>1, <1>2, <1>3, ListingPops
  <2> QED BY <1>1, <2>1, <2>2 DEF ListIsExact, ZipIsExact
<1> QED
  BY <1>4, <1>5

(* The directory of an archive is the first node, its files are the others. *)
LEMMA TailGrows ==
  ASSUME NEW s \in Seq(Node), s # <<>>, NEW x \in Node
  PROVE  /\ Append(s, x) # <<>> /\ Head(Append(s, x)) = Head(s)
         /\ Tail(Append(s, x)) = Append(Tail(s), x)
         /\ Tail(s) \in Seq(Node) /\ s = <<Head(s)>> \o Tail(s)
<1> DEFINE q == Append(s, x)
           m == Len(s)
<1>1. /\ m \in Nat \ {0} /\ Head(s) = s[1] /\ Tail(s) \in Seq(Node) /\ Len(Tail(s)) = m - 1
      /\ \A i \in 1..(m - 1) : Tail(s)[i] = s[i + 1]
  OBVIOUS
<1>2. /\ q \in Seq(Node) /\ Len(q) = m + 1 /\ \A i \in 1..m : q[i] = s[i]
      /\ q[m + 1] = x /\ q # <<>>
  BY <1>1
<1>3. s = <<Head(s)>> \o Tail(s)
  BY <1>1
<1> HIDE DEF q, m
<1>4. Head(q) = q[1] /\ Tail(q) \in Seq(Node) /\ Len(Tail(q)) = m
      /\ \A i \in 1..m : Tail(q)[i] = q[i + 1]
  BY <1>1, <1>2
<1> DEFINE r == Append(Tail(s), x)
<1>5. /\ r \in Seq(Node) /\ Len(r) = m /\ r[m] = x
      /\ \A i \in 1..(m - 1) : r[i] = Tail(s)[i]
  BY <1>1
<1> HIDE DEF r
<1>6. ASSUME NEW i \in 1..m PROVE Tail(q)[i] = r[i]
  <2>1. CASE i = m
    BY <1>1, <1>2, <1>4, <1>5, <2>1
  <2>2. CASE i # m
    <3>1. i \in 1..(m - 1) /\ i + 1 \in 1..m
      BY <1>1, <2>2
    <3> QED BY <1>1, <1>2, <1>4, <1>5, <3>1
  <2> QED BY <2>1, <2>2
<1>7. Tail(q) = r
  <2> DEFINE t == Tail(q)
  <2>1. t \in Seq(Node) /\ Len(t) = m
    BY <1>4
  <2>2. \A i \in 1..m : t[i] = r[i]
    BY <1>6
  <2> HIDE DEF t
  <2>3. t = r
    BY <1>5, <2>1, <2>2
  <2> QED BY <2>3 DEF t
<1>8. 1 \in 1..m
  BY <1>1
<1> QED
  BY <1>1, <1>2, <1>3, <1>4, <1>7, <1>8 DEF q, r

(* The archive begun, closed at the directory that cannot be read, or closed at once. *)
LEMMA ZipStartIsExact ==
  ASSUME ExactInv, still, NEW d \in Dir, StartZip(d)
  PROVE  (ListIsExact /\ ZipIsExact)'
<1>1. /\ walk = "idle" /\ d \in DOMAIN disk /\ nodes' = <<d>>
      /\ UNCHANGED <<disk, unreadable, failed>> /\ failed = {} /\ unreadable \cup failed = unreadable
  BY DEF StartZip, diskVars, ExactInv, ZipIsExact
<1>2. disk \in Trees /\ unreadable \in SUBSET Dir /\ d \in Nodes(disk) /\ d \in Node
  BY <1>1, WalkTypes DEF ExactInv, Nodes, Node, Entry
<1>3. Head(nodes') = d /\ Tail(nodes') = <<>>
  BY <1>1
<1>4. CASE d \in unreadable
  <2>1. walk' = "closed"
    BY <1>4 DEF StartZip, CloseZip
  <2>2. Held(d, disk, unreadable) = {}
    <3> SUFFICES ASSUME NEW x \in Held(d, disk, unreadable) PROVE FALSE
      OBVIOUS
    <3>1. d \in unreadable \cap InDir(d, disk)
      BY <1>1, <1>2, <1>4, InDirTypes
    <3>2. Before(x, d, disk) /\ x \in Nodes(disk) /\ d \in Path(x, disk)
      BY <3>1 DEF Held, InDir
    <3>3. x # d => Before(d, x, disk)
      BY <3>2 DEF Before, Ancestors
    <3> QED BY <1>2, <3>2, <3>3, BeforeTransitive, BeforeIrreflexive
  <2>3. InOrder({}, disk) = <<>>
    <3>1. Len(InOrder({}, disk)) = Cardinality({}) /\ InOrder({}, disk) \in Seq({})
      BY <1>2, InOrderSorts
    <3> QED BY <3>1, FS_EmptySet
  <2> QED BY <1>1, <1>3, <2>1, <2>2, <2>3 DEF ListIsExact, ZipIsExact
<1>5. CASE d \notin unreadable
  <2> DEFINE S == Path(d, disk)
             way == SortedBy(S, {p \in S \X S : p[1] \in Ancestors(p[2], disk)})
             f == [path |-> way, entries |-> ReadDir(d, disk), from |-> 0]
  <2>1. walk' = "zip" /\ frames' = <<f>>
    BY <1>5 DEF StartZip
  <2>2. way \in Seq(Nodes(disk)) /\ way # <<>> /\ way[Len(way)] = d /\ Standing(way, disk)
    BY <1>2, WayFromRoot
  <2> HIDE DEF way
  <2>3. way \in Seq(Node) /\ ReadDir(d, disk) \in Seq(Entry)
    <3>1. Nodes(disk) \subseteq Node
      BY <1>2, TreeTypes DEF Nodes, Node
    <3> QED BY <1>2, <2>2, <3>1, ReadDirSorts, SeqOfMore
  <2>4. f \in Frame /\ Place(f) = d /\ f.path = way /\ f.entries = ReadDir(d, disk)
    BY <2>2, <2>3 DEF Frame, Place
  <2> HIDE DEF f
  <2>5. Archive(d, <<f>>, {}, <<>>, disk, unreadable)
    BY <1>1, <1>2, <1>5, <2>2, <2>4, ArchiveStarts
  <2> QED BY <1>1, <1>3, <2>1, <2>5 DEF ListIsExact, ZipIsExact
<1> QED
  BY <1>4, <1>5

(* serveZip reads a directory, or ends where it cannot; takes an entry; leaves a *)
(* directory.                                                                    *)
LEMMA ZipStepIsExact ==
  ASSUME ExactInv, still,
         \/ ZipOpen \/ ZipReturn
         \/ \E x \in Entry : ZipGone(x) \/ ZipFile(x) \/ ZipFileFails(x) \/ ZipDir(x)
  PROVE  (ListIsExact /\ ZipIsExact)'
<1> DEFINE d  == Head(nodes)
           ns == Tail(nodes)
<1>1. /\ walk \in {"zip", "zipOpen"} /\ UNCHANGED <<disk, unreadable>>
      /\ failed = {} /\ unreadable \cup failed = unreadable
  BY DEF ZipOpen, ZipReturn, ZipGone, ZipFile, ZipFileFails, ZipDir, AtZip, diskVars, ExactInv,
         ZipIsExact
<1>2. /\ d \in Dir \cap DOMAIN disk
      /\ walk = "zip" => Archive(d, frames, {}, ns, disk, unreadable)
      /\ walk = "zipOpen" => Archive(d, frames, {opening}, ns, disk, unreadable)
  BY <1>1 DEF ExactInv, ZipIsExact
<1>3. /\ disk \in Trees /\ unreadable \in SUBSET Dir /\ frames \in Seq(Frame) /\ frames # <<>>
      /\ nodes \in Seq(Node) /\ nodes # <<>> /\ opening \in Node
  BY <1>1, WalkTypes DEF ExactInv, BudgetInv, Node, Entry
<1>4. ns \in Seq(Node)
  BY <1>3
<1> HIDE DEF d, ns
<1>5. CASE ZipOpen
  <2>1. /\ walk = "zipOpen" /\ nodes' = nodes /\ failed' = failed
        /\ Archive(d, frames, {opening}, ns, disk, unreadable)
    BY <1>2, <1>5 DEF ZipOpen, diskVars
  <2>2. Stack(frames, disk) /\ opening \in DOMAIN disk /\ disk[opening] = Place(frames[Len(frames)])
    BY <1>3, <2>1 DEF Archive, Course, Taken
  <2> DEFINE q == Append(here, opening)
  <2>3. InPlace(opening) /\ q \in Seq(Node) /\ q # <<>> /\ q[Len(q)] = opening /\ Standing(q, disk)
    BY <1>3, <2>2, NothingMoved DEF ExactInv
  <2>4. CASE Readable(opening)
    <3> DEFINE f == [path |-> q, entries |-> ReadDir(opening, disk), from |-> Len(nodes)]
    <3>1. walk' = "zip" /\ frames' = Append(frames, f) /\ opening \notin unreadable
      BY <1>5, <2>4 DEF ZipOpen, Enter, Readable
    <3>2. f \in Frame
      <4>1. ReadDir(opening, disk) \in Seq(Entry) /\ Len(nodes) \in Nat
        BY <1>3, ReadDirSorts
      <4> QED BY <2>3, <4>1 DEF Frame
    <3>3. Place(f) = opening /\ f.path = q /\ f.entries = ReadDir(opening, disk)
      BY <2>3 DEF Place
    <3> HIDE DEF f, q
    <3>4. Archive(d, Append(frames, f), {}, ns, disk, unreadable)
      BY <1>2, <1>3, <2>1, <2>3, <3>1, <3>2, <3>3, ArchiveEnters
    <3> QED BY <1>1, <1>2, <2>1, <3>1, <3>4 DEF ListIsExact, ZipIsExact, d, ns
  <2>5. CASE ~Readable(opening)
    <3>1. walk' = "closed" /\ opening \in unreadable
      BY <1>5, <2>3, <2>5 DEF ZipOpen, ZipUnreadable, CloseZip, Readable
    <3>2. \E o \in unreadable : {opening} = {o}
      BY <3>1
    <3>3. ns = InOrder(Held(d, disk, unreadable), disk)
      BY <1>2, <1>3, <1>4, <2>1, <3>2, ArchiveEnds
    <3> QED BY <1>1, <1>2, <2>1, <3>1, <3>3 DEF ListIsExact, ZipIsExact, d, ns
  <2> QED BY <2>4, <2>5
<1>6. CASE ZipReturn
  <2>1. /\ walk = "zip" /\ nodes' = nodes /\ failed' = failed
        /\ frames[Len(frames)].entries = <<>> /\ Archive(d, frames, {}, ns, disk, unreadable)
    BY <1>2, <1>6 DEF ZipReturn, top, diskVars
  <2>2. CASE Len(frames) = 1
    <3>1. walk' = "closed"
      BY <1>6, <2>2 DEF ZipReturn, CloseZip
    <3>2. ns = InOrder(Held(d, disk, unreadable), disk)
      BY <1>2, <1>3, <1>4, <2>1, <2>2, ArchiveEnds
    <3> QED BY <1>1, <1>2, <2>1, <3>1, <3>2 DEF ListIsExact, ZipIsExact, d, ns
  <2>3. CASE Len(frames) # 1
    <3>1. walk' = "zip" /\ frames' = Front(frames)
      BY <1>6, <2>1, <2>3 DEF ZipReturn, rest
    <3>2. Archive(d, Front(frames), {}, ns, disk, unreadable)
      BY <1>2, <1>3, <2>1, ArchivePops
    <3> QED BY <1>1, <1>2, <2>1, <3>1, <3>2 DEF ListIsExact, ZipIsExact, d, ns
  <2> QED BY <2>2, <2>3
<1>7. ASSUME NEW x \in Entry, ZipGone(x) \/ ZipFile(x) \/ ZipFileFails(x) \/ ZipDir(x)
      PROVE  (ListIsExact /\ ZipIsExact)'
  <2>1. walk = "zip" /\ NextEntry(x) /\ Archive(d, frames, {}, ns, disk, unreadable)
    BY <1>2, <1>7 DEF ZipGone, ZipFile, ZipFileFails, ZipDir, AtZip
  <2>2. InPlace(x) /\ x = First(frames) /\ frames[Len(frames)].entries # <<>>
    BY <2>1, NextIsThere DEF ExactInv, Archive, Course
  <2>3. /\ x \in Dir  => Archive(d, Skipped(frames), {x}, ns, disk, unreadable)
        /\ x \in File => Archive(d, Skipped(frames), {}, Append(ns, x), disk, unreadable)
    BY <1>2, <1>3, <1>4, <2>1, <2>2, ArchiveTakes
  <2>4. Skip => frames' = Skipped(frames)
    BY DEF Skip, rest, top, Skipped
  <2>5. CASE ZipGone(x)
    BY <2>2, <2>5 DEF ZipGone
  <2>6. CASE ZipFile(x)
    <3>1. /\ walk' = "zip" /\ nodes' = Append(nodes, x) /\ frames' = Skipped(frames) /\ x \in File
          /\ failed' = failed
      BY <2>1, <2>4, <2>6 DEF ZipFile, diskVars
    <3>2. Head(nodes') = d /\ Tail(nodes') = Append(ns, x)
      BY <1>3, <3>1, TailGrows DEF d, ns, Node
    <3> QED BY <1>1, <1>2, <2>3, <3>1, <3>2 DEF ListIsExact, ZipIsExact
  <2>7. CASE ZipDir(x)
    <3>1. /\ walk' = "zipOpen" /\ nodes' = nodes /\ opening' = x /\ x \in Dir
          /\ frames' = Skipped(frames) /\ failed' = failed
      BY <2>1, <2>4, <2>7 DEF ZipDir, diskVars
    <3> QED BY <1>1, <1>2, <2>3, <3>1 DEF ListIsExact, ZipIsExact, d, ns
  <2>8. CASE ZipFileFails(x)
    <3>1. walk' = "closed" /\ nodes' = nodes /\ failed' = {x} /\ x \in File
      BY <2>8 DEF ZipFileFails, CloseZip
    <3>2. ns = InOrder(Held(d, disk, unreadable \cup {x}), disk)
      BY <1>2, <1>3, <1>4, <2>1, <2>2, <3>1, ArchiveBreaks
    <3> QED BY <1>1, <1>2, <3>1, <3>2 DEF ListIsExact, ZipIsExact, d, ns
  <2> QED BY <1>7, <2>5, <2>6, <2>7, <2>8
<1> QED
  BY <1>5, <1>6, <1>7

(* Neither walk has begun. *)
LEMMA InitExact == WalkInit => ExactInv
  BY InitBudget DEF WalkInit, ExactInv, ListIsExact, ZipIsExact

(* Every step keeps the walk exact, or changes the directory under it. *)
LEMMA StepIsExact == ExactInv /\ [WalkNext]_walkVars => ExactInv'
<1> SUFFICES ASSUME ExactInv, [WalkNext]_walkVars PROVE ExactInv'
  OBVIOUS
<1>1. BudgetInv'
  BY StepKeepsBudget DEF ExactInv
<1>2. ASSUME still, (ListIsExact /\ ZipIsExact)' PROVE ExactInv'
  BY <1>1, <1>2 DEF ExactInv
<1>3. CASE Environment
  <2>1. \E tree : Disturb(tree)
    BY <1>3 DEF Environment, DeleteEntry, CreateEntry, MoveEntry
  <2> QED BY <1>1, <2>1 DEF Disturb, ExactInv
<1>4. CASE Abandoned
  BY <1>1, <1>4 DEF Abandoned, ExactInv
<1>5. CASE UNCHANGED walkVars
  <2>1. UNCHANGED <<disk, unreadable, failed, still, walk, n, frames, opening, nodes, Truncated>>
    BY <1>5 DEF walkVars, diskVars
  <2> QED BY <1>1, <2>1 DEF ExactInv, ListIsExact, ZipIsExact
<1>6. CASE Walk
  <2>1. still' = still
    BY <1>6 DEF Walk, Start, Open, Return, Gone, ListFile, ListDir, OverBudget, diskVars
  <2>2. still => (ListIsExact /\ ZipIsExact)'
    BY <1>6, StartIsExact, OpenIsExact, ReturnIsExact, EntriesAreExact DEF Walk
  <2> QED BY <1>1, <2>1, <2>2 DEF ExactInv
<1>7. CASE \/ ZipOpen \/ ZipReturn
           \/ \E x \in Entry : ZipGone(x) \/ ZipFile(x) \/ ZipFileFails(x) \/ ZipDir(x)
  <2>1. still' = still
    BY <1>7 DEF ZipOpen, ZipReturn, ZipGone, ZipFile, ZipFileFails, ZipDir, diskVars
  <2>2. still => (ListIsExact /\ ZipIsExact)'
    BY <1>7, ZipStepIsExact
  <2> QED BY <1>1, <2>1, <2>2 DEF ExactInv
<1>8. ASSUME NEW d \in Dir, StartZip(d) PROVE ExactInv'
  <2>1. still' = still
    BY <1>8 DEF StartZip, diskVars
  <2>2. still => (ListIsExact /\ ZipIsExact)'
    BY <1>8, ZipStartIsExact
  <2> QED BY <1>1, <2>1, <2>2 DEF ExactInv
<1> QED
  BY <1>3, <1>4, <1>5, <1>6, <1>7, <1>8 DEF WalkNext, serveZip, Finished

(* Whatever tree, whichever directories cannot be read and whatever the budget: of a   *)
(* directory that stood still the walk returns exactly the nodes before the entry at   *)
(* which the budget ran out, in the order of the tree, without the directories it was  *)
(* in, and says whether anything is missing.                                           *)
THEOREM WalkReturnsTheTree == WalkSpec => []WalkIsExact
<1>1. ExactInv => WalkIsExact
  BY DEF ExactInv, ListIsExact, WalkIsExact
<1> QED
  BY <1>1, InitExact, StepIsExact, PTL DEF WalkSpec

(* And the archive of one holds exactly the files in it, in that order, up to the first *)
(* directory that cannot be read and to the file that could not be opened or copied.    *)
THEOREM ArchiveHoldsTheTree == WalkSpec => []ArchiveIsExact
<1>1. ExactInv => ArchiveIsExact
  <2> SUFFICES ASSUME ExactInv, walk = "closed", still PROVE ArchiveIsExact
    BY DEF ArchiveIsExact
  <2> DEFINE d == Head(nodes)
             below == {x \in DOMAIN disk : d \in Ancestors(x, disk)}
             held == {x \in below \cap File :
                        \A u \in (unreadable \cup failed) \cap (below \cup {d}) :
                          Before(x, u, disk)}
  <2>1. /\ d \in DOMAIN disk
        /\ Tail(nodes) = InOrder(Held(d, disk, unreadable \cup failed), disk)
        /\ nodes # <<>> /\ nodes \in Seq(Node) /\ disk \in Trees
    BY WalkTypes DEF ExactInv, ZipIsExact, BudgetInv
  <2>2. d \notin File
    BY FileListAssumption DEF ExactInv, ZipIsExact
  <2>3. nodes = <<d>> \o Tail(nodes)
    BY <2>1
  <2>4. InDir(d, disk) = below \cup {d}
    BY <2>1, InDirTypes
  <2> HIDE DEF d, below
  <2>5. Held(d, disk, unreadable \cup failed) = held
    BY <2>2, <2>4 DEF Held
  <2> QED BY <2>1, <2>3, <2>5 DEF ArchiveIsExact, d, below
<1> QED
  BY <1>1, InitExact, StepIsExact, PTL DEF WalkSpec
=============================================================================
