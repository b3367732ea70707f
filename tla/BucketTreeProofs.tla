-------------------------- MODULE BucketTreeProofs --------------------------
(***************************************************************************)
(* What holds of the bucket tree for every capacity, aggregation, set of   *)
(* keys and set of values: the nodes' hashes are those of their children,  *)
(* Process gives the root of the tree computed from scratch, and a root    *)
(* that the database has can be read back with its table and its buckets.  *)
(*                                                                         *)
(* The module goes from the powers and the positions to what the recursive *)
(* functions of BucketTree compute, then to the invariant and one lemma    *)
(* for each action.                                                        *)
(***************************************************************************)
EXTENDS BucketTree, WellFoundedInduction, TLAPS

----------------------------------------------------------------------------
(* Recursive functions.  Their equations are proved here, from the existence of a
   function that satisfies them, by induction: no set of naturals is without a least
   element. *)

\* The induction of this module.
LEMMA NatMin ==
    ASSUME NEW T \in SUBSET Nat, T # {}
    PROVE  \E m \in T : \A n \in T : m <= n
<1> DEFINE R == {ss \in Nat \X Nat : ss[1] < ss[2]}
<1>1. IsWellFoundedOn(R, Nat)
  BY NatLessThanWellFounded, Zenon DEF OpToRel
<1> HIDE DEF R
<1>2. PICK x \in T : \A y \in T : ~(<<y, x>> \in R)
  BY <1>1, WFMin, Zenon
<1>3. \A y \in T : ~(y < x)
  BY <1>2, Zenon DEF R
<1> QED BY <1>3

\* A set of naturals with 0 and with the successor of each of its members has them all.
LEMMA NatInd ==
    ASSUME NEW S, 0 \in S, \A n \in Nat : n \in S => n + 1 \in S
    PROVE  \A n \in Nat : n \in S
<1> SUFFICES ASSUME Nat \ S # {} PROVE FALSE
  OBVIOUS
<1>1. PICK m \in Nat \ S : \A n \in Nat \ S : m <= n
  BY NatMin, Zenon
<1>2. m # 0 /\ m - 1 \in Nat
  BY <1>1
<1>3. m - 1 \in S
  BY <1>1, <1>2
<1>4. (m - 1) + 1 = m
  BY <1>1
<1> QED BY <1>1, <1>2, <1>3, <1>4

\* The equation of pow.
LEMMA PowIs == pow = [m \in Nat |-> IF m = 0 THEN 1 ELSE Aggre * pow[m - 1]]
<1> DEFINE Is(f, n) == f[0] = 1 /\ \A m \in 1..n : f[m] = Aggre * f[m - 1]
           S == {n \in Nat : \E f : Is(f, n)}
<1>1. \A n \in Nat : n \in S
  <2>1. 0 \in S
    <3>1. Is([m \in Nat |-> 1], 0)
      OBVIOUS
    <3> QED BY <3>1, Zenon
  <2>2. ASSUME NEW n \in Nat, n \in S PROVE n + 1 \in S
    <3>1. PICK f : Is(f, n)
      BY <2>2, Zenon
    <3> DEFINE g == [m \in Nat |-> IF m <= n THEN f[m] ELSE Aggre * f[n]]
    <3>2. g[0] = 1
      BY <3>1
    <3>3. ASSUME NEW m \in 1..(n + 1) PROVE g[m] = Aggre * g[m - 1]
      <4>1. CASE m <= n
        BY <4>1, <3>1
      <4>2. CASE m = n + 1
        <5>1. g[m] = Aggre * f[n]
          BY <4>2
        <5>2. g[m - 1] = f[n]
          BY <4>2
        <5> HIDE DEF g
        <5> QED BY <5>1, <5>2, Zenon
      <4> QED BY <4>1, <4>2
    <3>4. Is(g, n + 1)
      BY <3>2, <3>3, Zenon
    <3>5. n + 1 \in Nat
      OBVIOUS
    <3> HIDE DEF g, Is
    <3> QED BY <3>4, <3>5, Zenon
  <2> HIDE DEF S
  <2> QED BY <2>1, <2>2, NatInd
<1> DEFINE F(n) == CHOOSE f : Is(f, n)
           G == [n \in Nat |-> F(n)[n]]
<1>2. \A n \in Nat : Is(F(n), n)
  BY <1>1, Zenon
<1> HIDE DEF F
<1>3. ASSUME NEW n \in Nat, NEW k \in Nat, NEW f, NEW g, Is(f, n), Is(g, k)
      PROVE  \A m \in Nat : m <= n /\ m <= k => f[m] = g[m]
  <2> DEFINE Q == {m \in Nat : m <= n /\ m <= k => f[m] = g[m]}
  <2>1. 0 \in Q
    BY <1>3
  <2>2. ASSUME NEW m \in Nat, m \in Q PROVE m + 1 \in Q
    <3> SUFFICES ASSUME m + 1 <= n, m + 1 <= k PROVE f[m + 1] = g[m + 1]
      OBVIOUS
    <3>1. m + 1 \in 1..n /\ m + 1 \in 1..k /\ (m + 1) - 1 = m /\ m <= n /\ m <= k
      OBVIOUS
    <3>2. f[m] = g[m]
      BY <2>2, <3>1
    <3>3. f[m + 1] = Aggre * f[m] /\ g[m + 1] = Aggre * g[m]
      BY <1>3, <3>1
    <3> QED BY <3>2, <3>3, Zenon
  <2>3. \A m \in Nat : m \in Q
    <3> HIDE DEF Q
    <3> QED BY <2>1, <2>2, NatInd
  <2> QED BY <2>3
<1>4. ASSUME NEW n \in Nat PROVE G[n] = IF n = 0 THEN 1 ELSE Aggre * G[n - 1]
  <2>1. CASE n = 0
    BY <2>1, <1>2
  <2>2. CASE n # 0
    <3>1. n - 1 \in Nat /\ n \in 1..n /\ n - 1 <= n /\ n - 1 <= n - 1
      BY <2>2
    <3>2. F(n)[n] = Aggre * F(n)[n - 1]
      BY <1>2, <3>1
    <3>3. F(n)[n - 1] = F(n - 1)[n - 1]
      <4>1. Is(F(n), n) /\ Is(F(n - 1), n - 1)
        BY <1>2, <3>1
      <4> HIDE DEF Is
      <4> QED BY <4>1, <1>3, <3>1
    <3>4. G[n] = F(n)[n] /\ G[n - 1] = F(n - 1)[n - 1]
      BY <3>1
    <3> HIDE DEF G
    <3> QED BY <2>2, <3>2, <3>3, <3>4, Zenon
  <2> QED BY <2>1, <2>2
<1>5. G = [m \in Nat |-> IF m = 0 THEN 1 ELSE Aggre * G[m - 1]]
  <2>1. G = [n \in Nat |-> G[n]]
    BY Zenon
  <2> HIDE DEF G
  <2> QED BY <1>4, <2>1, Zenon
<1>6. \E f : f = [m \in Nat |-> IF m = 0 THEN 1 ELSE Aggre * f[m - 1]]
  BY <1>5, Zenon
<1> QED BY <1>6, Zenon DEF pow

\* The powers are positive and each is the next one's Aggre-th part.
LEMMA PowStep ==
    /\ pow[0] = 1
    /\ \A m \in Nat : pow[m] \in Nat /\ pow[m] > m /\ pow[m + 1] = Aggre * pow[m]
<1> DEFINE S == {m \in Nat : pow[m] \in Nat /\ pow[m] > m}
<1>1. pow[0] = 1
  BY PowIs
<1>2. ASSUME NEW m \in Nat PROVE pow[m + 1] = Aggre * pow[m]
  <2>1. m + 1 \in Nat /\ m + 1 # 0 /\ (m + 1) - 1 = m
    OBVIOUS
  <2> QED BY PowIs, <2>1
<1>3. \A m \in Nat : m \in S
  <2>1. 0 \in S
    BY <1>1
  <2>2. ASSUME NEW m \in Nat, m \in S PROVE m + 1 \in S
    <3>1. PICK x \in Nat : x = pow[m] /\ x > m
      BY <2>2
    <3>2. Aggre * x \in Nat /\ Aggre * x >= x + x
      BY <3>1, TreeAssumption
    <3>3. pow[m + 1] = Aggre * x
      BY <1>2, <3>1, Zenon
    <3> QED BY <3>1, <3>2, <3>3
  <2> HIDE DEF S
  <2> QED BY <2>1, <2>2, NatInd
<1> QED BY <1>1, <1>2, <1>3

\* There is a first level with Cap nodes or more, and it is not the root's.
LEMMA LevelExists ==
    llevel \in Nat /\ llevel # 0 /\ llevel <= Cap /\ pow[llevel] >= Cap /\ pow[llevel - 1] < Cap
<1> DEFINE S == {l \in Nat : pow[l] >= Cap}
<1>1. Cap \in S /\ 0 \notin S
  BY PowStep, TreeAssumption
<1>2. PICK l \in S : \A k \in S : l <= k
  <2> HIDE DEF S
  <2>1. S \subseteq Nat
    BY DEF S
  <2> QED BY <1>1, <2>1, NatMin, Zenon
<1>3. l \in 1..Cap /\ l - 1 \in Nat
  BY <1>1, <1>2, TreeAssumption
<1>4. pow[l] >= Cap /\ pow[l - 1] < Cap
  <2>1. l - 1 \notin S
    BY <1>2, <1>3
  <2>2. pow[l - 1] \in Nat
    BY <1>3, PowStep
  <2> QED BY <1>2, <1>3, <2>1, <2>2, TreeAssumption
<1>5. llevel \in 1..Cap /\ pow[llevel] >= Cap /\ pow[llevel - 1] < Cap
  BY <1>3, <1>4, Zenon DEF llevel
<1> QED BY <1>5, TreeAssumption

\* The indexes of the last level.
Leaves == 0..(pow[llevel] - 1)

\* A position is a level and an index.
LEMMA PositionIs ==
    /\ \A l \in 0..llevel : \A i \in 0..(pow[l] - 1) : <<l, i>> \in Position
    /\ \A p \in Position :
        /\ p = <<p[1], p[2]>> /\ p[1] \in 0..llevel /\ p[2] \in 0..(pow[p[1]] - 1)
        /\ p[1] = 0 => p = Root
<1>1. \A l \in 0..llevel : \A i \in 0..(pow[l] - 1) : <<l, i>> \in Position
  BY DEF Position
<1>2. ASSUME NEW p \in Position
      PROVE  p = <<p[1], p[2]>> /\ p[1] \in 0..llevel /\ p[2] \in 0..(pow[p[1]] - 1)
  <2>1. PICK l \in 0..llevel : \E i \in 0..(pow[l] - 1) : p = <<l, i>>
    BY Zenon DEF Position
  <2> QED BY <2>1
<1>3. ASSUME NEW p \in Position, p[1] = 0 PROVE p = Root
  BY <1>2, <1>3, PowStep DEF Root
<1> QED BY <1>1, <1>2, <1>3

\* Division by a positive number.
LEMMA Division ==
    ASSUME NEW x \in Nat, NEW d \in Nat, d > 0
    PROVE  x \div d \in Nat /\ x % d \in 0..(d - 1) /\ x = (x \div d) * d + (x % d)
OBVIOUS

\* Quotient and remainder are the only ones.
LEMMA DivisionIs ==
    ASSUME NEW q \in Nat, NEW d \in Nat, d > 0, NEW c \in 0..(d - 1)
    PROVE  (q * d + c) \div d = q /\ (q * d + c) % d = c
OBVIOUS

\* Division by a product.
LEMMA DivisionTwice ==
    ASSUME NEW x \in Nat, NEW d \in Nat, d > 0, NEW e \in Nat, e > 0
    PROVE  (x \div d) \div e = x \div (d * e)
OBVIOUS

----------------------------------------------------------------------------
(* The positions of the tree. *)

\* A number of a level is below the power of the level when its quotient is.
LEMMA Below ==
    ASSUME NEW q \in Nat, NEW n \in Nat, NEW d \in Nat, NEW c \in 0..(d - 1)
    PROVE  q < n <=> q * d + c < d * n
<1>1. ASSUME q < n PROVE q * d + c < d * n
  <2>1. (q + 1) * d <= n * d
    BY <1>1
  <2> QED BY <2>1
<1>2. ASSUME ~(q < n) PROVE ~(q * d + c < d * n)
  <2>1. n * d <= q * d
    BY <1>2
  <2> QED BY <2>1
<1> QED BY <1>1, <1>2

\* A node and its children know each other.
LEMMA ChildIs ==
    ASSUME NEW p \in Position, ~isLeaf(p), NEW c \in Branch
    PROVE  /\ Child(p, c) \in Position /\ Child(p, c) # Root /\ Child(p, c)[1] = p[1] + 1
           /\ getParent(Child(p, c)) = p /\ Slot(Child(p, c)) = c
<1>1. PICK l \in Nat, i \in Nat : p = <<l, i>> /\ l + 1 \in 0..llevel /\ i < pow[l]
  <2>1. p[1] # llevel /\ p = <<p[1], p[2]>> /\ p[1] \in 0..llevel /\ p[2] \in 0..(pow[p[1]] - 1)
    BY PositionIs, Zenon DEF isLeaf
  <2>2. pow[p[1]] \in Nat
    BY <2>1, PowStep
  <2> QED BY <2>1, <2>2, LevelExists
<1>2. Aggre \in Nat /\ Aggre > 0 /\ c \in 0..(Aggre - 1)
  BY TreeAssumption DEF Branch
<1>3. Child(p, c) = <<l + 1, i * Aggre + c>>
  BY <1>1 DEF Child
<1>4. i * Aggre + c \in Nat
  BY <1>2
<1>5. i * Aggre + c < pow[l + 1]
  <2>1. pow[l] \in Nat /\ pow[l + 1] = Aggre * pow[l]
    BY PowStep
  <2> QED BY <1>1, <1>2, <2>1, Below
<1>6. pow[l + 1] \in Nat
  BY PowStep
<1>7. Child(p, c) \in Position
  <2>1. i * Aggre + c \in 0..(pow[l + 1] - 1)
    BY <1>4, <1>5, <1>6
  <2> QED BY <1>1, <1>3, <2>1, PositionIs
<1>8. (i * Aggre + c) \div Aggre = i /\ (i * Aggre + c) % Aggre = c
  BY <1>2, DivisionIs
<1>9. getParent(Child(p, c)) = p /\ Slot(Child(p, c)) = c /\ Child(p, c)[1] = p[1] + 1
  BY <1>1, <1>3, <1>8 DEF getParent, Slot
<1>10. Child(p, c) # Root
  BY <1>3 DEF Root
<1> QED BY <1>7, <1>9, <1>10, Zenon

\* Every node but the root is a child.
LEMMA ParentIs ==
    ASSUME NEW p \in Position, p # Root
    PROVE  /\ getParent(p) \in Position /\ ~isLeaf(getParent(p))
           /\ getParent(p)[1] = p[1] - 1 /\ p[1] # 0
           /\ Slot(p) \in Branch /\ p = Child(getParent(p), Slot(p))
<1>1. /\ p[1] # 0 /\ p = <<p[1], p[2]>> /\ p[1] \in 0..llevel /\ p[2] \in 0..(pow[p[1]] - 1)
  BY PositionIs, Zenon
<1>2. pow[p[1]] \in Nat
  BY <1>1, PowStep
<1>3. PICK l \in Nat, i \in Nat : p = <<l + 1, i>> /\ l + 1 <= llevel /\ i < pow[l + 1]
  <2>1. (p[1] - 1) + 1 = p[1] /\ p[1] - 1 \in Nat /\ p[2] \in Nat /\ p[2] < pow[p[1]] /\ p[1] <= llevel
    BY <1>1, <1>2, LevelExists
  <2> QED BY <1>1, <2>1
<1>4. Aggre \in Nat /\ Aggre > 0
  BY TreeAssumption
<1>5. i \div Aggre \in Nat /\ i % Aggre \in 0..(Aggre - 1) /\ i = (i \div Aggre) * Aggre + (i % Aggre)
  BY <1>4, Division
<1>6. getParent(p) = <<l, i \div Aggre>> /\ Slot(p) = i % Aggre
  BY <1>3 DEF getParent, Slot
<1>7. i \div Aggre < pow[l]
  <2>1. pow[l] \in Nat /\ pow[l + 1] = Aggre * pow[l]
    BY PowStep
  <2> QED BY <1>3, <1>4, <1>5, <2>1, Below
<1>8. pow[l] \in Nat /\ l \in 0..llevel /\ l # llevel
  BY <1>3, PowStep, LevelExists
<1>9. <<l, i \div Aggre>> \in Position
  BY <1>5, <1>7, <1>8, PositionIs
<1>10. ~isLeaf(getParent(p)) /\ getParent(p)[1] = p[1] - 1
  BY <1>3, <1>6, <1>8 DEF isLeaf
<1>11. p = Child(getParent(p), Slot(p))
  BY <1>3, <1>5, <1>6 DEF Child
<1> QED BY <1>1, <1>5, <1>6, <1>9, <1>10, <1>11 DEF Branch

\* The root is a position, and no leaf.
LEMMA RootIs == Root \in Position /\ ~isLeaf(Root) /\ Root[1] = 0
<1>1. 0 \in 0..llevel /\ 0 \in 0..(pow[0] - 1)
  BY PowStep, LevelExists
<1> QED BY <1>1, PositionIs, LevelExists DEF Root, isLeaf

\* A leaf is a position.
LEMMA LeafIs ==
    /\ \A i \in Leaves : Leaf(i) \in Position /\ isLeaf(Leaf(i)) /\ Leaf(i) # Root /\ Leaf(i)[2] = i
    /\ \A p \in Position : isLeaf(p) => p[2] \in Leaves /\ p = Leaf(p[2])
    /\ 0..(Cap - 1) \subseteq Leaves
<1>1. llevel \in 0..llevel /\ llevel # 0 /\ pow[llevel] >= Cap /\ pow[llevel] \in Nat
  BY LevelExists, PowStep
<1>2. ASSUME NEW i \in Leaves
      PROVE  Leaf(i) \in Position /\ isLeaf(Leaf(i)) /\ Leaf(i) # Root /\ Leaf(i)[2] = i
  BY <1>1, PositionIs DEF Leaf, isLeaf, Root, Leaves
<1>3. ASSUME NEW p \in Position, isLeaf(p) PROVE p[2] \in Leaves /\ p = Leaf(p[2])
  <2>1. p = <<p[1], p[2]>> /\ p[1] = llevel /\ p[2] \in 0..(pow[p[1]] - 1)
    BY <1>3, PositionIs, Zenon DEF isLeaf
  <2>2. p = Leaf(p[2])
    BY <2>1, Zenon DEF Leaf
  <2> QED BY <2>1, <2>2, Zenon DEF Leaves
<1>4. 0..(Cap - 1) \subseteq Leaves
  BY <1>1, TreeAssumption DEF Leaves
<1> QED BY <1>2, <1>3, <1>4, Zenon

\* A set of positions with the root and with the children of its members is the tree.
LEMMA FromRoot ==
    ASSUME NEW S, Root \in S, \A p \in Position \ {Root} : getParent(p) \in S => p \in S
    PROVE  Position \subseteq S
<1> DEFINE T == {n \in Nat : \A p \in Position : p[1] = n => p \in S}
<1>1. 0 \in T
  BY PositionIs, Zenon
<1>2. ASSUME NEW n \in Nat, n \in T PROVE n + 1 \in T
  <2>1. ASSUME NEW p \in Position, p[1] = n + 1 PROVE p \in S
    <3>1. p # Root
      BY <2>1, RootIs
    <3>2. getParent(p) \in Position /\ getParent(p)[1] = n
      BY <2>1, <3>1, ParentIs
    <3> QED BY <1>2, <3>1, <3>2, Zenon
  <2> QED BY <2>1
<1>3. \A n \in Nat : n \in T
  <2> HIDE DEF T
  <2> QED BY <1>1, <1>2, NatInd
<1>4. \A p \in Position : p[1] \in Nat
  BY PositionIs, LevelExists
<1> QED BY <1>3, <1>4, Zenon

\* A set of positions with the leaves and with the nodes all of whose children it has is
\* the tree.
LEMMA FromLeaves ==
    ASSUME NEW S, \A p \in Position : isLeaf(p) \/ (\A c \in Branch : Child(p, c) \in S) => p \in S
    PROVE  Position \subseteq S
<1> DEFINE T == {n \in Nat : \A p \in Position : p[1] + n = llevel => p \in S}
<1>0. llevel \in Nat /\ \A p \in Position : p[1] \in Nat /\ p[1] <= llevel
  BY PositionIs, LevelExists
<1>1. 0 \in T
  <2>1. ASSUME NEW p \in Position, p[1] + 0 = llevel PROVE isLeaf(p)
    BY <1>0, <2>1 DEF isLeaf
  <2> QED BY <2>1
<1>2. ASSUME NEW n \in Nat, n \in T PROVE n + 1 \in T
  <2>1. ASSUME NEW p \in Position, p[1] + (n + 1) = llevel PROVE p \in S
    <3>1. ~isLeaf(p)
      BY <1>0, <2>1 DEF isLeaf
    <3>2. ASSUME NEW c \in Branch PROVE Child(p, c) \in S
      <4>1. Child(p, c) \in Position /\ Child(p, c)[1] = p[1] + 1
        BY <3>1, ChildIs, Zenon
      <4>2. Child(p, c)[1] + n = llevel
        BY <1>0, <2>1, <4>1
      <4> QED BY <1>2, <4>1, <4>2, Zenon
    <3> QED BY <3>2, Zenon
  <2> QED BY <2>1
<1>3. \A n \in Nat : n \in T
  <2> HIDE DEF T
  <2> QED BY <1>1, <1>2, NatInd
<1>4. ASSUME NEW p \in Position PROVE p \in S
  <2>1. llevel - p[1] \in Nat /\ p[1] + (llevel - p[1]) = llevel
    BY <1>0
  <2> QED BY <1>3, <2>1, Zenon
<1> QED BY <1>4, Zenon

\* The function f of the positions has r at the root and at every other position what
\* G makes of the position and the value at its parent.
Descends(f, V, r, G) ==
    /\ f \in [Position -> V] /\ f[Root] = r
    /\ \A p \in Position \ {Root} : f[p] = G[<<p, f[getParent(p)]>>]

\* There is such a function.
LEMMA DownFrom ==
    ASSUME NEW V, NEW r \in V, NEW G \in [Position \X V -> V]
    PROVE  \E f : Descends(f, V, r, G)
<1> DEFINE Is(f, n) == /\ f[Root] = r
                       /\ \A p \in Position \ {Root} : p[1] <= n => f[p] = G[<<p, f[getParent(p)]>>]
           T == {n \in Nat : \E f \in [Position -> V] : Is(f, n)}
<1>0. llevel \in Nat /\ \A p \in Position : p[1] \in Nat /\ p[1] <= llevel
  BY PositionIs, LevelExists
<1>1. 0 \in T
  <2>1. [p \in Position |-> r] \in [Position -> V]
    OBVIOUS
  <2>2. [p \in Position |-> r][Root] = r
    BY RootIs
  <2>3. ASSUME NEW p \in Position \ {Root} PROVE ~(p[1] <= 0)
    BY <1>0, ParentIs
  <2>4. Is([p \in Position |-> r], 0)
    BY <2>2, <2>3, Zenon
  <2> QED BY <2>1, <2>4
<1>2. ASSUME NEW n \in Nat, n \in T PROVE n + 1 \in T
  <2>1. PICK f \in [Position -> V] : Is(f, n)
    BY <1>2, Zenon
  <2> DEFINE g == [p \in Position |->
                      IF p # Root /\ p[1] = n + 1 THEN G[<<p, f[getParent(p)]>>] ELSE f[p]]
  <2>2. g \in [Position -> V]
    <3>1. ASSUME NEW p \in Position, p # Root PROVE G[<<p, f[getParent(p)]>>] \in V
      BY <3>1, ParentIs
    <3> QED BY <3>1
  <2>3. g[Root] = r
    BY <2>1, RootIs
  <2>4. ASSUME NEW p \in Position \ {Root}, p[1] <= n + 1 PROVE g[p] = G[<<p, g[getParent(p)]>>]
    <3>1. getParent(p) \in Position /\ getParent(p)[1] = p[1] - 1 /\ getParent(p)[1] # n + 1
      BY <1>0, <2>4, ParentIs
    <3>2. g[getParent(p)] = f[getParent(p)]
      BY <3>1, Zenon
    <3>3. CASE p[1] = n + 1
      BY <3>2, <3>3, Zenon
    <3>4. CASE p[1] # n + 1
      <4>1. p[1] <= n
        BY <1>0, <2>4, <3>4
      <4>2. g[p] = f[p]
        BY <3>4, Zenon
      <4> QED BY <2>1, <4>1, <4>2, <3>2, Zenon
    <3> QED BY <3>3, <3>4, Zenon
  <2>5. n + 1 \in Nat
    OBVIOUS
  <2> HIDE DEF g
  <2>6. Is(g, n + 1)
    BY <2>3, <2>4, Zenon
  <2> HIDE DEF Is
  <2> QED BY <2>2, <2>5, <2>6, Zenon
<1>3. \A n \in Nat : n \in T
  <2> HIDE DEF T
  <2> QED BY <1>1, <1>2, NatInd
<1>4. PICK f \in [Position -> V] : Is(f, llevel)
  BY <1>0, <1>3, Zenon
<1> QED BY <1>0, <1>4, Zenon DEF Descends

\* The nodes that are reached from the root over the marks.
LEMMA ReachedIs ==
    ASSUME NEW mark
    PROVE  /\ Reached(mark) \subseteq Position /\ Root \in Reached(mark)
           /\ \A p \in Position \ {Root} :
                p \in Reached(mark) <=> Slot(p) \in mark[getParent(p)] /\ getParent(p) \in Reached(mark)
<1> DEFINE Is(f) == f = [p \in Position |->
                            p = Root \/ (Slot(p) \in mark[getParent(p)] /\ f[getParent(p)])]
           reached == CHOOSE f : Is(f)
           G == [x \in Position \X BOOLEAN |-> Slot(x[1]) \in mark[getParent(x[1])] /\ x[2]]
<1>1. G \in [Position \X BOOLEAN -> BOOLEAN]
  BY Zenon
<1>2. \A p \in Position : \A b \in BOOLEAN : G[<<p, b>>] = (Slot(p) \in mark[getParent(p)] /\ b)
  OBVIOUS
<1> HIDE DEF G
<1>0. PICK true \in BOOLEAN : true
  BY Zenon
<1>3. PICK f : Descends(f, BOOLEAN, true, G)
  BY <1>1, DownFrom, Zenon
<1>4. Is(f)
  <2>1. ASSUME NEW p \in Position
        PROVE  f[p] = (p = Root \/ (Slot(p) \in mark[getParent(p)] /\ f[getParent(p)]))
    <3>1. CASE p = Root
      BY <1>0, <1>3, <3>1, Zenon DEF Descends
    <3>2. CASE p # Root
      <4>1. f[getParent(p)] \in BOOLEAN
        BY <1>3, <3>2, ParentIs, Zenon DEF Descends
      <4> QED BY <1>2, <1>3, <3>2, <4>1, Zenon DEF Descends
    <3> QED BY <3>1, <3>2, Zenon
  <2>2. f = [p \in Position |-> f[p]]
    BY <1>3, Zenon DEF Descends
  <2> QED BY <2>1, <2>2, Zenon
<1>5. Is(reached)
  BY <1>4, Zenon
<1>6. Reached(mark) = {p \in Position : reached[p]}
  BY Zenon DEF Reached
<1> HIDE DEF reached
<1>7. \A p \in Position : reached[p] <=> p = Root \/ (Slot(p) \in mark[getParent(p)] /\ reached[getParent(p)])
  BY <1>5, Zenon
<1> HIDE DEF Is
<1>8. Reached(mark) \subseteq Position /\ Root \in Reached(mark)
  BY <1>6, <1>7, RootIs, Zenon
<1>9. ASSUME NEW p \in Position \ {Root}
      PROVE  p \in Reached(mark) <=> Slot(p) \in mark[getParent(p)] /\ getParent(p) \in Reached(mark)
  <2>1. getParent(p) \in Position
    BY ParentIs, Zenon
  <2> QED BY <1>6, <1>7, <2>1, Zenon
<1> QED BY <1>8, <1>9, Zenon

\* What MerkleNode.computeHash returns at each node.
LEMMA HashOfIs ==
    ASSUME NEW mark, NEW leaf
    PROVE  \A p \in Position : HashOf(mark, leaf)[p] =
              IF isLeaf(p) THEN leaf[p[2]]
              ELSE Sha("node", [c \in Branch |-> IF c \in mark[p] THEN HashOf(mark, leaf)[Child(p, c)]
                                                 ELSE Children[p][c]])
<1> DEFINE At(f, p) == IF isLeaf(p) THEN leaf[p[2]]
                       ELSE Sha("node", [c \in Branch |-> IF c \in mark[p] THEN f[Child(p, c)]
                                                          ELSE Children[p][c]])
           Is(f, n) == f = [p \in Position |-> f[p]]
                       /\ \A p \in Position : p[1] + n >= llevel => f[p] = At(f, p)
           T == {n \in Nat : \E f : Is(f, n)}
<1>0. llevel \in Nat /\ \A p \in Position : p[1] \in Nat /\ p[1] <= llevel
  BY PositionIs, LevelExists
<1>1. 0 \in T
  <2> DEFINE g == [p \in Position |-> leaf[p[2]]]
  <2>1. ASSUME NEW p \in Position, p[1] + 0 >= llevel PROVE isLeaf(p)
    BY <1>0, <2>1 DEF isLeaf
  <2>2. \A p \in Position : p[1] + 0 >= llevel => g[p] = At(g, p)
    BY <2>1, Zenon
  <2>3. g = [p \in Position |-> g[p]]
    BY Zenon
  <2> HIDE DEF g, At
  <2>4. Is(g, 0)
    BY <2>2, <2>3, Zenon
  <2> QED BY <2>4
<1>2. ASSUME NEW n \in Nat, n \in T PROVE n + 1 \in T
  <2>1. PICK f : Is(f, n)
    BY <1>2, Zenon
  <2> DEFINE g == [p \in Position |-> IF p[1] + n >= llevel THEN f[p] ELSE At(f, p)]
  <2>2. ASSUME NEW p \in Position, p[1] + (n + 1) >= llevel PROVE g[p] = At(g, p)
    <3>1. g[p] = At(f, p)
      BY <2>1, Zenon
    <3>2. ASSUME NEW c \in Branch, ~isLeaf(p) PROVE g[Child(p, c)] = f[Child(p, c)]
      <4>1. Child(p, c) \in Position /\ Child(p, c)[1] = p[1] + 1
        BY <3>2, ChildIs, Zenon
      <4>2. Child(p, c)[1] + n >= llevel
        BY <1>0, <2>2, <4>1
      <4> QED BY <4>1, <4>2, Zenon
    <3> HIDE DEF g
    <3>3. ~isLeaf(p) => [c \in Branch |-> IF c \in mark[p] THEN f[Child(p, c)] ELSE Children[p][c]]
                        = [c \in Branch |-> IF c \in mark[p] THEN g[Child(p, c)] ELSE Children[p][c]]
      BY <3>2, Zenon
    <3>4. At(f, p) = At(g, p)
      BY <3>3, Zenon
    <3> HIDE DEF At
    <3> QED BY <3>1, <3>4, Zenon
  <2>3. g = [p \in Position |-> g[p]]
    BY Zenon
  <2>4. n + 1 \in Nat
    OBVIOUS
  <2> HIDE DEF g, At
  <2>5. Is(g, n + 1)
    BY <2>2, <2>3, Zenon
  <2> HIDE DEF Is
  <2> QED BY <2>4, <2>5, Zenon
<1>3. \A n \in Nat : n \in T
  <2> HIDE DEF T
  <2> QED BY <1>1, <1>2, NatInd
<1>4. PICK f : Is(f, llevel)
  BY <1>0, <1>3, Zenon
<1>5. \A p \in Position : p[1] + llevel >= llevel
  BY <1>0
<1>6. f = [p \in Position |-> At(f, p)]
  <2> HIDE DEF At
  <2> QED BY <1>4, <1>5, Zenon
<1> DEFINE hash == CHOOSE h : h = [p \in Position |-> At(h, p)]
<1>7. hash = [p \in Position |-> At(hash, p)]
  <2> HIDE DEF At
  <2> QED BY <1>6, Zenon
<1>8. HashOf(mark, leaf) = hash
  BY Zenon DEF HashOf
<1> HIDE DEF hash
<1> QED BY <1>7, <1>8, Zenon

----------------------------------------------------------------------------
(* The way from a leaf to the root. *)

\* The node of level l above the leaf i.
Above(i, l) == <<l, i \div pow[llevel - l]>>

\* p is above a leaf of S.
Under(p, S) == \E i \in S : p = Above(i, p[1])

\* A node above a leaf is a position, and its parent is the next one above.
LEMMA AboveIs ==
    ASSUME NEW i \in Leaves
    PROVE  /\ Above(i, llevel) = Leaf(i)
           /\ \A l \in 0..llevel : Above(i, l) \in Position
           /\ \A l \in 1..llevel : getParent(Above(i, l)) = Above(i, l - 1)
<1>0. llevel \in Nat /\ i \in Nat /\ Aggre \in Nat /\ Aggre > 0
  <2>1. pow[llevel] \in Nat
    BY LevelExists, PowStep
  <2> QED BY <2>1, LevelExists, TreeAssumption DEF Leaves
<1>1. Above(i, llevel) = Leaf(i)
  <2>1. pow[llevel - llevel] = 1
    BY <1>0, PowStep
  <2>2. i \div 1 = i
    BY <1>0
  <2> QED BY <2>1, <2>2, Zenon DEF Above, Leaf
<1>2. ASSUME NEW l \in 1..llevel PROVE getParent(Above(i, l)) = Above(i, l - 1)
  <2>1. PICK k \in Nat : k = llevel - l /\ k + 1 = llevel - (l - 1)
    BY <1>0
  <2>2. pow[k] \in Nat /\ pow[k] > 0 /\ pow[k + 1] = Aggre * pow[k]
    BY PowStep
  <2>3. (i \div pow[k]) \div Aggre = i \div (pow[k] * Aggre)
    BY <1>0, <2>2, DivisionTwice
  <2>4. pow[k] * Aggre = Aggre * pow[k]
    BY <1>0, <2>2
  <2>5. Above(i, l) = <<l, i \div pow[k]>> /\ Above(i, l - 1) = <<l - 1, i \div pow[k + 1]>>
    BY <2>1, Zenon DEF Above
  <2>6. getParent(<<l, i \div pow[k]>>) = <<l - 1, (i \div pow[k]) \div Aggre>>
    BY DEF getParent
  <2> QED BY <2>2, <2>3, <2>4, <2>5, <2>6, Zenon
<1>3. \A l \in 0..llevel : Above(i, l) \in Position
  <2> DEFINE T == {n \in Nat : n <= llevel => Above(i, llevel - n) \in Position}
  <2>1. 0 \in T
    BY <1>0, <1>1, LeafIs
  <2>2. ASSUME NEW n \in Nat, n \in T PROVE n + 1 \in T
    <3> SUFFICES ASSUME n + 1 <= llevel PROVE Above(i, llevel - (n + 1)) \in Position
      OBVIOUS
    <3>1. PICK l \in 1..llevel : l = llevel - n /\ l - 1 = llevel - (n + 1)
      BY <1>0
    <3>2. Above(i, l) \in Position
      BY <1>0, <2>2, <3>1
    <3>3. Above(i, l)[1] # 0
      BY DEF Above
    <3>4. getParent(Above(i, l)) \in Position
      BY <3>2, <3>3, RootIs, ParentIs, Zenon
    <3> QED BY <1>2, <3>1, <3>4, Zenon
  <2>3. \A n \in Nat : n \in T
    <3> HIDE DEF T
    <3> QED BY <2>1, <2>2, NatInd
  <2>4. ASSUME NEW l \in 0..llevel PROVE Above(i, l) \in Position
    <3>1. PICK n \in Nat : n <= llevel /\ llevel - n = l
      <4>1. llevel - l \in Nat /\ llevel - l <= llevel /\ llevel - (llevel - l) = l
        BY <1>0
      <4> QED BY <4>1, Zenon
    <3> QED BY <2>3, <3>1, Zenon
  <2> QED BY <2>4, Zenon
<1> QED BY <1>1, <1>2, <1>3, Zenon

\* What is above a leaf: the leaf, the parent of what is, and one of the children of what
\* is.
LEMMA UnderIs ==
    ASSUME NEW S \in SUBSET Leaves
    PROVE  /\ \A i \in Leaves : Under(Leaf(i), S) <=> i \in S
           /\ \A p \in Position \ {Root} : Under(p, S) => Under(getParent(p), S)
           /\ \A p \in Position : ~isLeaf(p) /\ Under(p, S) => \E c \in Branch : Under(Child(p, c), S)
<1>0. llevel \in Nat /\ \A p \in Position : p[1] \in Nat /\ p[1] <= llevel
  BY PositionIs, LevelExists
<1>1. ASSUME NEW i \in Leaves PROVE Under(Leaf(i), S) <=> i \in S
  <2>1. Leaf(i)[1] = llevel /\ \A j \in Leaves : Leaf(i) = Leaf(j) => i = j
    BY DEF Leaf
  <2> QED BY <2>1, AboveIs, Zenon DEF Under
<1>2. ASSUME NEW p \in Position \ {Root}, Under(p, S) PROVE Under(getParent(p), S)
  <2>1. PICK i \in S : p = Above(i, p[1])
    BY <1>2, Zenon DEF Under
  <2>2. p[1] \in 1..llevel /\ getParent(p)[1] = p[1] - 1
    BY <1>0, ParentIs
  <2>3. getParent(p) = Above(i, p[1] - 1)
    BY <2>1, <2>2, AboveIs, Zenon
  <2> QED BY <2>2, <2>3, Zenon DEF Under
<1>3. ASSUME NEW p \in Position, ~isLeaf(p), Under(p, S) PROVE \E c \in Branch : Under(Child(p, c), S)
  <2>1. PICK i \in S : p = Above(i, p[1])
    BY <1>3, Zenon DEF Under
  <2>2. p[1] + 1 \in 1..llevel /\ p[1] + 1 \in 0..llevel /\ (p[1] + 1) - 1 = p[1]
    BY <1>0, <1>3 DEF isLeaf
  <2> DEFINE q == Above(i, p[1] + 1)
  <2>3. q \in Position /\ getParent(q) = p
    BY <2>1, <2>2, AboveIs, Zenon
  <2>4. q[1] = p[1] + 1
    BY DEF Above
  <2>5. q # Root
    BY <1>0, <2>4, RootIs
  <2>6. Under(q, S)
    BY <2>4, Zenon DEF Under
  <2> HIDE DEF q
  <2>7. Slot(q) \in Branch /\ q = Child(p, Slot(q))
    BY <2>3, <2>5, ParentIs, Zenon
  <2> QED BY <2>6, <2>7, Zenon
<1> QED BY <1>1, <1>2, <1>3, Zenon

\* Over the marks on the ways to the leaves of S the root and what is above S is reached.
LEMMA ReachedUnder ==
    ASSUME NEW S \in SUBSET Leaves, NEW mark,
           \A p \in Position : mark[p] = {c \in Branch : ~isLeaf(p) /\ Under(Child(p, c), S)}
    PROVE  \A p \in Position : p \in Reached(mark) <=> p = Root \/ Under(p, S)
<1> DEFINE T == {p \in Position : p \in Reached(mark) <=> p = Root \/ Under(p, S)}
<1>1. Root \in T
  BY RootIs, ReachedIs, Zenon
<1>2. ASSUME NEW p \in Position \ {Root}, getParent(p) \in T PROVE p \in T
  <2>1. /\ getParent(p) \in Position /\ ~isLeaf(getParent(p))
        /\ Slot(p) \in Branch /\ p = Child(getParent(p), Slot(p))
    BY ParentIs, Zenon
  <2>2. Slot(p) \in mark[getParent(p)] <=> Under(p, S)
    BY <2>1, Zenon
  <2>3. p \in Reached(mark) <=> Slot(p) \in mark[getParent(p)] /\ getParent(p) \in Reached(mark)
    BY ReachedIs, Zenon
  <2>4. Under(p, S) => Under(getParent(p), S)
    BY UnderIs, Zenon
  <2> QED BY <1>2, <2>2, <2>3, <2>4, Zenon
<1> HIDE DEF T
<1>3. Position \subseteq T
  BY <1>1, <1>2, FromRoot, Zenon
<1> QED BY <1>3, Zenon DEF T

----------------------------------------------------------------------------
(* The invariant. *)

NilKids == [c \in Branch |-> NilHash]

\* In a tree in memory every node has the hashes of its children, and is hashed from them
\* or has no hash and no child with one.
Linked ==
    \A p \in Position :
        /\ Children[p] = [c \in Branch |-> Children[p][c]]
        /\ ~isLeaf(p) =>
            /\ \A c \in Branch : Children[p][c] = H[Child(p, c)]
            /\ H[p] # NilHash => H[p] = Sha("node", Children[p])
            /\ H[p] = NilHash => Children[p] = NilKids

\* The leaves that have a hash.
Used == {i \in Leaves : H[Leaf(i)] # NilHash}

\* In a tree begun empty the nodes with a hash are those above the leaves with a hash, and
\* so are the dirty ones, since no dirty flag is ever cleared.
Paths ==
    \A p \in Position :
        /\ p # Root => (H[p] # NilHash <=> Under(p, Used))
        /\ nodeDirty[p] = {c \in Branch : ~isLeaf(p) /\ Under(Child(p, c), Used)}
        /\ isLeaf(p) => Children[p] = NilKids

\* Its leaves have the hashes of its buckets, and no other.
LeafHashes ==
    \A i \in Leaves :
        /\ H[Leaf(i)] # NilHash => H[Leaf(i)] = Sha("bucket", H[Leaf(i)][2])
        /\ IF i \in DOMAIN buckets THEN buckets[i].H = H[Leaf(i)] ELSE H[Leaf(i)] = NilHash

\* All its buckets are in memory, and what is not touched is new and empty, or hashed and
\* put into the batch of an earlier commit.
Table ==
    /\ DOMAIN bucketHash = 0..(Cap - 1)
    /\ \A i \in 0..(Cap - 1) : i \notin DOMAIN buckets => bucketHash[i] = NilHash
    /\ \A i \in DOMAIN buckets :
        /\ buckets[i] = [H |-> buckets[i].H, Slots |-> buckets[i].Slots]
        /\ \/ i \in touched
           \/ buckets[i].H = NilHash /\ buckets[i].Slots = <<>>
           \/ /\ buckets[i].H = computeHash(buckets[i].Slots)
              /\ buckets[i].H \in DOMAIN batch.bucket \cup DOMAIN disk.bucket \cup lost

\* What is stored under a hash are the children that were hashed; a leaf has none.
IsNode(h, kids) ==
    \/ h = Sha("node", kids) /\ kids = [c \in Branch |-> kids[c]]
    \/ h = Sha("bucket", h[2]) /\ kids = NilKids

\* h is the tree that the stored nodes N give for a root, and its leaves are the table.
Unfolds(h, N, root, table) ==
    /\ h[Root] = root /\ root # NilHash
    /\ \A p \in Position :
        /\ h[p] # NilHash => h[p] \in DOMAIN N
        /\ ~isLeaf(p) =>
            IF h[p] = NilHash THEN \A c \in Branch : h[Child(p, c)] = NilHash
            ELSE h[p] = Sha("node", N[h[p]]) /\ \A c \in Branch : h[Child(p, c)] = N[h[p]][c]
    /\ \A i \in 0..(Cap - 1) : table[i] = h[Leaf(i)]

\* A batch or a database has every node below each of its roots, and of each table that
\* goes with a root every bucket is in B.
Closed(db, B) ==
    /\ DOMAIN db = {"node", "bucket", "table"}
    /\ \A h \in DOMAIN db.node : IsNode(h, db.node[h])
    /\ \A root \in DOMAIN db.table :
        /\ \E h : Unfolds(h, db.node, root, db.table[root])
        /\ \A i \in 0..(Cap - 1) : db.table[root][i] = NilHash \/ db.table[root][i] \in B

Inv ==
    /\ TypeOK
    /\ Closed(disk, DOMAIN disk.bucket \cup lost)
    /\ Closed(batch, DOMAIN batch.bucket \cup DOMAIN disk.bucket \cup lost)
    /\ mode \in {"fresh", "loaded"} => Linked
    /\ mode = "fresh" => Paths /\ LeafHashes /\ Table
    /\ mode = "loaded" => touched = {} /\ (\A p \in Position : nodeDirty[p] = {}) /\ Recovered

----------------------------------------------------------------------------
(* Process. *)

\* A hash of a node, a hash of a bucket and no hash are different.
LEMMA HashKinds ==
    /\ \A x : Sha("node", x) # NilHash /\ Sha("bucket", x) # NilHash
    /\ \A x, y : Sha("node", x) # Sha("bucket", y)
    /\ \A x, y : Sha("node", x) = Sha("node", y) => x = y
    /\ \A s : computeHash(s) = Sha("bucket", computeHash(s)[2])
<1>1. /\ \A x : Sha("node", x) # NilHash /\ Sha("bucket", x) # NilHash
      /\ \A x, y : Sha("node", x) # Sha("bucket", y)
      /\ \A x, y : Sha("node", x) = Sha("node", y) => x = y
  BY DEF Sha, NilHash
<1>2. ASSUME NEW s PROVE computeHash(s) = Sha("bucket", computeHash(s)[2])
  <2>1. PICK x : computeHash(s) = Sha("bucket", x)
    BY Zenon DEF computeHash
  <2>2. Sha("bucket", x)[2] = x
    BY DEF Sha
  <2> QED BY <2>1, <2>2, Zenon
<1> QED BY <1>1, <1>2, Zenon

\* The marks that Process goes by, and the hashes of the leaves.
Marks == [p \in Position |-> Marked(p)]
LeafOf(hashed) == [i \in Leaves |-> IF i \in touched THEN hashed[i].H ELSE H[Leaf(i)]]

\* What Process leaves at each node.
LEMMA ProcessedIs ==
    ASSUME NEW hashed, Processed(hashed)
    PROVE  LET hash == HashOf(Marks, LeafOf(hashed)) IN
           /\ nodeDirty' = Marks
           /\ \A p \in Position :
                /\ H'[p] = IF p \in Reached(Marks) \/ isLeaf(p) THEN hash[p] ELSE H[p]
                /\ Children'[p] = [c \in Branch |-> IF p \in Reached(Marks) /\ c \in Marks[p]
                                                    THEN hash[Child(p, c)] ELSE Children[p][c]]
                /\ isLeaf(p) => hash[p] = IF p[2] \in touched THEN hashed[p[2]].H ELSE H[p]
                /\ ~isLeaf(p) => hash[p] = Sha("node", [c \in Branch |->
                        IF c \in Marks[p] THEN hash[Child(p, c)] ELSE Children[p][c]])
<1> DEFINE hash == HashOf(Marks, LeafOf(hashed))
<1>1. /\ nodeDirty' = Marks
      /\ H' = [p \in Position |-> IF p \in Reached(Marks) \/ isLeaf(p) THEN hash[p] ELSE H[p]]
      /\ Children' = [p \in Position |-> [c \in Branch |->
              IF p \in Reached(Marks) /\ c \in Marks[p] THEN hash[Child(p, c)] ELSE Children[p][c]]]
  BY Zenon DEF Processed, Marks, LeafOf, Leaves
<1>2. \A p \in Position : hash[p] =
          IF isLeaf(p) THEN LeafOf(hashed)[p[2]]
          ELSE Sha("node", [c \in Branch |-> IF c \in Marks[p] THEN hash[Child(p, c)]
                                             ELSE Children[p][c]])
  BY HashOfIs, Zenon
<1> HIDE DEF hash
<1>3. ASSUME NEW p \in Position, isLeaf(p)
      PROVE  hash[p] = IF p[2] \in touched THEN hashed[p[2]].H ELSE H[p]
  <2>1. p[2] \in Leaves /\ p = Leaf(p[2])
    BY <1>3, LeafIs, Zenon
  <2> QED BY <1>2, <1>3, <2>1, Zenon DEF LeafOf
<1>4. \A p \in Position :
        /\ H'[p] = IF p \in Reached(Marks) \/ isLeaf(p) THEN hash[p] ELSE H[p]
        /\ Children'[p] = [c \in Branch |-> IF p \in Reached(Marks) /\ c \in Marks[p]
                                            THEN hash[Child(p, c)] ELSE Children[p][c]]
  BY <1>1, Zenon
<1>5. \A p \in Position : ~isLeaf(p) => hash[p] = Sha("node", [c \in Branch |->
                        IF c \in Marks[p] THEN hash[Child(p, c)] ELSE Children[p][c]])
  BY <1>2, Zenon
<1> QED BY <1>1, <1>3, <1>4, <1>5, Zenon DEF hash

\* Process keeps the nodes linked when it reaches every touched leaf, and every node it
\* reaches has a hash afterwards.
LEMMA ProcessedLinked ==
    ASSUME NEW hashed, Processed(hashed), Linked,
           \A i \in touched : i \in Leaves => Leaf(i) \in Reached(Marks)
    PROVE  /\ Linked'
           /\ \A p \in Position : p \in Reached(Marks) /\ ~isLeaf(p) => H'[p] # NilHash
           /\ \A p \in Position : p \notin Reached(Marks) => H'[p] = H[p]
<1> DEFINE hash == HashOf(Marks, LeafOf(hashed))
           reached == Reached(Marks)
<1>0. \A p \in Position :
        /\ H'[p] = IF p \in reached \/ isLeaf(p) THEN hash[p] ELSE H[p]
        /\ Children'[p] = [c \in Branch |-> IF p \in reached /\ c \in Marks[p]
                                            THEN hash[Child(p, c)] ELSE Children[p][c]]
        /\ isLeaf(p) => hash[p] = IF p[2] \in touched THEN hashed[p[2]].H ELSE H[p]
        /\ ~isLeaf(p) => hash[p] = Sha("node", [c \in Branch |->
                IF c \in Marks[p] THEN hash[Child(p, c)] ELSE Children[p][c]])
  BY ProcessedIs, Zenon
<1>1. ASSUME NEW p \in Position, ~isLeaf(p), NEW c \in Branch
      PROVE  Child(p, c) \in Position /\ (Child(p, c) \in reached <=> c \in Marks[p] /\ p \in reached)
  <2>1. Child(p, c) \in Position \ {Root} /\ getParent(Child(p, c)) = p /\ Slot(Child(p, c)) = c
    BY <1>1, ChildIs, Zenon
  <2>2. Child(p, c) \in reached <=> Slot(Child(p, c)) \in Marks[getParent(Child(p, c))]
                                   /\ getParent(Child(p, c)) \in reached
    BY <2>1, ReachedIs, Zenon
  <2> QED BY <2>1, <2>2, Zenon
<1> HIDE DEF hash, reached
<1>2. ASSUME NEW p \in Position, p \notin reached PROVE H'[p] = H[p]
  <2>1. CASE isLeaf(p)
    <3>1. p[2] \in Leaves /\ p = Leaf(p[2])
      BY <2>1, LeafIs, Zenon
    <3>2. p[2] \notin touched
      BY <1>2, <3>1, Zenon DEF reached
    <3> QED BY <1>0, <2>1, <3>2, Zenon
  <2>2. CASE ~isLeaf(p)
    BY <1>0, <1>2, <2>2, Zenon
  <2> QED BY <2>1, <2>2, Zenon
<1>3. ASSUME NEW p \in Position PROVE Children'[p] = [c \in Branch |-> Children'[p][c]]
  BY <1>0, Zenon
<1>4. ASSUME NEW p \in Position, ~isLeaf(p), NEW c \in Branch
      PROVE  Children'[p][c] = H'[Child(p, c)]
  <2>0. Children'[p][c] = IF p \in reached /\ c \in Marks[p]
                          THEN hash[Child(p, c)] ELSE Children[p][c]
    <3>1. Children'[p] = [d \in Branch |-> IF p \in reached /\ d \in Marks[p]
                                            THEN hash[Child(p, d)] ELSE Children[p][d]]
      BY <1>0, Zenon
    <3> QED BY <3>1, Zenon
  <2>1. CASE Child(p, c) \in reached
    <3>1. H'[Child(p, c)] = hash[Child(p, c)]
      BY <1>0, <1>1, <1>4, <2>1, Zenon
    <3>2. Children'[p][c] = hash[Child(p, c)]
      BY <2>0, <1>1, <1>4, <2>1, Zenon
    <3> QED BY <3>1, <3>2, Zenon
  <2>2. CASE Child(p, c) \notin reached
    <3>1. H'[Child(p, c)] = H[Child(p, c)]
      BY <1>1, <1>2, <1>4, <2>2, Zenon
    <3>2. Children'[p][c] = Children[p][c]
      BY <2>0, <1>1, <1>4, <2>2, Zenon
    <3>3. Children[p][c] = H[Child(p, c)]
      BY <1>4, Zenon DEF Linked
    <3> QED BY <3>1, <3>2, <3>3, Zenon
  <2> QED BY <2>1, <2>2, Zenon
<1>5. ASSUME NEW p \in Position, ~isLeaf(p), p \in reached
      PROVE  H'[p] = Sha("node", Children'[p]) /\ H'[p] # NilHash
  <2>1. H'[p] = hash[p] /\ Children'[p] = [c \in Branch |-> IF c \in Marks[p]
                                            THEN hash[Child(p, c)] ELSE Children[p][c]]
    BY <1>0, <1>5, Zenon
  <2>2. H'[p] = Sha("node", Children'[p])
    BY <1>0, <1>5, <2>1, Zenon
  <2> QED BY <2>2, HashKinds, Zenon
<1>6. ASSUME NEW p \in Position, ~isLeaf(p), p \notin reached
      PROVE  /\ H'[p] # NilHash => H'[p] = Sha("node", Children'[p])
             /\ H'[p] = NilHash => Children'[p] = NilKids
  <2>1. H'[p] = H[p]
    BY <1>2, <1>6, Zenon
  <2>2. Children'[p] = [c \in Branch |-> Children[p][c]]
    BY <1>0, <1>6, Zenon
  <2>3. /\ Children[p] = [c \in Branch |-> Children[p][c]]
        /\ H[p] # NilHash => H[p] = Sha("node", Children[p])
        /\ H[p] = NilHash => Children[p] = NilKids
    BY <1>6, Zenon DEF Linked
  <2> QED BY <2>1, <2>2, <2>3, Zenon
<1>7. Linked'
  <2>1. ASSUME NEW p \in Position, ~isLeaf(p)
        PROVE  /\ H'[p] # NilHash => H'[p] = Sha("node", Children'[p])
               /\ H'[p] = NilHash => Children'[p] = NilKids
    BY <1>5, <1>6, <2>1, Zenon
  <2> QED BY <1>3, <1>4, <2>1, Zenon DEF Linked, NilKids, Branch, Position, isLeaf, Child, Sha, NilHash
<1>8. \A p \in Position : p \in reached /\ ~isLeaf(p) => H'[p] # NilHash
  BY <1>5, Zenon
<1> QED BY <1>2, <1>7, <1>8, Zenon DEF reached

\* The buckets after processNodes.
LEMMA HashedIs ==
    ASSUME Table, buckets' = Hashed
    PROVE  /\ DOMAIN buckets' = DOMAIN buckets
           /\ \A i \in DOMAIN buckets :
                /\ buckets'[i] = [H |-> buckets'[i].H, Slots |-> buckets'[i].Slots]
                /\ i \in touched => buckets'[i].H = computeHash(buckets'[i].Slots)
                /\ i \notin touched => buckets'[i] = buckets[i]
<1>1. DOMAIN buckets' = DOMAIN buckets
  BY Zenon DEF Hashed
<1>2. ASSUME NEW i \in DOMAIN buckets, i \in touched
      PROVE  /\ buckets'[i] = [H |-> buckets'[i].H, Slots |-> buckets'[i].Slots]
             /\ buckets'[i].H = computeHash(buckets'[i].Slots)
  <2>1. buckets'[i] = [buckets[i] EXCEPT !.H = computeHash(buckets[i].Slots)]
    BY <1>2, Zenon DEF Hashed
  <2>2. buckets[i] = [H |-> buckets[i].H, Slots |-> buckets[i].Slots]
    BY Zenon DEF Table
  <2>3. PICK h, slots : buckets[i] = [H |-> h, Slots |-> slots]
    BY <2>2, Zenon
  <2>4. buckets'[i] = [H |-> computeHash(slots), Slots |-> slots]
    BY <2>1, <2>3
  <2> QED BY <2>4
<1>3. ASSUME NEW i \in DOMAIN buckets, i \notin touched PROVE buckets'[i] = buckets[i]
  BY <1>3, Zenon DEF Hashed
<1>4. ASSUME NEW i \in DOMAIN buckets, i \notin touched
      PROVE  buckets'[i] = [H |-> buckets'[i].H, Slots |-> buckets'[i].Slots]
  BY <1>3, <1>4, Zenon DEF Table
<1> QED BY <1>1, <1>2, <1>3, <1>4, Zenon

\* Process on a tree begun empty: the touched leaves get their hashes, and what is reached
\* from the root is what is above a leaf with a hash.
LEMMA ProcessedFresh ==
    ASSUME TypeOK, Linked, Paths, LeafHashes, Table, buckets' = Hashed, Processed(buckets')
    PROVE  /\ Linked' /\ Paths' /\ LeafHashes'
           /\ \A p \in Position : p \in Reached(nodeDirty') <=> p = Root \/ Under(p, Used')
           /\ H'[Root] # NilHash
<1> DEFINE S == Used \cup touched
<1>0. /\ touched \subseteq DOMAIN buckets /\ touched \subseteq Leaves
      /\ Used \subseteq Leaves /\ S \in SUBSET Leaves
  BY LeafIs, Zenon DEF TypeOK, Used
<1>1. \A p \in Position : Marks[p] = {c \in Branch : ~isLeaf(p) /\ Under(Child(p, c), S)}
  <2>1. ASSUME NEW p \in Position
        PROVE  Marks[p] = {c \in Branch : ~isLeaf(p) /\ Under(Child(p, c), S)}
    <3>1. Marks[p] = nodeDirty[p] \cup {c \in Branch : ~isLeaf(p) /\ \E i \in touched :
              Child(p, c) = <<p[1] + 1, i \div pow[llevel - p[1] - 1]>>}
      BY Zenon DEF Marks, Marked
    <3>2. nodeDirty[p] = {c \in Branch : ~isLeaf(p) /\ Under(Child(p, c), Used)}
      BY Zenon DEF Paths
    <3>3. ASSUME NEW c \in Branch, ~isLeaf(p)
          PROVE  (\E i \in touched : Child(p, c) = <<p[1] + 1, i \div pow[llevel - p[1] - 1]>>)
                 <=> Under(Child(p, c), touched)
      <4>1. Child(p, c)[1] = p[1] + 1
        BY <3>3, ChildIs, Zenon
      <4>2. llevel - (p[1] + 1) = llevel - p[1] - 1
        BY PositionIs, LevelExists
      <4> QED BY <4>1, <4>2, Zenon DEF Under, Above
    <3>4. \A c \in Branch : Under(Child(p, c), S)
                            <=> Under(Child(p, c), Used) \/ Under(Child(p, c), touched)
      BY Zenon DEF Under
    <3> HIDE DEF S
    <3> QED BY <3>1, <3>2, <3>3, <3>4, Zenon
  <2> QED BY <2>1, Zenon
<1>2. \A p \in Position : p \in Reached(Marks) <=> p = Root \/ Under(p, S)
  <2> HIDE DEF S
  <2> QED BY <1>0, <1>1, ReachedUnder, Zenon
<1>3. \A i \in touched : i \in Leaves => Leaf(i) \in Reached(Marks)
  BY <1>0, <1>2, UnderIs, LeafIs, Zenon
<1>4. /\ Linked'
      /\ \A p \in Position : p \in Reached(Marks) /\ ~isLeaf(p) => H'[p] # NilHash
      /\ \A p \in Position : p \notin Reached(Marks) => H'[p] = H[p]
  BY <1>3, ProcessedLinked, Zenon
<1>5. ASSUME NEW i \in Leaves
      PROVE  H'[Leaf(i)] = IF i \in touched THEN buckets'[i].H ELSE H[Leaf(i)]
  <2>1. Leaf(i) \in Position /\ isLeaf(Leaf(i)) /\ Leaf(i)[2] = i
    BY LeafIs, Zenon
  <2>2. H'[Leaf(i)] = HashOf(Marks, LeafOf(buckets'))[Leaf(i)]
    BY <2>1, ProcessedIs, Zenon
  <2>3. HashOf(Marks, LeafOf(buckets'))[Leaf(i)]
          = IF Leaf(i)[2] \in touched THEN buckets'[Leaf(i)[2]].H ELSE H[Leaf(i)]
    BY <2>1, ProcessedIs, Zenon
  <2> QED BY <2>1, <2>2, <2>3, Zenon
<1>6. ASSUME NEW i \in Leaves, i \in touched
      PROVE  H'[Leaf(i)] = buckets'[i].H /\ H'[Leaf(i)] = Sha("bucket", H'[Leaf(i)][2])
  <2>1. buckets'[i].H = computeHash(buckets'[i].Slots)
    BY <1>0, <1>6, HashedIs, Zenon
  <2> QED BY <1>5, <1>6, <2>1, HashKinds, Zenon
<1>15. ASSUME NEW i \in Leaves PROVE H'[Leaf(i)] # NilHash <=> i \in S
  <2>1. CASE i \in touched
    BY <1>6, <2>1, HashKinds, Zenon
  <2>2. CASE i \notin touched
    BY <1>5, <2>2, Zenon DEF Used
  <2> QED BY <2>1, <2>2, Zenon
<1>7. Used' = S
  BY <1>0, <1>15, Zenon DEF Used
<1> HIDE DEF S
<1>8. LeafHashes'
  <2>1. ASSUME NEW i \in Leaves
        PROVE  /\ H'[Leaf(i)] # NilHash => H'[Leaf(i)] = Sha("bucket", H'[Leaf(i)][2])
               /\ IF i \in DOMAIN buckets' THEN buckets'[i].H = H'[Leaf(i)] ELSE H'[Leaf(i)] = NilHash
    <3>1. CASE i \in touched
      BY <1>0, <1>6, <3>1, HashedIs, Zenon
    <3>2. CASE i \notin touched
      <4>1. H'[Leaf(i)] = H[Leaf(i)]
        BY <1>5, <3>2, Zenon
      <4>2. DOMAIN buckets' = DOMAIN buckets /\ (i \in DOMAIN buckets => buckets'[i] = buckets[i])
        BY <3>2, HashedIs, Zenon
      <4> QED BY <4>1, <4>2, Zenon DEF LeafHashes
    <3> QED BY <3>1, <3>2, Zenon
  <2> QED BY <2>1, Zenon DEF LeafHashes, Leaves, Leaf, NilHash, Sha
<1>9. ASSUME NEW p \in Position, p # Root PROVE H'[p] # NilHash <=> Under(p, S)
  <2>1. CASE isLeaf(p)
    <3>1. PICK i \in Leaves : p = Leaf(i)
      BY <2>1, LeafIs, Zenon
    <3>2. H'[p] # NilHash <=> i \in S
      BY <1>15, <3>1, Zenon
    <3>3. Under(p, S) <=> i \in S
      BY <1>0, <3>1, UnderIs, Zenon
    <3> QED BY <3>2, <3>3, Zenon
  <2>2. CASE ~isLeaf(p) /\ Under(p, S)
    BY <1>2, <1>4, <2>2, Zenon
  <2>3. CASE ~isLeaf(p) /\ ~Under(p, S)
    <3>1. H'[p] = H[p]
      BY <1>2, <1>4, <1>9, <2>3, Zenon
    <3>2. ~Under(p, Used)
      BY <2>3, Zenon DEF Under, S
    <3>3. H[p] = NilHash
      BY <1>9, <3>2, Zenon DEF Paths
    <3> QED BY <2>3, <3>1, <3>3, Zenon
  <2> QED BY <2>1, <2>2, <2>3, Zenon
<1>10. nodeDirty' = Marks
  BY ProcessedIs, Zenon
<1>11. ASSUME NEW p \in Position, isLeaf(p) PROVE Children'[p] = NilKids
  <2>1. Marks[p] = {}
    BY <1>1, <1>11, Zenon
  <2>2. Children'[p] = [c \in Branch |-> Children[p][c]]
    BY <2>1, ProcessedIs, Zenon
  <2>3. Children[p] = NilKids
    BY <1>11, Zenon DEF Paths
  <2> QED BY <2>2, <2>3, Zenon DEF NilKids
<1>12. Paths'
  BY <1>1, <1>7, <1>9, <1>10, <1>11, Zenon DEF Paths
<1>13. \A p \in Position : p \in Reached(nodeDirty') <=> p = Root \/ Under(p, Used')
  BY <1>2, <1>7, <1>10, Zenon
<1>14. H'[Root] # NilHash
  BY <1>2, <1>4, RootIs, Zenon
<1> QED BY <1>4, <1>8, <1>12, <1>13, <1>14, Zenon

----------------------------------------------------------------------------
(* The batch and the database. *)

\* A hash tells what is stored under it.
LEMMA NodeOnce ==
    ASSUME NEW h, NEW a, NEW b, IsNode(h, a), IsNode(h, b)
    PROVE  a = b
BY HashKinds, Zenon DEF IsNode

\* More nodes do not change the tree of a root.
LEMMA UnfoldsMore ==
    ASSUME NEW h, NEW N, NEW M, NEW root, NEW table, Unfolds(h, N, root, table),
           DOMAIN N \subseteq DOMAIN M, \A x \in DOMAIN N : M[x] = N[x]
    PROVE  Unfolds(h, M, root, table)
BY ZenonT(40) DEF Unfolds

\* Puts over a database: both stay closed, with the buckets of both.
LEMMA OverClosed ==
    ASSUME NEW a, NEW b, NEW B, Closed(a, B), Closed(b, B)
    PROVE  Closed(Over(a, b), B) /\ DOMAIN Over(a, b).bucket = DOMAIN a.bucket \cup DOMAIN b.bucket
<1> DEFINE d == Over(a, b)
<1>1. /\ DOMAIN d = {"node", "bucket", "table"} /\ d.node = Override(a.node, b.node)
      /\ d.bucket = Override(a.bucket, b.bucket) /\ d.table = Override(a.table, b.table)
  <2>1. DOMAIN b = {"node", "bucket", "table"}
    BY Zenon DEF Closed
  <2> QED BY <2>1 DEF Over
<1> HIDE DEF d
<1>2. DOMAIN d.node = DOMAIN a.node \cup DOMAIN b.node
  BY <1>1 DEF Override
<1>3. \A h \in DOMAIN a.node : d.node[h] = a.node[h]
  BY <1>1 DEF Override
<1>4. ASSUME NEW h \in DOMAIN b.node PROVE d.node[h] = b.node[h]
  <2>1. CASE h \in DOMAIN a.node
    <3>1. IsNode(h, a.node[h]) /\ IsNode(h, b.node[h])
      BY <2>1, Zenon DEF Closed
    <3> QED BY <1>3, <2>1, <3>1, NodeOnce, Zenon
  <2>2. CASE h \notin DOMAIN a.node
    BY <1>1, <2>2 DEF Override
  <2> QED BY <2>1, <2>2, Zenon
<1>5. ASSUME NEW h \in DOMAIN d.node PROVE IsNode(h, d.node[h])
  <2>1. CASE h \in DOMAIN a.node
    BY <1>3, <2>1, Zenon DEF Closed
  <2>2. CASE h \in DOMAIN b.node
    BY <1>4, <2>2, Zenon DEF Closed
  <2> QED BY <1>2, <2>1, <2>2, Zenon
<1>6. ASSUME NEW root \in DOMAIN d.table
      PROVE  /\ \E h : Unfolds(h, d.node, root, d.table[root])
             /\ \A i \in 0..(Cap - 1) : d.table[root][i] = NilHash \/ d.table[root][i] \in B
  <2>1. CASE root \in DOMAIN a.table
    <3>1. d.table[root] = a.table[root]
      BY <1>1, <2>1 DEF Override
    <3>2. PICK h : Unfolds(h, a.node, root, a.table[root])
      BY <2>1, Zenon DEF Closed
    <3>3. DOMAIN a.node \subseteq DOMAIN d.node
      BY <1>2, Zenon
    <3>4. Unfolds(h, d.node, root, a.table[root])
      BY <1>3, <3>2, <3>3, UnfoldsMore, Zenon
    <3> QED BY <2>1, <3>1, <3>4, Zenon DEF Closed
  <2>2. CASE root \in DOMAIN b.table /\ root \notin DOMAIN a.table
    <3>1. d.table[root] = b.table[root]
      BY <1>1, <2>2 DEF Override
    <3>2. PICK h : Unfolds(h, b.node, root, b.table[root])
      BY <2>2, Zenon DEF Closed
    <3>3. DOMAIN b.node \subseteq DOMAIN d.node
      BY <1>2, Zenon
    <3>4. Unfolds(h, d.node, root, b.table[root])
      BY <1>4, <3>2, <3>3, UnfoldsMore, Zenon
    <3> QED BY <2>2, <3>1, <3>4, Zenon DEF Closed
  <2>3. root \in DOMAIN a.table \/ root \in DOMAIN b.table
    BY <1>1 DEF Override
  <2> QED BY <2>1, <2>2, <2>3, Zenon
<1>7. DOMAIN d.bucket = DOMAIN a.bucket \cup DOMAIN b.bucket
  BY <1>1 DEF Override
<1>8. Closed(d, B)
  BY <1>1, <1>5, <1>6, Zenon DEF Closed
<1> QED BY <1>7, <1>8, Zenon DEF d

\* Closed with some buckets is closed with more.
LEMMA ClosedMore ==
    ASSUME NEW db, NEW B, NEW C, B \subseteq C, Closed(db, B)
    PROVE  Closed(db, C)
BY Zenon DEF Closed

\* Nothing stored is closed.
LEMMA NoDiskClosed ==
    ASSUME NEW B
    PROVE  Closed(NoDisk, B) /\ DOMAIN NoDisk.bucket = {}
<1>1. /\ DOMAIN NoDisk = {"node", "bucket", "table"} /\ DOMAIN NoDisk.node = {}
      /\ DOMAIN NoDisk.bucket = {} /\ DOMAIN NoDisk.table = {}
  BY DEF NoDisk
<1> QED BY <1>1, Zenon DEF Closed

----------------------------------------------------------------------------
(* Commit. *)

\* What Commit puts into the batch is closed: the tree under the new root is the one in
\* memory, and all of it that has a hash is put.
LEMMA PutsClosed ==
    ASSUME Linked', Paths', LeafHashes', H'[Root] # NilHash,
           \A p \in Position : p \in Reached(nodeDirty') <=> p = Root \/ Under(p, Used'),
           \A i \in 0..(Cap - 1) : bucketHash'[i] = H'[Leaf(i)],
           NEW B, \A i \in 0..(Cap - 1) : bucketHash'[i] = NilHash \/ bucketHash'[i] \in B,
           NEW last
    PROVE  Closed(Puts(last), B) /\ DOMAIN Puts(last).bucket = DOMAIN last
<1> DEFINE R == Reached(nodeDirty')
           b == last
           t == [h \in {H'[Root]} |-> bucketHash']
           n == [h \in {H'[p] : p \in R} |-> Children'[CHOOSE p \in R : H'[p] = h]]
<1>1. Puts(last) = [bucket |-> b, table |-> t, node |-> n]
  BY Zenon DEF Puts
<1>2. DOMAIN b = DOMAIN last /\ DOMAIN t = {H'[Root]} /\ t[H'[Root]] = bucketHash'
  BY Zenon
<1>3. DOMAIN n = {H'[p] : p \in R}
  BY Zenon
<1>4. ASSUME NEW h \in DOMAIN n PROVE \E p \in R : H'[p] = h /\ n[h] = Children'[p]
  <2>1. h \in {H'[p] : p \in R} /\ n[h] = Children'[CHOOSE p \in R : H'[p] = h]
    BY <1>3, Zenon
  <2>2. \E p \in R : H'[p] = h
    BY <2>1, Zenon
  <2> HIDE DEF n
  <2> QED BY <2>1, <2>2, Zenon
<1> HIDE DEF b, t, n
<1>5. /\ DOMAIN Puts(last) = {"node", "bucket", "table"} /\ Puts(last).node = n
      /\ Puts(last).bucket = b /\ Puts(last).table = t
  BY <1>1
<1>6. ASSUME NEW p \in R PROVE p \in Position /\ H'[p] # NilHash /\ IsNode(H'[p], Children'[p])
  <2>1. p \in Position
    BY ReachedIs, Zenon
  <2>2. CASE ~isLeaf(p)
    <3>1. H'[p] # NilHash
      BY <2>1, Zenon DEF Paths
    <3>2. H'[p] = Sha("node", Children'[p]) /\ Children'[p] = [c \in Branch |-> Children'[p][c]]
      BY <2>1, <2>2, <3>1, Zenon DEF Linked
    <3> QED BY <2>1, <3>1, <3>2, Zenon DEF IsNode
  <2>3. CASE isLeaf(p)
    <3>1. PICK i \in Leaves : p = Leaf(i)
      BY <2>1, <2>3, LeafIs, Zenon
    <3>2. p # Root
      BY <3>1, LeafIs, Zenon
    <3>3. H'[p] # NilHash /\ Children'[p] = NilKids
      BY <2>1, <2>3, <3>2, Zenon DEF Paths
    <3>4. H'[p] = Sha("bucket", H'[p][2])
      BY <3>1, <3>3, Zenon DEF LeafHashes
    <3> QED BY <2>1, <3>3, <3>4, Zenon DEF IsNode
  <2> QED BY <2>2, <2>3, Zenon
<1>7. ASSUME NEW h \in DOMAIN n PROVE IsNode(h, n[h])
  BY <1>4, <1>6, Zenon
<1>8. ASSUME NEW p \in Position, H'[p] # NilHash PROVE H'[p] \in DOMAIN n
  <2>1. p \in R
    BY <1>8, Zenon DEF Paths
  <2> QED BY <1>3, <2>1, Zenon
<1>9. ASSUME NEW p \in Position, H'[p] # NilHash PROVE n[H'[p]] = Children'[p]
  <2>1. p \in R
    BY <1>9, Zenon DEF Paths
  <2>2. IsNode(H'[p], Children'[p])
    BY <1>6, <2>1, Zenon
  <2>3. IsNode(H'[p], n[H'[p]])
    BY <1>7, <1>8, <1>9, Zenon
  <2> QED BY <2>2, <2>3, NodeOnce, Zenon
<1>10. Unfolds(H', n, H'[Root], t[H'[Root]])
  <2>1. ASSUME NEW p \in Position, ~isLeaf(p)
        PROVE  IF H'[p] = NilHash THEN \A c \in Branch : H'[Child(p, c)] = NilHash
               ELSE H'[p] = Sha("node", n[H'[p]]) /\ \A c \in Branch : H'[Child(p, c)] = n[H'[p]][c]
    <3>1. /\ \A c \in Branch : Children'[p][c] = H'[Child(p, c)]
          /\ H'[p] # NilHash => H'[p] = Sha("node", Children'[p])
          /\ H'[p] = NilHash => Children'[p] = NilKids
      BY <2>1, Zenon DEF Linked
    <3>2. \A c \in Branch : NilKids[c] = NilHash
      BY Zenon DEF NilKids
    <3>3. CASE H'[p] = NilHash
      BY <3>1, <3>2, <3>3, Zenon
    <3>4. CASE H'[p] # NilHash
      BY <1>9, <3>1, <3>4, Zenon
    <3> QED BY <3>3, <3>4, Zenon
  <2> QED BY <1>2, <1>8, <2>1, Zenon DEF Unfolds
<1>11. ASSUME NEW root \in DOMAIN t
       PROVE  /\ \E h : Unfolds(h, n, root, t[root])
              /\ \A i \in 0..(Cap - 1) : t[root][i] = NilHash \/ t[root][i] \in B
  <2>1. root = H'[Root] /\ t[root] = bucketHash'
    BY <1>2, Zenon
  <2> QED BY <1>10, <2>1, Zenon
<1> QED BY <1>2, <1>5, <1>7, <1>11, Zenon DEF Closed

\* Commit keeps the invariant.
LEMMA CommitInv == ASSUME Inv, Commit PROVE Inv'
<1>0. /\ mode = "fresh" /\ mode' = "fresh" /\ TypeOK /\ Linked /\ Paths /\ LeafHashes /\ Table
      /\ buckets' = Hashed /\ Processed(buckets')
      /\ touched' = {} /\ disk' = disk /\ commits' = commits + 1 /\ commits < MaxCommits
      /\ dirty' = FALSE /\ clean' = clean /\ lost' = lost
  BY Zenon DEF Inv, Commit
<1>1. /\ Linked' /\ Paths' /\ LeafHashes' /\ H'[Root] # NilHash
      /\ \A p \in Position : p \in Reached(nodeDirty') <=> p = Root \/ Under(p, Used')
  BY <1>0, ProcessedFresh, Zenon
<1>2. /\ DOMAIN buckets' = DOMAIN buckets
      /\ \A i \in DOMAIN buckets :
           /\ buckets'[i] = [H |-> buckets'[i].H, Slots |-> buckets'[i].Slots]
           /\ i \in touched => buckets'[i].H = computeHash(buckets'[i].Slots)
           /\ i \notin touched => buckets'[i] = buckets[i]
  BY <1>0, HashedIs, Zenon
<1>3. PICK last \in [{buckets'[i].H : i \in touched} -> UNION {JsonForms(buckets'[i]) : i \in touched}] :
        batch' = Over(Puts(last), batch)
  BY Zenon DEF Commit
<1>4. DOMAIN last = {buckets'[i].H : i \in touched}
  BY Zenon
<1>5. DOMAIN bucketHash = 0..(Cap - 1) /\ touched \subseteq DOMAIN buckets /\ DOMAIN buckets \subseteq 0..(Cap - 1)
  BY <1>0, Zenon DEF Table, TypeOK
<1>6. /\ DOMAIN bucketHash' = 0..(Cap - 1)
      /\ \A i \in 0..(Cap - 1) : bucketHash'[i] = IF i \in DOMAIN buckets THEN buckets'[i].H ELSE bucketHash[i]
  BY <1>5, Zenon DEF Commit
<1>7. ASSUME NEW i \in 0..(Cap - 1) PROVE bucketHash'[i] = H'[Leaf(i)]
  <2>1. i \in Leaves
    BY LeafIs, Zenon
  <2>2. IF i \in DOMAIN buckets' THEN buckets'[i].H = H'[Leaf(i)] ELSE H'[Leaf(i)] = NilHash
    BY <1>1, <2>1, Zenon DEF LeafHashes
  <2>3. i \notin DOMAIN buckets => bucketHash[i] = NilHash
    BY <1>0, Zenon DEF Table
  <2> QED BY <1>2, <1>6, <2>2, <2>3, Zenon
<1> DEFINE B == DOMAIN last \cup DOMAIN batch.bucket \cup DOMAIN disk.bucket \cup lost
<1>8. ASSUME NEW i \in DOMAIN buckets
      PROVE  \/ buckets'[i].H = NilHash /\ buckets'[i].Slots = <<>>
             \/ buckets'[i].H = computeHash(buckets'[i].Slots) /\ buckets'[i].H \in B
  <2>1. CASE i \in touched
    BY <1>2, <1>4, <2>1, Zenon
  <2>2. CASE i \notin touched
    <3>1. \/ buckets[i].H = NilHash /\ buckets[i].Slots = <<>>
          \/ buckets[i].H = computeHash(buckets[i].Slots) /\ buckets[i].H \in B
      BY <1>0, <2>2, Zenon DEF Table
    <3> QED BY <1>2, <2>2, <3>1, Zenon
  <2> QED BY <2>1, <2>2, Zenon
<1>9. ASSUME NEW i \in 0..(Cap - 1) PROVE bucketHash'[i] = NilHash \/ bucketHash'[i] \in B
  <2>1. CASE i \in DOMAIN buckets
    BY <1>6, <1>8, <2>1, Zenon
  <2>2. CASE i \notin DOMAIN buckets
    BY <1>0, <1>6, <2>2, Zenon DEF Table
  <2> QED BY <2>1, <2>2, Zenon
<1>10. Closed(Puts(last), B) /\ DOMAIN Puts(last).bucket = DOMAIN last
  <2> HIDE DEF B
  <2> QED BY <1>1, <1>7, <1>9, PutsClosed, Zenon
<1>11. Closed(batch, B)
  <2>1. DOMAIN batch.bucket \cup DOMAIN disk.bucket \cup lost \subseteq B
    BY Zenon
  <2>2. Closed(batch, DOMAIN batch.bucket \cup DOMAIN disk.bucket \cup lost)
    BY Zenon DEF Inv
  <2> HIDE DEF B
  <2> QED BY <2>1, <2>2, ClosedMore, Zenon
<1>12. Closed(batch', B) /\ DOMAIN batch'.bucket \cup DOMAIN disk.bucket \cup lost = B
  <2>1. Closed(Over(Puts(last), batch), B)
        /\ DOMAIN Over(Puts(last), batch).bucket = DOMAIN last \cup DOMAIN batch.bucket
    BY <1>10, <1>11, OverClosed, Zenon
  <2> QED BY <1>3, <2>1, Zenon
<1> HIDE DEF B
<1>13. Table'
  <2>1. \A i \in 0..(Cap - 1) : i \notin DOMAIN buckets' => bucketHash'[i] = NilHash
    BY <1>0, <1>2, <1>6, Zenon DEF Table
  <2>2. ASSUME NEW i \in DOMAIN buckets'
        PROVE  /\ buckets'[i] = [H |-> buckets'[i].H, Slots |-> buckets'[i].Slots]
               /\ \/ buckets'[i].H = NilHash /\ buckets'[i].Slots = <<>>
                  \/ /\ buckets'[i].H = computeHash(buckets'[i].Slots)
                     /\ buckets'[i].H \in DOMAIN batch'.bucket \cup DOMAIN disk'.bucket \cup lost'
    BY <1>0, <1>2, <1>8, <1>12, Zenon
  <2> QED BY <1>6, <2>1, <2>2, Zenon DEF Table
<1>14. TypeOK'
  <2>1. commits' \in 0..MaxCommits
    <3>1. commits \in 0..MaxCommits
      BY <1>0, Zenon DEF TypeOK
    <3> QED BY <1>0, <3>1, TreeAssumption
  <2>2. \A p \in Position : nodeDirty'[p] \subseteq Branch
    BY <1>1, Zenon DEF Paths
  <2> QED BY <1>0, <1>2, <2>1, <2>2, Zenon DEF TypeOK
<1>15. Closed(disk', DOMAIN disk'.bucket \cup lost')
  BY <1>0, Zenon DEF Inv
<1>16. mode' # "loaded"
  BY <1>0
<1> QED BY <1>0, <1>1, <1>12, <1>13, <1>14, <1>15, <1>16, Zenon DEF Inv

\* Process keeps the invariant: of an empty tree as Commit does, of one read back because
\* nothing in it is dirty and only the root is hashed again.
LEMMA ProcessInv == ASSUME Inv, Process PROVE Inv'
<1>0. /\ mode' = mode /\ mode \in {"fresh", "loaded"} /\ TypeOK /\ Linked
      /\ buckets' = Hashed /\ Processed(buckets')
      /\ UNCHANGED <<bucketHash, touched, dirty, batch, disk, commits, clean, lost>>
  BY Zenon DEF Inv, Process
<1>1. DOMAIN buckets' = DOMAIN buckets
  BY <1>0, Zenon DEF Hashed
<1>2. /\ Closed(disk', DOMAIN disk'.bucket \cup lost')
      /\ Closed(batch', DOMAIN batch'.bucket \cup DOMAIN disk'.bucket \cup lost')
  BY <1>0, Zenon DEF Inv
<1>3. CASE mode = "fresh"
  <2>1. Paths /\ LeafHashes /\ Table
    BY <1>3, Zenon DEF Inv
  <2>2. Linked' /\ Paths' /\ LeafHashes'
    BY <1>0, <2>1, ProcessedFresh, Zenon
  <2>3. Table'
    <3>1. ASSUME NEW i \in DOMAIN buckets'
          PROVE  /\ buckets'[i] = [H |-> buckets'[i].H, Slots |-> buckets'[i].Slots]
                 /\ \/ i \in touched'
                    \/ buckets'[i].H = NilHash /\ buckets'[i].Slots = <<>>
                    \/ /\ buckets'[i].H = computeHash(buckets'[i].Slots)
                       /\ buckets'[i].H \in DOMAIN batch'.bucket \cup DOMAIN disk'.bucket \cup lost'
      <4>1. buckets'[i] = [H |-> buckets'[i].H, Slots |-> buckets'[i].Slots]
        BY <1>0, <1>1, <2>1, HashedIs, Zenon
      <4>2. CASE i \in touched
        BY <1>0, <4>1, <4>2, Zenon
      <4>3. CASE i \notin touched
        <5>1. buckets'[i] = buckets[i]
          BY <1>0, <1>1, <2>1, <4>3, HashedIs, Zenon
        <5> QED BY <1>0, <1>1, <2>1, <4>1, <4>3, <5>1, Zenon DEF Table
      <4> QED BY <4>2, <4>3, Zenon
    <3> QED BY <1>0, <1>1, <2>1, <3>1, Zenon DEF Table
  <2>4. TypeOK'
    <3>1. \A p \in Position : nodeDirty'[p] \subseteq Branch
      BY <2>2, Zenon DEF Paths
    <3> QED BY <1>0, <1>1, <3>1, Zenon DEF TypeOK
  <2>5. mode' # "loaded"
    BY <1>0, <1>3
  <2> QED BY <1>2, <2>2, <2>3, <2>4, <2>5, Zenon DEF Inv
<1>4. CASE mode = "loaded"
  <2>1. touched = {} /\ (\A p \in Position : nodeDirty[p] = {}) /\ Recovered
    BY <1>4, Zenon DEF Inv
  <2>2. \A i \in touched : i \in Leaves => Leaf(i) \in Reached(Marks)
    BY <2>1, Zenon
  <2>3. Linked' /\ \A p \in Position : p \notin Reached(Marks) => H'[p] = H[p]
    BY <1>0, <2>2, ProcessedLinked, Zenon
  <2>4. ASSUME NEW p \in Position PROVE Marks[p] = {}
    BY <2>1, Zenon DEF Marks, Marked
  <2>5. \A p \in Position : nodeDirty'[p] = {}
    BY <1>0, <2>4, ProcessedIs, Zenon
  <2>6. ASSUME NEW i \in Leaves PROVE H'[Leaf(i)] = H[Leaf(i)]
    <3>1. Leaf(i) \in Position \ {Root}
      BY LeafIs, Zenon
    <3>2. Marks[getParent(Leaf(i))] = {}
      BY <2>4, <3>1, ParentIs, Zenon
    <3>3. Leaf(i) \notin Reached(Marks)
      BY <3>1, <3>2, ReachedIs, Zenon
    <3> QED BY <2>3, <3>1, <3>3, Zenon
  <2>7. Recovered'
    <3>1. ASSUME NEW i \in 0..(Cap - 1)
          PROVE  /\ bucketHash'[i] = H'[Leaf(i)]
                 /\ bucketHash'[i] # NilHash => bucketHash'[i] \in DOMAIN disk'.bucket \cup lost'
      <4>1. H'[Leaf(i)] = H[Leaf(i)]
        BY <2>6, LeafIs, Zenon
      <4> QED BY <1>0, <1>4, <2>1, <4>1, Zenon DEF Recovered
    <3> QED BY <3>1, Zenon DEF Recovered
  <2>8. TypeOK'
    BY <1>0, <1>1, <2>5, Zenon DEF TypeOK
  <2>9. touched' = {} /\ mode' # "fresh"
    BY <1>0, <1>4, <2>1
  <2> QED BY <1>2, <2>3, <2>5, <2>7, <2>8, <2>9, Zenon DEF Inv
<1> QED BY <1>0, <1>3, <1>4, Zenon

----------------------------------------------------------------------------
(* Opening the tree. *)

\* A new tree keeps the invariant.
LEMMA NewTreeInv ==
    ASSUME Inv, NewTree, batch' = NoDisk, UNCHANGED <<disk, commits, lost>>
    PROVE  Inv'
<1>0. /\ mode' = "fresh" /\ buckets' = <<>> /\ bucketHash' = [i \in 0..(Cap - 1) |-> NilHash]
      /\ touched' = {} /\ dirty' = FALSE /\ clean' = FALSE
      /\ H' = [p \in Position |-> NilHash]
      /\ Children' = [p \in Position |-> [c \in Branch |-> NilHash]]
      /\ nodeDirty' = [p \in Position |-> {}]
  BY Zenon DEF NewTree
<1>1. DOMAIN buckets' = {}
  BY <1>0
<1>2. TypeOK'
  BY <1>0, <1>1, Zenon DEF TypeOK, Inv
<1>3. /\ Closed(disk', DOMAIN disk'.bucket \cup lost')
      /\ Closed(batch', DOMAIN batch'.bucket \cup DOMAIN disk'.bucket \cup lost')
  BY NoDiskClosed, Zenon DEF Inv
<1>4. Linked'
  <2>1. ASSUME NEW p \in Position
        PROVE  /\ H'[p] = NilHash /\ Children'[p] = NilKids
               /\ Children'[p] = [c \in Branch |-> Children'[p][c]]
    BY <1>0, Zenon DEF NilKids
  <2>2. ASSUME NEW p \in Position, ~isLeaf(p), NEW c \in Branch
        PROVE  Children'[p][c] = H'[Child(p, c)]
    <3>1. Child(p, c) \in Position
      BY <2>2, ChildIs, Zenon
    <3>2. NilKids[c] = NilHash
      BY Zenon DEF NilKids
    <3> QED BY <2>1, <3>1, <3>2, Zenon
  <2> QED BY <2>1, <2>2, Zenon DEF Linked
<1>5. \A i \in Leaves : H'[Leaf(i)] = NilHash
  BY <1>0, LeafIs, Zenon
<1>6. Used' = {}
  BY <1>5, Zenon DEF Used
<1>7. Paths'
  <2>1. \A p : ~Under(p, {})
    BY Zenon DEF Under
  <2>2. \A p \in Position : H'[p] = NilHash /\ nodeDirty'[p] = {} /\ Children'[p] = NilKids
    BY <1>0, Zenon DEF NilKids
  <2> QED BY <1>6, <2>1, <2>2, Zenon DEF Paths
<1>8. LeafHashes'
  BY <1>1, <1>5, Zenon DEF LeafHashes
<1>9. Table'
  BY <1>0, <1>1, Zenon DEF Table
<1>10. mode' # "loaded"
  BY <1>0
<1> QED BY <1>2, <1>3, <1>4, <1>7, <1>8, <1>9, <1>10, Zenon DEF Inv

\* What walkCreateNode finds for a child of a node.
InDisk(h) == h # NilHash /\ h \in DOMAIN disk.node
Fetched(parent, c) ==
    LET h == IF InDisk(parent) THEN disk.node[parent][c] ELSE NilHash
    IN IF InDisk(h) THEN h ELSE NilHash

\* What Load leaves at each node.
LEMMA LoadedIs ==
    ASSUME NEW root, Load(root)
    PROVE  /\ H'[Root] = root
           /\ \A p \in Position \ {Root} : H'[p] = Fetched(H'[getParent(p)], Slot(p))
           /\ \A p \in Position :
                Children'[p] = IF InDisk(H'[p]) THEN disk.node[H'[p]] ELSE NilKids
<1> DEFINE V == DOMAIN disk.node \cup {root, NilHash}
           Is(f) == f = [p \in Position |-> IF p = Root THEN root
                                            ELSE Fetched(f[getParent(p)], Slot(p))]
           loaded == CHOOSE f : Is(f)
           G == [x \in Position \X V |-> Fetched(x[2], Slot(x[1]))]
<1>1. \A h, c : Fetched(h, c) \in V
  BY Zenon DEF Fetched, InDisk
<1>2. root \in V
  OBVIOUS
<1> HIDE DEF V
<1>3. G \in [Position \X V -> V]
  BY <1>1, Zenon
<1>4. \A p \in Position : \A h \in V : G[<<p, h>>] = Fetched(h, Slot(p))
  OBVIOUS
<1> HIDE DEF G
<1>5. PICK f : Descends(f, V, root, G)
  BY <1>2, <1>3, DownFrom, Zenon
<1>6. Is(f)
  <2>1. ASSUME NEW p \in Position
        PROVE  f[p] = IF p = Root THEN root ELSE Fetched(f[getParent(p)], Slot(p))
    <3>1. CASE p = Root
      BY <1>5, <3>1, Zenon DEF Descends
    <3>2. CASE p # Root
      <4>1. f[getParent(p)] \in V
        BY <1>5, <3>2, ParentIs, Zenon DEF Descends
      <4> QED BY <1>4, <1>5, <3>2, <4>1, Zenon DEF Descends
    <3> QED BY <3>1, <3>2, Zenon
  <2>2. f = [p \in Position |-> f[p]]
    BY <1>5, Zenon DEF Descends
  <2> QED BY <2>1, <2>2, Zenon
<1>7. Is(loaded)
  BY <1>6, Zenon
<1>8. H' = loaded
  BY Zenon DEF Load, Fetched, InDisk
<1>9. Children' = [p \in Position |-> IF InDisk(loaded[p]) THEN disk.node[loaded[p]] ELSE NilKids]
  BY Zenon DEF Load, Fetched, InDisk, NilKids
<1> HIDE DEF loaded
<1>10. \A p \in Position : loaded[p] = IF p = Root THEN root ELSE Fetched(loaded[getParent(p)], Slot(p))
  BY <1>7, Zenon
<1> HIDE DEF Is
<1>11. \A p \in Position \ {Root} : H'[p] = Fetched(H'[getParent(p)], Slot(p))
  BY <1>8, <1>10, Zenon
<1>12. \A p \in Position : Children'[p] = IF InDisk(H'[p]) THEN disk.node[H'[p]] ELSE NilKids
  BY <1>8, <1>9, Zenon
<1> QED BY <1>8, <1>10, <1>11, <1>12, RootIs, Zenon

\* A tree read back from a root of the database keeps the invariant: the nodes read are
\* the tree that was put under that root.
LEMMA LoadInv ==
    ASSUME Inv, NEW root \in DOMAIN disk.table, Load(root),
           batch' = NoDisk, UNCHANGED <<disk, commits, lost>>
    PROVE  Inv'
<1>0. /\ mode' = "loaded" /\ buckets' = <<>> /\ bucketHash' = disk.table[root]
      /\ touched' = {} /\ dirty' = FALSE /\ clean' = FALSE
      /\ nodeDirty' = [p \in Position |-> {}]
  BY Zenon DEF Load
<1>1. DOMAIN buckets' = {}
  BY <1>0
<1>2. TypeOK'
  BY <1>0, <1>1, Zenon DEF TypeOK, Inv
<1>3. /\ Closed(disk', DOMAIN disk'.bucket \cup lost')
      /\ Closed(batch', DOMAIN batch'.bucket \cup DOMAIN disk'.bucket \cup lost')
  BY NoDiskClosed, Zenon DEF Inv
<1>4. Closed(disk, DOMAIN disk.bucket \cup lost)
  BY Zenon DEF Inv
<1>5. PICK h : Unfolds(h, disk.node, root, disk.table[root])
  BY <1>4, Zenon DEF Closed
<1>6. ASSUME NEW p \in Position PROVE H'[p] = h[p]
  <2> DEFINE S == {x \in Position : H'[x] = h[x]}
  <2>1. Root \in S
    BY <1>5, LoadedIs, RootIs, Zenon DEF Unfolds
  <2>2. ASSUME NEW x \in Position \ {Root}, getParent(x) \in S PROVE x \in S
    <3>1. PICK q, c : q = getParent(x) /\ c = Slot(x)
      OBVIOUS
    <3>2. q \in Position /\ ~isLeaf(q) /\ c \in Branch /\ x = Child(q, c)
      BY <3>1, ParentIs, Zenon
    <3>3. H'[x] = Fetched(h[q], c)
      BY <2>2, <3>1, LoadedIs, Zenon
    <3>4. CASE h[q] = NilHash
      <4>1. h[x] = NilHash
        BY <1>5, <3>2, <3>4, Zenon DEF Unfolds
      <4> QED BY <3>3, <3>4, <4>1, Zenon DEF Fetched, InDisk
    <3>5. CASE h[q] # NilHash
      <4>1. h[q] \in DOMAIN disk.node /\ h[x] = disk.node[h[q]][c]
        BY <1>5, <3>2, <3>5, Zenon DEF Unfolds
      <4>2. h[x] # NilHash => h[x] \in DOMAIN disk.node
        BY <1>5, Zenon DEF Unfolds
      <4> QED BY <3>3, <3>5, <4>1, <4>2, Zenon DEF Fetched, InDisk
    <3> QED BY <3>4, <3>5, Zenon
  <2> HIDE DEF S
  <2>3. Position \subseteq S
    BY <2>1, <2>2, FromRoot, Zenon
  <2> QED BY <2>3, Zenon DEF S
<1>7. Linked'
  <2>1. ASSUME NEW p \in Position
        PROVE  /\ Children'[p] = [c \in Branch |-> Children'[p][c]]
               /\ h[p] # NilHash => Children'[p] = disk.node[h[p]]
               /\ h[p] = NilHash => Children'[p] = NilKids
    <3>1. Children'[p] = IF InDisk(h[p]) THEN disk.node[h[p]] ELSE NilKids
      BY <1>6, LoadedIs, Zenon
    <3>2. h[p] # NilHash => InDisk(h[p])
      BY <1>5, Zenon DEF Unfolds, InDisk
    <3>3. NilKids = [c \in Branch |-> NilKids[c]]
      BY Zenon DEF NilKids
    <3>4. ASSUME h[p] \in DOMAIN disk.node
          PROVE  disk.node[h[p]] = [c \in Branch |-> disk.node[h[p]][c]]
      <4>1. IsNode(h[p], disk.node[h[p]])
        BY <1>4, <3>4, Zenon DEF Closed
      <4> QED BY <3>3, <4>1, Zenon DEF IsNode
    <3>5. CASE InDisk(h[p])
      BY <3>1, <3>4, <3>5, Zenon DEF InDisk
    <3>6. CASE ~InDisk(h[p])
      BY <3>1, <3>2, <3>3, <3>6, Zenon
    <3> QED BY <3>5, <3>6, Zenon
  <2>2. ASSUME NEW p \in Position, ~isLeaf(p)
        PROVE  /\ \A c \in Branch : Children'[p][c] = H'[Child(p, c)]
               /\ H'[p] # NilHash => H'[p] = Sha("node", Children'[p])
               /\ H'[p] = NilHash => Children'[p] = NilKids
    <3>1. \A c \in Branch : H'[Child(p, c)] = h[Child(p, c)]
      BY <1>6, <2>2, ChildIs, Zenon
    <3>2. CASE h[p] = NilHash
      <4>1. \A c \in Branch : h[Child(p, c)] = NilHash
        BY <1>5, <2>2, <3>2, Zenon DEF Unfolds
      <4>2. \A c \in Branch : NilKids[c] = NilHash
        BY Zenon DEF NilKids
      <4> QED BY <1>6, <2>1, <3>1, <3>2, <4>1, <4>2, Zenon
    <3>3. CASE h[p] # NilHash
      <4>1. h[p] = Sha("node", disk.node[h[p]]) /\ \A c \in Branch : h[Child(p, c)] = disk.node[h[p]][c]
        BY <1>5, <2>2, <3>3, Zenon DEF Unfolds
      <4> QED BY <1>6, <2>1, <3>1, <3>3, <4>1, Zenon
    <3> QED BY <3>2, <3>3, Zenon
  <2> QED BY <2>1, <2>2, Zenon DEF Linked
<1>8. Recovered'
  <2>1. ASSUME NEW i \in 0..(Cap - 1)
        PROVE  /\ bucketHash'[i] = H'[Leaf(i)]
               /\ bucketHash'[i] # NilHash => bucketHash'[i] \in DOMAIN disk'.bucket \cup lost'
    <3>1. Leaf(i) \in Position
      BY LeafIs, Zenon
    <3>2. bucketHash'[i] = h[Leaf(i)]
      BY <1>0, <1>5, Zenon DEF Unfolds
    <3>3. bucketHash'[i] = NilHash \/ bucketHash'[i] \in DOMAIN disk.bucket \cup lost
      BY <1>0, <1>4, Zenon DEF Closed
    <3> QED BY <1>6, <3>1, <3>2, <3>3, Zenon
  <2> QED BY <2>1, Zenon DEF Recovered
<1>9. mode' # "fresh" /\ \A p \in Position : nodeDirty'[p] = {}
  BY <1>0
<1> QED BY <1>0, <1>2, <1>3, <1>7, <1>8, <1>9, Zenon DEF Inv

----------------------------------------------------------------------------
(* The other actions. *)

\* Purge and a panic leave nothing of the tree to be said, and the database as it was.
LEMMA PurgeInv == ASSUME Inv, Purge \/ UseLoaded PROVE Inv'
<1>1. CASE Purge
  <2>1. /\ mode' \notin {"fresh", "loaded"} /\ mode' \in {"purged", "detached"}
        /\ buckets' = <<>> /\ touched' = {} /\ nodeDirty' = [p \in Position |-> {}]
        /\ UNCHANGED <<dirty, batch, disk, commits, clean, lost>>
    BY <1>1 DEF Purge
  <2>2. DOMAIN buckets' = {}
    BY <2>1
  <2>3. TypeOK'
    BY <2>1, <2>2, Zenon DEF TypeOK, Inv
  <2> QED BY <2>1, <2>3, Zenon DEF Inv
<1>2. CASE UseLoaded
  <2>1. mode' \notin {"fresh", "loaded"} /\ mode' = "panicked"
    BY <1>2 DEF UseLoaded
  <2>2. TypeOK'
    BY <1>2, <2>1, Zenon DEF TypeOK, Inv, UseLoaded, tableVars, nodeVars
  <2> QED BY <1>2, <2>1, <2>2, Zenon DEF Inv, UseLoaded, tableVars, nodeVars
<1> QED BY <1>1, <1>2, Zenon

\* Writing the batch keeps the database closed, and takes nothing from it; giving the batch
\* up leaves the database as it was, and its buckets are among the lost ones.
LEMMA WriteInv == ASSUME Inv, Write \/ GiveUp PROVE Inv'
<1> DEFINE B == DOMAIN batch.bucket \cup DOMAIN disk.bucket \cup lost
<1>0. /\ batch' = NoDisk
      /\ UNCHANGED <<mode, buckets, bucketHash, touched, dirty, H, Children, nodeDirty, commits>>
      /\ clean' \in BOOLEAN
  BY Zenon DEF Write, GiveUp, tableVars, nodeVars, Inv, TypeOK
<1>a. \/ disk' = Over(batch, disk) /\ lost' = lost
      \/ disk' = disk /\ lost' = lost \cup DOMAIN batch.bucket
  BY Zenon DEF Write, GiveUp
<1>1. DOMAIN disk.bucket \cup lost \subseteq B /\ Closed(batch, B) /\ Closed(disk, DOMAIN disk.bucket \cup lost)
  BY Zenon DEF Inv
<1>b. DOMAIN batch.bucket \cup DOMAIN disk.bucket \cup lost = B
  OBVIOUS
<1> HIDE DEF B
<1>2. Closed(disk, B)
  BY <1>1, ClosedMore, Zenon
<1>3. Closed(disk', B) /\ DOMAIN disk'.bucket \cup lost' = B
  <2>1. CASE disk' = Over(batch, disk) /\ lost' = lost
    <3>1. Closed(disk', B) /\ DOMAIN disk'.bucket = DOMAIN batch.bucket \cup DOMAIN disk.bucket
      BY <1>1, <1>2, <2>1, OverClosed, Zenon
    <3> QED BY <1>b, <2>1, <3>1, Zenon
  <2>2. CASE disk' = disk /\ lost' = lost \cup DOMAIN batch.bucket
    <3>1. DOMAIN disk.bucket \cup (lost \cup DOMAIN batch.bucket) = B
      BY <1>b, Zenon
    <3> QED BY <1>2, <2>2, <3>1, Zenon
  <2> QED BY <1>a, <2>1, <2>2, Zenon
<1>4. /\ Closed(disk', DOMAIN disk'.bucket \cup lost')
      /\ Closed(batch', DOMAIN batch'.bucket \cup DOMAIN disk'.bucket \cup lost')
  BY <1>0, <1>3, NoDiskClosed, Zenon
<1>5. TypeOK'
  BY <1>0, Zenon DEF TypeOK, Inv
<1>6. (mode \in {"fresh", "loaded"} => Linked)' /\ (mode = "fresh" => Paths /\ LeafHashes)'
  <2>1. /\ Linked' <=> Linked
        /\ Used' = Used
        /\ LeafHashes' <=> LeafHashes
    BY <1>0, Zenon DEF Linked, Used, LeafHashes
  <2>2. Paths' <=> Paths
    BY <1>0, <2>1, Zenon DEF Paths
  <2> QED BY <1>0, <2>1, <2>2, Zenon DEF Inv
<1>7. ASSUME mode' = "fresh" PROVE Table'
  <2>1. Table
    BY <1>0, <1>7, Zenon DEF Inv
  <2>2. ASSUME NEW i \in DOMAIN buckets
        PROVE  /\ buckets[i] = [H |-> buckets[i].H, Slots |-> buckets[i].Slots]
               /\ \/ i \in touched
                  \/ buckets[i].H = NilHash /\ buckets[i].Slots = <<>>
                  \/ /\ buckets[i].H = computeHash(buckets[i].Slots)
                     /\ buckets[i].H \in DOMAIN batch'.bucket \cup DOMAIN disk'.bucket \cup lost'
    <3>1. \A x : x \in DOMAIN batch.bucket \cup DOMAIN disk.bucket \cup lost
                    => x \in DOMAIN batch'.bucket \cup DOMAIN disk'.bucket \cup lost'
      BY <1>3, <1>b, Zenon
    <3> QED BY <2>1, <3>1, Zenon DEF Table
  <2> QED BY <1>0, <2>1, <2>2, Zenon DEF Table
<1>8. ASSUME mode' = "loaded"
      PROVE  touched' = {} /\ (\A p \in Position : nodeDirty'[p] = {}) /\ Recovered'
  <2>1. touched = {} /\ (\A p \in Position : nodeDirty[p] = {}) /\ Recovered /\ mode = "loaded"
    BY <1>0, <1>8, Zenon DEF Inv
  <2>2. ASSUME NEW i \in 0..(Cap - 1)
        PROVE  /\ bucketHash'[i] = H'[Leaf(i)]
               /\ bucketHash'[i] # NilHash => bucketHash'[i] \in DOMAIN disk'.bucket \cup lost'
    <3>1. /\ bucketHash[i] = H[Leaf(i)]
          /\ bucketHash[i] # NilHash => bucketHash[i] \in DOMAIN disk.bucket \cup lost
      BY <2>1, Zenon DEF Recovered
    <3> QED BY <1>0, <1>1, <1>3, <3>1, Zenon
  <2>3. Recovered'
    BY <2>2, Zenon DEF Recovered
  <2> QED BY <1>0, <2>1, <2>3, Zenon
<1> QED BY <1>4, <1>5, <1>6, <1>7, <1>8, Zenon DEF Inv

\* A key falls into a bucket of the table.
LEMMA IndexIs == \A k \in Nat : getIndex(k) \in 0..(Cap - 1)
BY TreeAssumption DEF getIndex

\* In a tree begun empty a put or a get finds its bucket in memory or makes a new one.
LEMMA BucketIs ==
    ASSUME Table, NEW i \in 0..(Cap - 1)
    PROVE  /\ i \notin DOMAIN buckets => Bucket(i) = NewBucket /\ ~Stored(i)
           /\ i \in DOMAIN buckets => Bucket(i) = buckets[i]
BY Zenon DEF Table, Bucket, Stored

\* A get changes nothing of a tree begun empty, and keeps a bucket in memory otherwise.
LEMMA GetInv == ASSUME Inv, NEW k \in Keys, Get(k) PROVE Inv'
<1>0. /\ mode' = mode /\ mode # "loaded" /\ Stored(getIndex(k))
      /\ buckets' = Override([i \in {getIndex(k)} |-> Bucket(i)], buckets)
      /\ UNCHANGED <<bucketHash, touched, dirty, H, Children, nodeDirty, batch, disk, commits, clean, lost>>
  BY DEF Get, nodeVars
<1>1. getIndex(k) \in 0..(Cap - 1)
  BY TreeAssumption, IndexIs, Zenon
<1>2. DOMAIN buckets' = {getIndex(k)} \cup DOMAIN buckets
  BY <1>0, Zenon DEF Override
<1>3. TypeOK'
  BY <1>0, <1>1, <1>2, Zenon DEF TypeOK, Inv
<1>4. ASSUME mode = "fresh" PROVE Linked' /\ Paths' /\ LeafHashes' /\ Table'
  <2>1. Linked /\ Paths /\ LeafHashes /\ Table
    BY <1>4, Zenon DEF Inv
  <2>2. getIndex(k) \in DOMAIN buckets /\ Bucket(getIndex(k)) = buckets[getIndex(k)]
    BY <1>0, <1>1, <2>1, BucketIs, Zenon
  <2>3. DOMAIN buckets' = DOMAIN buckets /\ \A i \in DOMAIN buckets : buckets'[i] = buckets[i]
    <3>1. DOMAIN buckets' = DOMAIN buckets
      BY <1>2, <2>2, Zenon
    <3>2. ASSUME NEW i \in DOMAIN buckets PROVE buckets'[i] = buckets[i]
      BY <1>0, <2>2, Zenon DEF Override
    <3> QED BY <3>1, <3>2, Zenon
  <2>4. Linked' /\ Used' = Used
    BY <1>0, <2>1, Zenon DEF Linked, Used
  <2>5. Paths'
    BY <1>0, <2>1, <2>4, Zenon DEF Paths
  <2>6. LeafHashes'
    <3>1. ASSUME NEW i \in Leaves
          PROVE  /\ H[Leaf(i)] # NilHash => H[Leaf(i)] = Sha("bucket", H[Leaf(i)][2])
                 /\ IF i \in DOMAIN buckets' THEN buckets'[i].H = H[Leaf(i)] ELSE H[Leaf(i)] = NilHash
      BY <2>1, <2>3, Zenon DEF LeafHashes
    <3> QED BY <1>0, <3>1, Zenon DEF LeafHashes
  <2>7. Table'
    <3>1. ASSUME NEW i \in DOMAIN buckets'
          PROVE  /\ buckets'[i] = [H |-> buckets'[i].H, Slots |-> buckets'[i].Slots]
                 /\ \/ i \in touched
                    \/ buckets'[i].H = NilHash /\ buckets'[i].Slots = <<>>
                    \/ /\ buckets'[i].H = computeHash(buckets'[i].Slots)
                       /\ buckets'[i].H \in DOMAIN batch.bucket \cup DOMAIN disk.bucket \cup lost
      BY <2>1, <2>3, Zenon DEF Table
    <3> QED BY <1>0, <2>1, <2>3, <3>1, Zenon DEF Table
  <2> QED BY <2>1, <2>4, <2>5, <2>6, <2>7, Zenon
<1> QED BY <1>0, <1>3, <1>4, Zenon DEF Inv

\* Prepare keeps the invariant: it changes buckets of the table only, and those whose
\* slots it changes are touched.
LEMMA PrepareInv == ASSUME Inv, NEW set \in WriteSet, Prepare(set) PROVE Inv'
<1>0. PICK done \in SUBSET DOMAIN set :
        LET bad == {k \in DOMAIN set : ~Loads(getIndex(k))}
            part == [k \in done |-> set[k]]
            hit == {getIndex(k) : k \in done}
            after == [i \in hit |-> Put(Bucket(i).Slots, InBucket(part, i))]
        IN /\ buckets' = Override([i \in hit |-> [H |-> Bucket(i).H, Slots |-> after[i]]], buckets)
           /\ touched' = touched \cup {i \in hit : Changed(Bucket(i).Slots, after[i])}
           /\ dirty' = (dirty \/ (bad = {} /\ touched' # {}))
           /\ clean' = (clean /\ content' = content)
  BY Zenon DEF Prepare
<1> DEFINE hit == {getIndex(k) : k \in done}
           after == [i \in hit |-> Put(Bucket(i).Slots, InBucket([k \in done |-> set[k]], i))]
<1>1. /\ buckets' = Override([i \in hit |-> [H |-> Bucket(i).H, Slots |-> after[i]]], buckets)
      /\ touched' = touched \cup {i \in hit : Changed(Bucket(i).Slots, after[i])}
      /\ dirty' \in BOOLEAN /\ clean' \in BOOLEAN
  BY <1>0, Zenon
<1>2. /\ mode' = mode /\ mode # "loaded"
      /\ UNCHANGED <<bucketHash, H, Children, nodeDirty, batch, disk, commits, lost>>
  BY DEF Prepare, nodeVars
<1>3. hit \subseteq 0..(Cap - 1)
  <2>1. DOMAIN set \subseteq Keys
    BY Zenon DEF WriteSet
  <2>2. done \subseteq Nat
    BY <2>1, TreeAssumption, Zenon
  <2> QED BY <2>2, IndexIs, Zenon
<1> HIDE DEF hit, after
<1>4. DOMAIN buckets' = hit \cup DOMAIN buckets
  BY <1>1, Zenon DEF Override
<1>5. /\ \A i \in hit : buckets'[i] = [H |-> Bucket(i).H, Slots |-> after[i]]
      /\ \A i \in DOMAIN buckets : i \notin hit => buckets'[i] = buckets[i]
  BY <1>1, Zenon DEF Override
<1>6. TypeOK'
  <2>1. TypeOK
    BY Zenon DEF Inv
  <2>2. touched' \subseteq DOMAIN buckets'
    BY <1>1, <1>4, <2>1, Zenon DEF TypeOK
  <2> QED BY <1>1, <1>2, <1>3, <1>4, <2>1, <2>2, Zenon DEF TypeOK
<1>7. ASSUME mode = "fresh" PROVE Linked' /\ Paths' /\ LeafHashes' /\ Table'
  <2>1. Linked /\ Paths /\ LeafHashes /\ Table
    BY <1>7, Zenon DEF Inv
  <2>2. Linked' /\ Used' = Used
    BY <1>2, <2>1, Zenon DEF Linked, Used
  <2>3. Paths'
    BY <1>2, <2>1, <2>2, Zenon DEF Paths
  <2>4. ASSUME NEW i \in hit
        PROVE  /\ i \in 0..(Cap - 1)
               /\ i \notin DOMAIN buckets => Bucket(i) = NewBucket
               /\ i \in DOMAIN buckets => Bucket(i) = buckets[i]
               /\ Bucket(i) = [H |-> Bucket(i).H, Slots |-> Bucket(i).Slots]
    <3>1. i \in 0..(Cap - 1)
      BY <1>3, Zenon
    <3>2. /\ i \notin DOMAIN buckets => Bucket(i) = NewBucket
          /\ i \in DOMAIN buckets => Bucket(i) = buckets[i]
      BY <2>1, <3>1, BucketIs, Zenon
    <3>3. NewBucket = [H |-> NewBucket.H, Slots |-> NewBucket.Slots]
      BY DEF NewBucket
    <3>4. i \in DOMAIN buckets => buckets[i] = [H |-> buckets[i].H, Slots |-> buckets[i].Slots]
      BY <2>1, Zenon DEF Table
    <3> QED BY <3>1, <3>2, <3>3, <3>4, Zenon
  <2>5. NewBucket.H = NilHash /\ NewBucket.Slots = <<>>
    BY DEF NewBucket
  <2>6. ASSUME NEW i \in hit
        PROVE  buckets'[i].H = Bucket(i).H /\ buckets'[i].Slots = after[i]
    <3>1. PICK b, h, s : b = buckets'[i] /\ h = Bucket(i).H /\ s = after[i]
      OBVIOUS
    <3>2. b = [H |-> h, Slots |-> s]
      BY <1>5, <3>1, Zenon
    <3>3. b.H = h /\ b.Slots = s
      BY ONLY <3>2
    <3> QED BY <3>1, <3>3, Zenon
  <2>7. LeafHashes'
    <3>1. ASSUME NEW i \in Leaves
          PROVE  /\ H[Leaf(i)] # NilHash => H[Leaf(i)] = Sha("bucket", H[Leaf(i)][2])
                 /\ IF i \in DOMAIN buckets' THEN buckets'[i].H = H[Leaf(i)] ELSE H[Leaf(i)] = NilHash
      <4>1. /\ H[Leaf(i)] # NilHash => H[Leaf(i)] = Sha("bucket", H[Leaf(i)][2])
            /\ IF i \in DOMAIN buckets THEN buckets[i].H = H[Leaf(i)] ELSE H[Leaf(i)] = NilHash
        BY <2>1, Zenon DEF LeafHashes
      <4>2. CASE i \in hit
        BY <1>4, <2>4, <2>5, <2>6, <4>1, <4>2, Zenon
      <4>3. CASE i \notin hit
        BY <1>4, <1>5, <4>1, <4>3, Zenon
      <4> QED BY <4>2, <4>3, Zenon
    <3> QED BY <1>2, <3>1, Zenon DEF LeafHashes
  <2>8. Table'
    <3>1. ASSUME NEW i \in DOMAIN buckets'
          PROVE  /\ buckets'[i] = [H |-> buckets'[i].H, Slots |-> buckets'[i].Slots]
                 /\ \/ i \in touched'
                    \/ buckets'[i].H = NilHash /\ buckets'[i].Slots = <<>>
                    \/ /\ buckets'[i].H = computeHash(buckets'[i].Slots)
                       /\ buckets'[i].H \in DOMAIN batch.bucket \cup DOMAIN disk.bucket \cup lost
      <4>1. CASE i \in hit
        <5>1. buckets'[i] = [H |-> buckets'[i].H, Slots |-> buckets'[i].Slots]
          BY <1>5, <2>6, <4>1, Zenon
        <5>2. CASE i \in touched'
          BY <5>1, <5>2, Zenon
        <5>3. CASE i \notin touched'
          <6>1. i \notin touched /\ ~Changed(Bucket(i).Slots, after[i])
            BY <1>1, <4>1, <5>3, Zenon
          <6>2. after[i] = Bucket(i).Slots
            BY <6>1, Zenon DEF Changed
          <6>3. buckets'[i] = Bucket(i)
            BY <1>5, <2>4, <4>1, <6>2, Zenon
          <6>4. CASE i \in DOMAIN buckets
            <7>1. buckets'[i] = buckets[i]
              BY <2>4, <4>1, <6>3, <6>4, Zenon
            <7> QED BY <2>1, <5>1, <6>1, <6>4, <7>1, Zenon DEF Table
          <6>5. CASE i \notin DOMAIN buckets
            BY <2>4, <2>5, <4>1, <5>1, <6>3, <6>5, Zenon
          <6> QED BY <6>4, <6>5, Zenon
        <5> QED BY <5>2, <5>3, Zenon
      <4>2. CASE i \notin hit
        <5>1. i \in DOMAIN buckets /\ buckets'[i] = buckets[i]
          BY <1>4, <1>5, <4>2, Zenon
        <5>2. i \in touched => i \in touched'
          BY <1>1, Zenon
        <5> QED BY <2>1, <5>1, <5>2, Zenon DEF Table
      <4> QED BY <4>1, <4>2, Zenon
    <3>2. \A i \in 0..(Cap - 1) : i \notin DOMAIN buckets' => bucketHash[i] = NilHash
      BY <1>4, <2>1, Zenon DEF Table
    <3> QED BY <1>2, <2>1, <3>1, <3>2, Zenon DEF Table
  <2> QED BY <2>2, <2>3, <2>7, <2>8, Zenon
<1> QED BY <1>2, <1>6, <1>7, Zenon DEF Inv

----------------------------------------------------------------------------
(* The theorems. *)

\* The initial state satisfies the invariant.
LEMMA InitInv == Init => Inv
<1> SUFFICES ASSUME Init PROVE Inv
  OBVIOUS
<1>0. /\ mode = "fresh" /\ buckets = <<>> /\ bucketHash = [i \in 0..(Cap - 1) |-> NilHash]
      /\ touched = {} /\ dirty = FALSE /\ clean = FALSE /\ commits = 0
      /\ H = [p \in Position |-> NilHash]
      /\ Children = [p \in Position |-> [c \in Branch |-> NilHash]]
      /\ nodeDirty = [p \in Position |-> {}]
      /\ batch = NoDisk /\ disk = NoDisk /\ lost = {}
  BY Zenon DEF Init
<1>1. DOMAIN buckets = {}
  BY <1>0
<1>2. TypeOK
  <2>1. commits \in 0..MaxCommits
    BY <1>0, TreeAssumption
  <2> QED BY <1>0, <1>1, <2>1, Zenon DEF TypeOK
<1>3. /\ Closed(disk, DOMAIN disk.bucket \cup lost)
      /\ Closed(batch, DOMAIN batch.bucket \cup DOMAIN disk.bucket \cup lost)
  BY <1>0, NoDiskClosed, Zenon
<1>4. Linked
  <2>1. ASSUME NEW p \in Position
        PROVE  /\ H[p] = NilHash /\ Children[p] = NilKids
               /\ Children[p] = [c \in Branch |-> Children[p][c]]
    BY <1>0, Zenon DEF NilKids
  <2>2. ASSUME NEW p \in Position, ~isLeaf(p), NEW c \in Branch
        PROVE  Children[p][c] = H[Child(p, c)]
    <3>1. Child(p, c) \in Position
      BY <2>2, ChildIs, Zenon
    <3>2. NilKids[c] = NilHash
      BY Zenon DEF NilKids
    <3> QED BY <2>1, <3>1, <3>2, Zenon
  <2> QED BY <2>1, <2>2, Zenon DEF Linked
<1>5. \A i \in Leaves : H[Leaf(i)] = NilHash
  BY <1>0, LeafIs, Zenon
<1>6. Used = {}
  BY <1>5, Zenon DEF Used
<1>7. Paths
  <2>1. \A p : ~Under(p, {})
    BY Zenon DEF Under
  <2>2. \A p \in Position : H[p] = NilHash /\ nodeDirty[p] = {} /\ Children[p] = NilKids
    BY <1>0, Zenon DEF NilKids
  <2> QED BY <1>6, <2>1, <2>2, Zenon DEF Paths
<1>8. LeafHashes
  BY <1>1, <1>5, Zenon DEF LeafHashes
<1>9. Table
  BY <1>0, <1>1, Zenon DEF Table
<1>10. mode # "loaded"
  BY <1>0
<1> QED BY <1>2, <1>3, <1>4, <1>7, <1>8, <1>9, <1>10, Zenon DEF Inv

\* Every step keeps the invariant.
LEMMA NextInv == Inv /\ [Next]_vars => Inv'
<1> SUFFICES ASSUME Inv, [Next]_vars PROVE Inv'
  OBVIOUS
<1>1. ASSUME NEW set \in WriteSet, Prepare(set) PROVE Inv'
  BY <1>1, PrepareInv, Zenon
<1>2. ASSUME NEW k \in Keys, Get(k) PROVE Inv'
  BY <1>2, GetInv, Zenon
<1>3. CASE UseLoaded \/ Purge
  BY <1>3, PurgeInv, Zenon
<1>4. CASE Process
  BY <1>4, ProcessInv, Zenon
<1>5. CASE Commit
  BY <1>5, CommitInv, Zenon
<1>6. CASE Write \/ GiveUp
  BY <1>6, WriteInv, Zenon
<1>7. CASE Reopen
  <2>1. batch' = NoDisk /\ UNCHANGED <<disk, commits, lost>>
    BY <1>7, Zenon DEF Reopen
  <2>2. CASE NewTree
    BY <2>1, <2>2, NewTreeInv, Zenon
  <2>3. ASSUME NEW root \in DOMAIN disk.table, Load(root) PROVE Inv'
    BY <2>1, <2>3, LoadInv, Zenon
  <2> QED BY <1>7, <2>2, <2>3, Zenon DEF Reopen
<1>8. CASE UNCHANGED vars
  <2>1. UNCHANGED <<mode, buckets, bucketHash, touched, dirty, H, Children, nodeDirty,
                    batch, disk, commits, clean, lost>>
    BY <1>8, Zenon DEF vars, tableVars, nodeVars
  <2>2. TypeOK' <=> TypeOK
    BY <2>1, Zenon DEF TypeOK
  <2>3. (Linked' <=> Linked) /\ Used' = Used /\ (LeafHashes' <=> LeafHashes)
    BY <2>1, Zenon DEF Linked, Used, LeafHashes
  <2>4. (Paths' <=> Paths) /\ (Table' <=> Table) /\ (Recovered' <=> Recovered)
    BY <2>1, <2>3, Zenon DEF Paths, Table, Recovered
  <2> QED BY <2>1, <2>2, <2>3, <2>4, Zenon DEF Inv
<1> QED BY <1>1, <1>2, <1>3, <1>4, <1>5, <1>6, <1>7, <1>8, Zenon DEF Next

\* The invariant holds of every behaviour, whatever the keys, the values, the capacity and
\* the aggregation are, and wherever the process ends between Commit and Write.
THEOREM TreeInvariant == Spec => []Inv
BY InitInv, NextInv, PTL DEF Spec

\* The nodes' hashes are those of their children (node.go:65-89, tree.go:161-189), also in a
\* tree read back from the database (tree.go:104-132).
THEOREM TreeConsistentCorrect == Spec => []TreeConsistent
<1>1. Inv => TreeConsistent
  <2> SUFFICES ASSUME Inv PROVE TreeConsistent
    OBVIOUS
  <2>1. TypeOK /\ (mode \in {"fresh", "loaded"} => Linked)
    BY Zenon DEF Inv
  <2>2. \A c \in Branch : NilKids[c] = NilHash
    BY Zenon DEF NilKids
  <2>3. ASSUME mode \in {"fresh", "loaded"}, NEW p \in Position, ~isLeaf(p)
        PROVE  /\ \A c \in Branch : Children[p][c] = H[Child(p, c)]
               /\ H[p] # NilHash => H[p] = Sha("node", Children[p])
               /\ H[p] = NilHash => \A c \in Branch : Children[p][c] = NilHash
    BY <2>1, <2>2, <2>3, Zenon DEF Linked
  <2> QED BY <2>1, <2>3, Zenon DEF TreeConsistent
<1> QED BY <1>1, TreeInvariant, PTL

\* A tree read back from any root the database has agrees with its table, and every bucket
\* of the table can be read but those of batches given up (tree.go:194-225).
THEOREM RecoveredCorrect == Spec => []Recovered
<1>1. Inv => Recovered
  BY Zenon DEF Inv, Recovered
<1> QED BY <1>1, TreeInvariant, PTL

\* What the tree computed from scratch has at each node.
LEMMA ScratchIs ==
    ASSUME NEW table, NEW leafHash
    PROVE  LET hash == Scratch(table, leafHash) IN
           \A p \in Position : hash[p] =
              IF isLeaf(p)
              THEN IF p[2] \in DOMAIN table /\ table[p[2]].Slots # <<>>
                   THEN computeHash(table[p[2]].Slots) ELSE leafHash[p]
              ELSE LET below == [c \in Branch |-> hash[Child(p, c)]]
                   IN IF p # Root /\ \A c \in Branch : below[c] = NilHash
                      THEN NilHash ELSE Sha("node", below)
<1> DEFINE Low(p) == IF p[2] \in DOMAIN table /\ table[p[2]].Slots # <<>>
                     THEN computeHash(table[p[2]].Slots) ELSE leafHash[p]
           High(p, below) == IF p # Root /\ \A c \in Branch : below[c] = NilHash
                             THEN NilHash ELSE Sha("node", below)
           At(f, p) == IF isLeaf(p) THEN Low(p) ELSE High(p, [c \in Branch |-> f[Child(p, c)]])
           Is(f, n) == f = [p \in Position |-> f[p]]
                       /\ \A p \in Position : p[1] + n >= llevel => f[p] = At(f, p)
           T == {n \in Nat : \E f : Is(f, n)}
           hash == CHOOSE h : h = [p \in Position |-> At(h, p)]
<1>s. Scratch(table, leafHash) = hash
  BY Zenon DEF Scratch
<1> HIDE DEF hash
<1>g. ASSUME NEW f, NEW p
      PROVE  At(f, p) = IF isLeaf(p)
                        THEN IF p[2] \in DOMAIN table /\ table[p[2]].Slots # <<>>
                             THEN computeHash(table[p[2]].Slots) ELSE leafHash[p]
                        ELSE LET below == [c \in Branch |-> f[Child(p, c)]]
                             IN IF p # Root /\ \A c \in Branch : below[c] = NilHash
                                THEN NilHash ELSE Sha("node", below)
  BY Zenon
<1> HIDE DEF Low, High
<1>0. llevel \in Nat /\ \A p \in Position : p[1] \in Nat /\ p[1] <= llevel
  BY PositionIs, LevelExists
<1>1. 0 \in T
  <2> DEFINE g == [p \in Position |-> Low(p)]
  <2>1. ASSUME NEW p \in Position, p[1] + 0 >= llevel PROVE isLeaf(p)
    BY <1>0, <2>1 DEF isLeaf
  <2>2. \A p \in Position : p[1] + 0 >= llevel => g[p] = At(g, p)
    BY <2>1, Zenon
  <2>3. g = [p \in Position |-> g[p]]
    BY Zenon
  <2> HIDE DEF g, At
  <2>4. Is(g, 0)
    BY <2>2, <2>3, Zenon
  <2> QED BY <2>4
<1>2. ASSUME NEW n \in Nat, n \in T PROVE n + 1 \in T
  <2>1. PICK f : Is(f, n)
    BY <1>2, Zenon
  <2> DEFINE g == [p \in Position |-> IF p[1] + n >= llevel THEN f[p] ELSE At(f, p)]
  <2>2. ASSUME NEW p \in Position, p[1] + (n + 1) >= llevel PROVE g[p] = At(g, p)
    <3>1. g[p] = At(f, p)
      BY <2>1, Zenon
    <3>2. ASSUME NEW c \in Branch, ~isLeaf(p) PROVE g[Child(p, c)] = f[Child(p, c)]
      <4>1. Child(p, c) \in Position /\ Child(p, c)[1] = p[1] + 1
        BY <3>2, ChildIs, Zenon
      <4>2. Child(p, c)[1] + n >= llevel
        BY <1>0, <2>2, <4>1
      <4> QED BY <4>1, <4>2, Zenon
    <3> HIDE DEF g
    <3>3. ~isLeaf(p) => [c \in Branch |-> f[Child(p, c)]] = [c \in Branch |-> g[Child(p, c)]]
      BY <3>2, Zenon
    <3>4. At(f, p) = At(g, p)
      BY <3>3, Zenon
    <3> HIDE DEF At
    <3> QED BY <3>1, <3>4, Zenon
  <2>3. g = [p \in Position |-> g[p]]
    BY Zenon
  <2>4. n + 1 \in Nat
    OBVIOUS
  <2> HIDE DEF g, At
  <2>5. Is(g, n + 1)
    BY <2>2, <2>3, Zenon
  <2> HIDE DEF Is
  <2> QED BY <2>4, <2>5, Zenon
<1>3. \A n \in Nat : n \in T
  <2> HIDE DEF T
  <2> QED BY <1>1, <1>2, NatInd
<1>4. PICK f : Is(f, llevel)
  BY <1>0, <1>3, Zenon
<1>5. \A p \in Position : p[1] + llevel >= llevel
  BY <1>0
<1>6. f = [p \in Position |-> At(f, p)]
  <2> HIDE DEF At
  <2> QED BY <1>4, <1>5, Zenon
<1>7. hash = [p \in Position |-> At(hash, p)]
  <2> HIDE DEF At
  <2> QED BY <1>6, Zenon DEF hash
<1> HIDE DEF At
<1>8. \A p \in Position : hash[p] = At(hash, p)
  BY <1>7, Zenon
<1> QED BY <1>s, <1>g, <1>8, Zenon

\* Process in a tree begun empty gives the root of the tree computed from scratch.
LEMMA ProcessScratch ==
    ASSUME Inv, Process, mode = "fresh"
    PROVE  H'[Root] = Scratch(buckets', H')[Root]
<1> DEFINE hash == Scratch(buckets', H')
           below(p) == [c \in Branch |-> hash[Child(p, c)]]
<1>0. /\ buckets' = Hashed /\ Processed(buckets') /\ touched' = touched
      /\ TypeOK /\ Linked /\ Paths /\ LeafHashes /\ Table
  BY Zenon DEF Inv, Process
<1>1. Linked' /\ Paths' /\ LeafHashes' /\ H'[Root] # NilHash
  BY <1>0, ProcessedFresh, Zenon
<1>2. Table'
  <2>1. Inv' /\ mode' = "fresh"
    BY ProcessInv, Zenon DEF Process
  <2> QED BY <2>1, Zenon DEF Inv
<1>3. \A p \in Position :
        /\ isLeaf(p) => hash[p] = IF p[2] \in DOMAIN buckets' /\ buckets'[p[2]].Slots # <<>>
                                  THEN computeHash(buckets'[p[2]].Slots) ELSE H'[p]
        /\ ~isLeaf(p) => hash[p] = IF p # Root /\ \A c \in Branch : below(p)[c] = NilHash
                                   THEN NilHash ELSE Sha("node", below(p))
  BY ScratchIs, ZenonT(40)
<1> HIDE DEF hash
<1> DEFINE S == {p \in Position : p # Root => hash[p] = H'[p]}
<1>4. ASSUME NEW p \in Position, isLeaf(p) PROVE hash[p] = H'[p]
  <2>1. PICK i \in Leaves : i = p[2] /\ p = Leaf(i)
    BY <1>4, LeafIs, Zenon
  <2>2. CASE i \in DOMAIN buckets' /\ buckets'[i].Slots # <<>>
    <3>1. hash[p] = computeHash(buckets'[i].Slots)
      BY <1>3, <1>4, <2>1, <2>2, Zenon
    <3>2. buckets'[i].H = H'[p]
      BY <1>1, <2>1, <2>2, Zenon DEF LeafHashes
    <3>3. CASE i \in touched
      BY <1>0, <2>2, <3>1, <3>2, <3>3, HashedIs, Zenon
    <3>4. CASE i \notin touched
      BY <1>0, <1>2, <2>2, <3>1, <3>2, <3>4, Zenon DEF Table
    <3> QED BY <3>3, <3>4, Zenon
  <2>3. CASE ~(i \in DOMAIN buckets' /\ buckets'[i].Slots # <<>>)
    BY <1>3, <1>4, <2>1, <2>3, Zenon
  <2> QED BY <2>2, <2>3, Zenon
<1>5. ASSUME NEW p \in Position, ~isLeaf(p), \A c \in Branch : Child(p, c) \in S
      PROVE  below(p) = Children'[p]
  <2>1. ASSUME NEW c \in Branch PROVE hash[Child(p, c)] = Children'[p][c]
    <3>1. hash[Child(p, c)] = H'[Child(p, c)]
      BY <1>5, ChildIs, Zenon
    <3> QED BY <1>1, <1>5, <3>1, Zenon DEF Linked
  <2>2. Children'[p] = [c \in Branch |-> Children'[p][c]]
    BY <1>1, Zenon DEF Linked
  <2> QED BY <2>1, <2>2, Zenon
<1>6. ASSUME NEW p \in Position, isLeaf(p) \/ \A c \in Branch : Child(p, c) \in S
      PROVE  p \in S
  <2>1. CASE isLeaf(p)
    BY <1>4, <2>1, Zenon
  <2>2. CASE ~isLeaf(p) /\ p # Root
    <3>1. below(p) = Children'[p]
      BY <1>5, <1>6, <2>2, Zenon
    <3>2. CASE \A c \in Branch : below(p)[c] = NilHash
      <4>1. hash[p] = NilHash
        BY <1>3, <2>2, <3>2, Zenon
      <4>2. ASSUME NEW c \in Branch PROVE H'[Child(p, c)] = NilHash
        <5> HIDE DEF below
        <5>1. Children'[p][c] = H'[Child(p, c)]
          BY <1>1, <2>2, Zenon DEF Linked
        <5>2. Children'[p][c] = NilHash
          BY <3>1, <3>2, Zenon
        <5> QED BY <5>1, <5>2, Zenon
      <4>3. \A c \in Branch : ~Under(Child(p, c), Used')
        BY <1>1, <2>2, <4>2, ChildIs, Zenon DEF Paths
      <4>4. Used' \in SUBSET Leaves
        BY Zenon DEF Used
      <4>5. ~Under(p, Used')
        BY <2>2, <4>3, <4>4, UnderIs, Zenon
      <4>6. H'[p] = NilHash
        BY <1>1, <2>2, <4>5, Zenon DEF Paths
      <4> QED BY <4>1, <4>6, Zenon
    <3>3. CASE ~\A c \in Branch : below(p)[c] = NilHash
      <4>1. hash[p] = Sha("node", Children'[p])
        BY <1>3, <2>2, <3>1, <3>3, Zenon
      <4>2. Children'[p] # NilKids
        <5> HIDE DEF below
        <5> QED BY <3>1, <3>3, Zenon DEF NilKids
      <4>3. H'[p] = Sha("node", Children'[p])
        BY <1>1, <2>2, <4>2, Zenon DEF Linked
      <4> QED BY <4>1, <4>3, Zenon
    <3> QED BY <3>2, <3>3, Zenon
  <2>3. CASE p = Root
    BY <2>3, Zenon
  <2> QED BY <2>1, <2>2, <2>3, Zenon
<1>7. Position \subseteq S
  <2> HIDE DEF S
  <2> QED BY <1>6, FromLeaves, Zenon
<1>8. Root \in Position /\ ~isLeaf(Root)
  BY RootIs, Zenon
<1>9. \A c \in Branch : Child(Root, c) \in S
  <2> HIDE DEF S
  <2> QED BY <1>7, <1>8, ChildIs, Zenon
<1>10. below(Root) = Children'[Root]
  <2> HIDE DEF S, below
  <2> QED BY <1>5, <1>8, <1>9, Zenon
<1>11. H'[Root] = Sha("node", Children'[Root])
  BY <1>1, <1>8, Zenon DEF Linked
<1>12. hash[Root] = Sha("node", below(Root))
  BY <1>3, <1>8, Zenon
<1> HIDE DEF below
<1>13. H'[Root] = hash[Root]
  BY <1>10, <1>11, <1>12, Zenon
<1> QED BY <1>13, Zenon DEF hash

\* The root that Process returns, having hashed along the dirty flags only, is the root of
\* the tree computed from scratch over all the buckets (tree.go:147-189, node.go:65-89).
THEOREM RootFromScratchCorrect == Spec => RootFromScratch
<1>1. Inv => (Process /\ mode = "fresh" => H'[Root] = Scratch(buckets', H')[Root])
  BY ProcessScratch, Zenon
<1> QED BY <1>1, TreeInvariant, PTL DEF RootFromScratch
====
