---------------------------- MODULE RbTreeProofs ----------------------------
(***************************************************************************)
(* Why the tree of rb.c stays a red-black tree at every step of every      *)
(* insertion and deletion, and is to its caller a function of prices, for  *)
(* every set of prices and volumes.                                        *)
(*                                                                         *)
(* IsTree says of some links that they are a search tree, with what is     *)
(* below each node; Heights and Reds, of colours, that they are those of a *)
(* red-black tree but for a gap and an exception at one link.  The first   *)
(* part proves what the code's elementary changes do to such a tree:       *)
(* rotations, a new leaf, a node spliced out or replaced, a path walked.   *)
(* The second puts the colours to each.  The third shows that the          *)
(* invariant of RbTree is this tree with the exception on top of the       *)
(* stack, and that every action keeps it.  The last is the refinement.     *)
(***************************************************************************)
EXTENDS RbTree, NumberProofs, SequenceTheorems

(* m is on side d of n, in the order of the prices.                        *)
Beside(m, d, n) == IF d = 0 THEN m < n ELSE n < m

(* The order on either side: strict, mirrored and transitive; rb_compare   *)
(* puts a price on the side it is on.                                      *)
LEMMA BesideFacts ==
  ASSUME NEW m \in Nat, NEW n \in Nat, NEW d \in Sides
  PROVE  /\ Beside(m, d, n) => m # n /\ Beside(n, 1 - d, m)
         /\ \A k \in Nat : Beside(m, d, n) /\ Beside(n, d, k) => Beside(m, d, k)
         /\ m # n => (Beside(m, d, n) <=> d = Direction(m, n))
  BY DEF Beside, Sides, Direction

(* There are two sides, each the other's mirror.                           *)
LEMMA SideFacts ==
  ASSUME NEW d \in Sides
  PROVE  /\ 1 - d \in Sides /\ 1 - d # d /\ 1 - (1 - d) = d
         /\ \A e \in Sides : e = d \/ e = 1 - d
  BY DEF Sides

(* What has links to the nodes of T.                                       *)
Above(T) == T \cup {Anchor}

(* What has links: the nodes and the anchor.                               *)
LEMMA AboveFacts ==
  ASSUME NEW T
  PROVE  /\ Anchor \in Above(T) /\ T \subseteq Above(T)
         /\ \A n \in Above(T) : n \in T \/ n = Anchor
         /\ \A D : T \subseteq D => Above(T) \subseteq Above(D)
  BY DEF Above

(* A tree: the links L of the nodes D, of which those of T are in the tree *)
(* and sub[n] are those below n.                                           *)
IsTree(L, D, T, sub) ==
  /\ IsFiniteSet(T) /\ T \subseteq D /\ D \subseteq Nat \ {0}
  /\ L \in [Above(D) -> [Sides -> T \cup {NULL}]]
  /\ L[Anchor][1] = NULL
  /\ \A n, m \in Above(T), d, e \in Sides :
       L[n][d] = L[m][e] /\ L[n][d] # NULL => n = m /\ d = e
  /\ sub \in [T \cup {NULL} -> SUBSET T]
  /\ sub[NULL] = {} /\ sub[L[Anchor][0]] = T
  /\ \A n \in T : sub[n] = {n} \cup sub[L[n][0]] \cup sub[L[n][1]]
  /\ \A n \in T, d \in Sides : \A m \in sub[L[n][d]] : Beside(m, d, n)

(* No node is NULL or the anchor.                                          *)
LEMMA NodeFacts ==
  /\ NULL = 0 /\ Anchor = -1 /\ NULL # Anchor
  /\ \A D \in SUBSET (Nat \ {0}) : NULL \notin D /\ Anchor \notin D
  BY DEF NULL, Anchor

(* The parts of IsTree that are about single links.                        *)
LEMMA TreeLinks ==
  ASSUME NEW L, NEW D, NEW T, NEW sub, IsTree(L, D, T, sub)
  PROVE  /\ NULL \notin T /\ Anchor \notin T /\ T \subseteq D /\ T \subseteq Nat
         /\ Anchor \in Above(T) /\ T \subseteq Above(T) /\ sub[NULL] = {}
         /\ \A n \in Above(T), d \in Sides : L[n][d] \in T \cup {NULL}
         /\ \A n \in Above(T), m \in Above(T), d \in Sides, e \in Sides :
              L[n][d] = L[m][e] /\ L[n][d] # NULL => n = m /\ d = e
<1>1. /\ NULL \notin T /\ Anchor \notin T /\ T \subseteq D /\ T \subseteq Nat
      /\ Anchor \in Above(T) /\ T \subseteq Above(T) /\ sub[NULL] = {}
  BY NodeFacts, AboveFacts DEF IsTree
<1>2. \A n \in Above(T), d \in Sides : L[n][d] \in T \cup {NULL}
  <2>1. L \in [Above(D) -> [Sides -> T \cup {NULL}]] /\ Above(T) \subseteq Above(D)
    BY AboveFacts, ZenonT(60) DEF IsTree
  <2>2. QED
    BY <2>1
<1>3. QED
  BY <1>1, <1>2 DEF IsTree

(* The children of a node, and what is below them.                         *)
LEMMA ChildFacts ==
  ASSUME NEW L, NEW D, NEW T, NEW sub, IsTree(L, D, T, sub), NEW n \in T
  PROVE  /\ n \in Nat /\ n # NULL /\ n # Anchor
         /\ n \in sub[n] /\ sub[n] \subseteq T
         /\ \A d \in Sides :
              /\ L[n][d] \in T \cup {NULL}
              /\ L[n][d] # n
              /\ n \notin sub[L[n][d]]
              /\ sub[L[n][d]] \subseteq sub[n]
              /\ sub[n] = {n} \cup sub[L[n][d]] \cup sub[L[n][1 - d]]
              /\ sub[L[n][1 - d]] \cap sub[L[n][d]] = {}
              /\ L[n][d] # NULL => L[n][d] \in sub[L[n][d]]
<1>1. n \in Nat /\ n # NULL /\ n # Anchor /\ T \subseteq Nat
  BY NodeFacts DEF IsTree
<1>2. L[n][0] \in T \cup {NULL} /\ L[n][1] \in T \cup {NULL}
  BY AboveFacts DEF IsTree, Sides
<1>3. /\ sub[n] = {n} \cup sub[L[n][0]] \cup sub[L[n][1]]
      /\ \A m \in sub[L[n][0]] : m < n
      /\ \A m \in sub[L[n][1]] : n < m
      /\ sub[L[n][0]] \subseteq T /\ sub[L[n][1]] \subseteq T
  BY <1>2 DEF IsTree, Beside, Sides
<1>4. \A m \in T : m \in sub[m]
  BY DEF IsTree
<1> DEFINE left == sub[L[n][0]]
           right == sub[L[n][1]]
<1>5. /\ left \subseteq Nat /\ right \subseteq Nat
      /\ \A m \in left : m < n
      /\ \A m \in right : n < m
  BY <1>1, <1>3
<1>6. n \notin left /\ n \notin right /\ left \cap right = {}
  <2> HIDE DEF left, right
  <2>1. QED
    BY <1>1, <1>5
<1>7. ASSUME NEW d \in Sides
      PROVE  /\ L[n][d] \in T \cup {NULL}
             /\ n \notin sub[L[n][d]]
             /\ sub[L[n][d]] \subseteq sub[n]
             /\ sub[n] = {n} \cup sub[L[n][d]] \cup sub[L[n][1 - d]]
             /\ sub[L[n][1 - d]] \cap sub[L[n][d]] = {}
             /\ L[n][d] # NULL => L[n][d] \in sub[L[n][d]]
  <2>1. d = 0 \/ d = 1
    BY DEF Sides
  <2>2. CASE d = 0
    BY <1>2, <1>3, <1>4, <1>6, <2>2
  <2>3. CASE d = 1
    BY <1>2, <1>3, <1>4, <1>6, <2>3
  <2>4. QED
    BY <2>1, <2>2, <2>3
<1>8. n \in sub[n] /\ sub[n] \subseteq T
  BY <1>3
<1>9. ASSUME NEW d \in Sides
      PROVE  L[n][d] # n
  BY <1>1, <1>7
<1>10. QED
  BY <1>1, <1>7, <1>8, <1>9

(* Induction over the nodes of a tree, from the leaves up.                 *)
LEMMA TreeInduction ==
  ASSUME NEW L, NEW D, NEW T, NEW sub, IsTree(L, D, T, sub), NEW P,
         \A n \in T : (\A d \in Sides : L[n][d] \in P \cup {NULL}) => n \in P
  PROVE  T \subseteq P
<1> DEFINE Size(n) == Cardinality(sub[n])
           Done == {k \in Nat : \A n \in T : Size(n) <= k => n \in P}
<1>1. \A n \in T : IsFiniteSet(sub[n]) /\ Size(n) \in Nat
  BY FS_Subset, FS_CardinalityType DEF IsTree
<1>2. \A n \in T : Size(n) # 0
  BY <1>1, ChildFacts, FS_EmptySet
<1>3. \A n \in T, d \in Sides : L[n][d] \in T => Size(L[n][d]) < Size(n)
  <2> SUFFICES ASSUME NEW n \in T, NEW d \in Sides, L[n][d] \in T
               PROVE  Size(L[n][d]) < Size(n)
    OBVIOUS
  <2>1. sub[L[n][d]] \subseteq sub[n] /\ n \in sub[n] /\ n \notin sub[L[n][d]]
    BY ChildFacts
  <2>2. /\ Size(L[n][d]) <= Size(n)
        /\ Size(L[n][d]) = Size(n) => sub[L[n][d]] = sub[n]
    BY <1>1, <2>1, FS_Subset
  <2>3. QED
    BY <1>1, <2>1, <2>2
<1>4. 0 \in Done
  BY <1>1, <1>2
<1>5. ASSUME NEW k \in Done PROVE k + 1 \in Done
  <2> SUFFICES ASSUME NEW n \in T, Size(n) <= k + 1 PROVE n \in P
    BY DEF Done
  <2>1. \A d \in Sides : L[n][d] \in T => L[n][d] \in P
    BY <1>1, <1>3 DEF Done
  <2>2. QED
    BY <2>1, ChildFacts DEF Sides
<1>6. Done = Nat
  <2>1. Done \in SUBSET Nat
    OBVIOUS
  <2> HIDE DEF Done
  <2>2. QED
    BY <1>4, <1>5, <2>1, SetInduction
<1>7. \A n \in T : Size(n) \in Done
  BY <1>1, <1>6
<1>8. \A n \in T : Size(n) <= Size(n)
  BY <1>1
<1>9. QED
  BY <1>7, <1>8

(* What is below a node that is below m, is below m; and the node above    *)
(* one that is below m, other than m itself, is below m.                   *)
LEMMA Nested ==
  ASSUME NEW L, NEW D, NEW T, NEW sub, IsTree(L, D, T, sub)
  PROVE  \A m \in T : \A n \in sub[m] : n \in T /\ sub[n] \subseteq sub[m]
<1> DEFINE P == {m \in T : \A n \in sub[m] : sub[n] \subseteq sub[m]}
<1>1. ASSUME NEW m \in T, \A d \in Sides : L[m][d] \in P \cup {NULL}
      PROVE  m \in P
  <2> SUFFICES ASSUME NEW n \in sub[m] PROVE sub[n] \subseteq sub[m]
    OBVIOUS
  <2>1. CASE n = m
    BY <2>1
  <2>2. ASSUME NEW d \in Sides, n \in sub[L[m][d]] PROVE sub[n] \subseteq sub[m]
    <3>1. L[m][d] # NULL
      BY <2>2 DEF IsTree
    <3>2. sub[n] \subseteq sub[L[m][d]]
      BY <1>1, <2>2, <3>1
    <3>3. QED
      BY <3>2, ChildFacts
  <2>3. sub[m] = {m} \cup sub[L[m][0]] \cup sub[L[m][1]]
    BY DEF IsTree
  <2>4. QED
    BY <2>1, <2>2, <2>3 DEF Sides
<1>2. T \subseteq P
  <2> HIDE DEF P
  <2>1. QED
    BY <1>1, TreeInduction
<1>3. QED
  BY <1>2 DEF IsTree

(* The same, upwards: the node above one that is below m.                  *)
LEMMA ParentBelow ==
  ASSUME NEW L, NEW D, NEW T, NEW sub, IsTree(L, D, T, sub),
         NEW n \in Above(T), NEW d \in Sides, L[n][d] # NULL
  PROVE  \A m \in T : L[n][d] \in sub[m] => L[n][d] = m \/ n \in sub[m]
<1> DEFINE c == L[n][d]
           P == {m \in T : c \in sub[m] => c = m \/ n \in sub[m]}
<1>1. ASSUME NEW m \in T, \A e \in Sides : L[m][e] \in P \cup {NULL}
      PROVE  m \in P
  <2> SUFFICES ASSUME c \in sub[m], c # m PROVE n \in sub[m]
    OBVIOUS
  <2>1. PICK e \in Sides : c \in sub[L[m][e]]
    BY DEF IsTree, Sides
  <2>2. L[m][e] # NULL
    BY <2>1 DEF IsTree
  <2>3. c = L[m][e] \/ n \in sub[L[m][e]]
    BY <1>1, <2>1, <2>2
  <2>4. c = L[m][e] => n = m
    BY AboveFacts DEF IsTree
  <2>5. QED
    BY <2>3, <2>4, ChildFacts
<1>2. T \subseteq P
  <2> HIDE DEF P
  <2>1. QED
    BY <1>1, TreeInduction
<1>3. QED
  BY <1>2

(* The node above one is not below it.                                     *)
LEMMA ParentAbove ==
  ASSUME NEW L, NEW D, NEW T, NEW sub, IsTree(L, D, T, sub),
         NEW n \in Above(T), NEW d \in Sides, L[n][d] # NULL
  PROVE  /\ L[n][d] \in T
         /\ n \notin sub[L[n][d]]
         /\ n # L[n][d]
         /\ n = Anchor => d = 0
<1>1. CASE n = Anchor
  <2>1. Anchor \notin T /\ Anchor \in Above(D)
    BY AboveFacts, NodeFacts DEF IsTree
  <2>2. d = 0 /\ L[n][d] \in T
    BY <1>1, <2>1 DEF IsTree, Sides
  <2>3. QED
    BY <1>1, <2>1, <2>2 DEF IsTree
<1>2. CASE n \in T
  BY <1>2, ChildFacts
<1>3. QED
  BY AboveFacts, <1>1, <1>2

-----------------------------------------------------------------------------
CanRotate(L, D, T, sub, g, d, y, parent, side) ==
  /\ IsTree(L, D, T, sub)
  /\ g \in T /\ d \in Sides /\ y = L[g][d] /\ y # NULL
  /\ parent \in Above(T) /\ side \in Sides /\ L[parent][side] = g

Rotated(L, T, sub, g, d, y) ==
  [n \in T \cup {NULL} |->
     IF n = y THEN sub[g]
     ELSE IF n = g THEN {g} \cup sub[L[g][1 - d]] \cup sub[L[y][1 - d]]
     ELSE sub[n]]

(* The links R after a rotation of L.                                      *)
LinksRotated(R, L, D, g, d, y, parent, side) ==
  /\ R[g][d] = L[y][1 - d] /\ R[y][1 - d] = g /\ R[parent][side] = y
  /\ \A n \in Above(D), e \in Sides :
       (n = g => e # d) /\ (n = y => e # 1 - d) /\ (n = parent => e # side)
         => R[n][e] = L[n][e]

(* A rotation: what it does to each link ...                               *)
LEMMA RotateLinks ==
  ASSUME NEW L, NEW D, NEW T, NEW sub, NEW g, NEW d, NEW y, NEW parent, NEW side,
         CanRotate(L, D, T, sub, g, d, y, parent, side)
  PROVE  /\ y \in T /\ y # g /\ parent # g /\ parent # y
         /\ Rotate(L, parent, side, g, d) \in [Above(D) -> [Sides -> T \cup {NULL}]]
         /\ LinksRotated(Rotate(L, parent, side, g, d), L, D, g, d, y, parent, side)
<1> USE DEF CanRotate
<1> DEFINE R == Rotate(L, parent, side, g, d)
<1>1. g # NULL
  BY ChildFacts
<1>2. y \in T /\ y # g /\ parent # g
  BY AboveFacts, <1>1, ParentAbove
<1>3. parent # y
  <2>1. SUFFICES ASSUME parent = y PROVE FALSE
    OBVIOUS
  <2>2. g \in sub[L[y][side]] /\ sub[L[y][side]] \subseteq sub[y]
    BY <1>1, <1>2, <2>1, ChildFacts
  <2>3. QED
    BY <2>2, ChildFacts
<1>4. g \in Above(D) /\ y \in Above(D) /\ parent \in Above(D)
  BY AboveFacts, <1>2 DEF IsTree, Above
<1>5. /\ L \in [Above(D) -> [Sides -> T \cup {NULL}]]
      /\ L[y][1 - d] \in T \cup {NULL}
  BY AboveFacts, <1>2, ChildFacts, SideFacts DEF IsTree
<1>6. R \in [Above(D) -> [Sides -> T \cup {NULL}]]
  BY <1>2, <1>4, <1>5, SideFacts DEF Rotate
<1>7. LinksRotated(R, L, D, g, d, y, parent, side)
  BY <1>2, <1>3, <1>4, <1>5, SideFacts, SMTT(30) DEF Rotate, LinksRotated
<1> HIDE DEF R
<1>8. QED
  BY <1>2, <1>3, <1>6, <1>7 DEF R

(* ... and that it keeps the tree, the two nodes apart.                    *)
LEMMA RotateTree ==
  ASSUME NEW L, NEW D, NEW T, NEW sub, NEW g, NEW d, NEW y, NEW parent, NEW side,
         CanRotate(L, D, T, sub, g, d, y, parent, side)
  PROVE  IsTree(Rotate(L, parent, side, g, d), D, T, Rotated(L, T, sub, g, d, y))
<1> DEFINE R == Rotate(L, parent, side, g, d)
           after == Rotated(L, T, sub, g, d, y)
<1> HIDE DEF R, after
<1> DEFINE a == L[y][d]
           c == L[y][1 - d]
           b == L[g][1 - d]
<1>0. /\ y \in T /\ y # g /\ parent # g /\ parent # y
      /\ R \in [Above(D) -> [Sides -> T \cup {NULL}]]
      /\ LinksRotated(R, L, D, g, d, y, parent, side)
  BY RotateLinks DEF R
<1>1. /\ y \in T /\ y # g /\ parent # g /\ parent # y
      /\ R \in [Above(D) -> [Sides -> T \cup {NULL}]]
      /\ R[g][d] = c /\ R[y][1 - d] = g /\ R[parent][side] = y
      /\ \A n \in Above(D), e \in Sides :
           (n = g => e # d) /\ (n = y => e # 1 - d) /\ (n = parent => e # side)
             => R[n][e] = L[n][e]
  BY <1>0 DEF LinksRotated
<1> USE DEF CanRotate
<1>2. T \subseteq D
  BY DEF IsTree
<1>3. /\ g # NULL /\ g # Anchor /\ y # NULL /\ y # Anchor
      /\ g \in Nat /\ y \in Nat
  BY <1>1, ChildFacts
<1>4. /\ a \in T \cup {NULL} /\ b \in T \cup {NULL} /\ c \in T \cup {NULL}
      /\ sub[g] = {g} \cup sub[y] \cup sub[b]
      /\ sub[y] = {y} \cup sub[a] \cup sub[c]
      /\ g \notin sub[y] /\ y \notin sub[a] /\ y \notin sub[c]
  BY <1>1, ChildFacts, SideFacts
<1>5. a # y /\ a # g /\ c # y /\ c # g
  <2>1. a # NULL => a \in sub[y]
    BY <1>1, ChildFacts, SideFacts
  <2>2. c # NULL => c \in sub[y]
    BY <1>1, ChildFacts, SideFacts
  <2>3. QED
    BY <1>1, <1>3, <1>4, <2>1, <2>2
<1>6. b # g /\ b # y
  BY AboveFacts, <1>1, <1>3, ChildFacts, SideFacts, SMTT(30) DEF IsTree
<1>7. /\ after[NULL] = {} /\ after[y] = sub[g] /\ after[a] = sub[a]
      /\ after[b] = sub[b] /\ after[c] = sub[c]
      /\ after[g] = {g} \cup sub[b] \cup sub[c]
      /\ \A n \in T \cup {NULL} : n # g /\ n # y => after[n] = sub[n]
  BY <1>1, <1>3, <1>4, <1>5, <1>6 DEF IsTree, after, Rotated
<1>8. \A n \in Above(T), e \in Sides :
        ~(n = g /\ e = d) => L[n][e] # y
  BY AboveFacts, <1>3 DEF IsTree
<1>9. \A n \in Above(T), e \in Sides :
        ~(n = parent /\ e = side) => L[n][e] # g
  BY <1>3 DEF IsTree
<1>10. after \in [T \cup {NULL} -> SUBSET T]
  <2>1. sub \in [T \cup {NULL} -> SUBSET T]
    BY DEF IsTree
  <2>2. sub[b] \subseteq T /\ sub[c] \subseteq T
    BY <1>4, <2>1, ZenonT(60)
  <2>3. \A n \in T \cup {NULL} : after[n] \subseteq T
    BY <1>7, <2>1, <2>2
  <2>4. QED
    BY <2>3 DEF after, Rotated
<1>11. R[Anchor][1] = NULL /\ after[R[Anchor][0]] = T
  <2>1. Anchor \in Above(D) /\ 0 \in Sides /\ 1 \in Sides
    BY AboveFacts DEF Sides
  <2>2. /\ L[Anchor][1] = NULL /\ sub[L[Anchor][0]] = T
        /\ L[Anchor][0] \in T \cup {NULL}
    BY <2>1 DEF IsTree
  <2>3. R[Anchor][1] = NULL
    BY <1>1, <1>3, <2>1, <2>2
  <2>4. CASE parent = Anchor
    <3>1. side = 0
      BY <1>3, <2>4, ParentAbove
    <3>2. R[Anchor][0] = y
      BY <1>1, <1>3, <2>1, <2>4, <3>1
    <3>3. QED
      BY <1>7, <2>2, <2>3, <2>4, <3>1, <3>2
  <2>5. CASE parent # Anchor
    <3>1. R[Anchor][0] = L[Anchor][0]
      BY <1>1, <1>3, <2>1, <2>5
    <3>2. L[Anchor][0] # g /\ L[Anchor][0] # y
      BY AboveFacts, <1>3, <1>8, <1>9, <2>1, <2>5
    <3>3. QED
      BY <1>7, <2>2, <2>3, <3>1, <3>2
  <2>6. QED
    BY <2>4, <2>5
<1>12. \A n, m \in Above(T), e, f \in Sides :
         R[n][e] = R[m][f] /\ R[n][e] # NULL => n = m /\ e = f
  <2>1. \A n, m \in Above(T), e, f \in Sides :
          L[n][e] = L[m][f] /\ L[n][e] # NULL => n = m /\ e = f
    BY DEF IsTree
  <2>2. \A n \in Above(T), e \in Sides :
          (n = g => e # d) /\ (n = y => e # 1 - d) /\ (n = parent => e # side)
            => R[n][e] = L[n][e]
    BY AboveFacts, <1>1, <1>2
  <2>3. \A n \in Above(T), e \in Sides :
          /\ L[n][e] = c /\ c # NULL => n = y /\ e = 1 - d
          /\ L[n][e] = g => n = parent /\ e = side
          /\ L[n][e] = y => n = g /\ e = d
    BY AboveFacts, <1>1, <1>3, <2>1, SideFacts
  <2>4. SUFFICES ASSUME NEW n \in Above(T), NEW m \in Above(T),
                        NEW e \in Sides, NEW f \in Sides,
                        R[n][e] = R[m][f], R[n][e] # NULL
                 PROVE  n = m /\ e = f
    OBVIOUS
  <2>5. c # g /\ c # y /\ g # y
    BY <1>1, <1>5
  <2> HIDE DEF a, b, c, CanRotate
  <2>6. CASE n = g /\ e = d
    BY <1>1, <2>2, <2>3, <2>4, <2>5, <2>6
  <2>7. CASE n = y /\ e = 1 - d
    BY <1>1, <2>2, <2>3, <2>4, <2>5, <2>7
  <2>8. CASE n = parent /\ e = side
    BY <1>1, <2>2, <2>3, <2>4, <2>5, <2>8
  <2>9. ASSUME ~(n = g /\ e = d), ~(n = y /\ e = 1 - d), ~(n = parent /\ e = side)
        PROVE  n = m /\ e = f
    <3>1. R[n][e] = L[n][e]
      BY <2>2, <2>9
    <3>2. R[m][f] = L[m][f]
      <4>1. L[n][e] # g /\ L[n][e] # y /\ (L[n][e] = c => c = NULL)
        BY <2>3, <2>9
      <4>2. L[n][e] = R[m][f] /\ L[n][e] # NULL
        BY <2>4, <3>1
      <4>3. (m = g => f # d) /\ (m = y => f # 1 - d) /\ (m = parent => f # side)
        BY <1>1, <4>1, <4>2
      <4>4. QED
        BY <2>2, <4>3
    <3>3. R[n][e] = R[m][f] /\ R[n][e] # NULL
      BY <2>4
    <3>4. L[n][e] = L[m][f] /\ L[n][e] # NULL
      BY <3>1, <3>2, <3>3
    <3>5. QED
      BY <2>1, <3>4
  <2>10. QED
    BY <2>6, <2>7, <2>8, <2>9
<1>13. ASSUME NEW n \in T
       PROVE  /\ after[n] = {n} \cup after[R[n][0]] \cup after[R[n][1]]
              /\ \A e \in Sides : \A m \in after[R[n][e]] : Beside(m, e, n)
  <2> HIDE DEF a, b, c
  <2>1. \A k \in T, e \in Sides : \A m \in sub[L[k][e]] :
          Beside(m, e, k) /\ m \in Nat
    BY AboveFacts, ChildFacts DEF IsTree
  <2>2. L[g][d] = y /\ L[g][1 - d] = b /\ L[y][d] = a /\ L[y][1 - d] = c
    BY DEF a, b, c
  <2>3. SUFFICES /\ after[n] = {n} \cup after[R[n][d]] \cup after[R[n][1 - d]]
                 /\ \A m \in after[R[n][d]] : Beside(m, d, n)
                 /\ \A m \in after[R[n][1 - d]] : Beside(m, 1 - d, n)
    <3>1. d = 0 \/ d = 1
      BY DEF Sides
    <3>2. CASE d = 0
      BY <2>3, <3>2 DEF Sides
    <3>3. CASE d = 1
      BY <2>3, <3>3 DEF Sides
    <3>4. QED
      BY <3>1, <3>2, <3>3
  <2>4. CASE n = g
    <3>1. R[g][d] = c /\ R[g][1 - d] = b
      BY AboveFacts, <1>1, <1>2, <2>2, SideFacts
    <3>2. \A m \in sub[c] : Beside(m, d, g)
      BY <1>4, <2>1, <2>2
    <3>3. \A m \in sub[b] : Beside(m, 1 - d, g)
      BY <2>1, <2>2, SideFacts
    <3>4. /\ after[R[n][d]] = sub[c] /\ after[R[n][1 - d]] = sub[b]
          /\ after[n] = {n} \cup sub[c] \cup sub[b]
      BY <1>7, <2>4, <3>1
    <3>5. QED
      BY <2>4, <3>2, <3>3, <3>4
  <2>5. CASE n = y
    <3>1. R[y][d] = a /\ R[y][1 - d] = g
      BY AboveFacts, <1>1, <1>2, <2>2, SideFacts
    <3>2. \A m \in sub[a] : Beside(m, d, y)
      BY <1>1, <2>1, <2>2
    <3>3. \A m \in sub[c] : Beside(m, 1 - d, y)
      BY <1>1, <2>1, <2>2, SideFacts
    <3>4. Beside(g, 1 - d, y)
      <4>1. Beside(y, d, g)
        BY <1>4, <2>1, <2>2
      <4>2. QED
        BY <1>3, <4>1, BesideFacts
    <3>5. ASSUME NEW m \in sub[b] PROVE Beside(m, 1 - d, y)
      <4>1. m \in Nat /\ Beside(m, 1 - d, g)
        BY <2>1, <2>2, SideFacts
      <4>2. QED
        BY <1>3, <3>4, <4>1, BesideFacts, SideFacts
    <3>6. /\ after[R[n][d]] = sub[a]
          /\ after[R[n][1 - d]] = {g} \cup sub[b] \cup sub[c]
          /\ after[n] = {y} \cup sub[a] \cup {g} \cup sub[b] \cup sub[c]
      BY <1>4, <1>7, <2>5, <3>1
    <3>7. QED
      BY <2>5, <3>2, <3>3, <3>4, <3>5, <3>6
  <2>6. CASE n # g /\ n # y
    <3>1. ASSUME NEW e \in Sides PROVE after[R[n][e]] = sub[L[n][e]]
      <4>1. CASE n = parent /\ e = side
        BY <1>1, <1>2, <1>7, <2>6, <4>1
      <4>2. CASE ~(n = parent /\ e = side)
        <5>1. R[n][e] = L[n][e] /\ L[n][e] \in T \cup {NULL}
          BY AboveFacts, <1>1, <1>2, <2>6, <4>2, ChildFacts
        <5>2. L[n][e] # g /\ L[n][e] # y
          BY AboveFacts, <1>8, <1>9, <2>6, <4>2
        <5>3. QED
          BY <1>7, <5>1, <5>2
      <4>3. QED
        BY <4>1, <4>2
    <3>2. after[n] = sub[n]
      BY <1>7, <2>6
    <3>3. sub[n] = {n} \cup sub[L[n][d]] \cup sub[L[n][1 - d]]
      BY ChildFacts
    <3>4. after[R[n][d]] = sub[L[n][d]] /\ after[R[n][1 - d]] = sub[L[n][1 - d]]
      BY <3>1, SideFacts
    <3>5. QED
      BY <2>1, <3>2, <3>3, <3>4, SideFacts
  <2>7. QED
    BY <2>4, <2>5, <2>6
<1>14. QED
  BY <1>1, <1>7, <1>10, <1>11, <1>12, <1>13, ZenonT(60) DEF IsTree, R, after

(* A new leaf q at an empty link: what is below the nodes above it grows.  *)
CanInsert(L, D, sub, q, z, side) ==
  /\ IsTree(L, D, D, sub) /\ q \in Nat \ {0} /\ q \notin D
  /\ z \in Above(D) /\ side \in Sides /\ L[z][side] = NULL
  /\ z = Anchor => side = 0
  /\ \A n \in D, d \in Sides : z \in sub[L[n][d]] => Beside(q, d, n)
  /\ z \in D => Beside(q, side, z)

LinksInserted(R, L, D, q, z, side) ==
  /\ R \in [Above(D \cup {q}) -> [Sides -> D \cup {q, NULL}]]
  /\ R[q] = Nil /\ R[z][side] = q
  /\ \A n \in Above(D), e \in Sides : (n = z => e # side) => R[n][e] = L[n][e]

Inserted(D, sub, q, z) ==
  [n \in D \cup {q, NULL} |->
     IF n = q THEN {q} ELSE IF z \in sub[n] THEN sub[n] \cup {q} ELSE sub[n]]

(* The order of the prices survives rb_probe's insertion, and the new leaf *)
(* is in the tree.                                                         *)
LEMMA InsertTree ==
  ASSUME NEW L, NEW D, NEW sub, NEW q, NEW z, NEW side, NEW R,
         CanInsert(L, D, sub, q, z, side), LinksInserted(R, L, D, q, z, side)
  PROVE  IsTree(R, D \cup {q}, D \cup {q}, Inserted(D, sub, q, z))
<1> USE DEF CanInsert
<1> DEFINE T == D \cup {q}
           after == Inserted(D, sub, q, z)
<1>1. q # NULL /\ q # Anchor /\ NULL \notin D /\ Anchor \notin D
  BY NodeFacts DEF IsTree
<1>2. /\ R \in [Above(T) -> [Sides -> T \cup {NULL}]]
      /\ R[q][0] = NULL /\ R[q][1] = NULL /\ R[z][side] = q
      /\ \A n \in Above(D), e \in Sides : (n = z => e # side) => R[n][e] = L[n][e]
  <2>1. T \cup {NULL} = D \cup {q, NULL}
    OBVIOUS
  <2>2. QED
    BY <2>1 DEF LinksInserted, Nil, Sides
<1>3. /\ sub \in [D \cup {NULL} -> SUBSET D] /\ sub[NULL] = {}
      /\ L \in [Above(D) -> [Sides -> D \cup {NULL}]]
  BY DEF IsTree
<1>4. \A n \in Above(D), e \in Sides : L[n][e] \in D \cup {NULL}
  BY <1>3
<1>5. /\ after[NULL] = {} /\ after[q] = {q}
      /\ \A n \in D \cup {NULL} :
           after[n] = IF z \in sub[n] THEN sub[n] \cup {q} ELSE sub[n]
  BY <1>1, <1>3 DEF Inserted
<1>6. after \in [T \cup {NULL} -> SUBSET T]
  <2>1. \A n \in T \cup {NULL} : after[n] \subseteq T
    BY <1>3, <1>5
  <2>2. QED
    BY <2>1 DEF Inserted
<1> HIDE DEF after
<1>7. R[Anchor][1] = NULL /\ after[R[Anchor][0]] = T
  <2>1. R[Anchor][1] = NULL
    BY <1>2, AboveFacts DEF IsTree, Sides
  <2>2. CASE z = Anchor
    <3>1. D = {} /\ R[Anchor][0] = q
      BY <1>2, <2>2 DEF IsTree
    <3>2. QED
      BY <1>5, <2>1, <3>1
  <2>3. CASE z # Anchor
    <3>1. z \in D /\ sub[L[Anchor][0]] = D
      BY <2>3, AboveFacts DEF IsTree
    <3>2. R[Anchor][0] = L[Anchor][0] /\ L[Anchor][0] \in D \cup {NULL}
      BY <1>2, <1>4, <2>3, AboveFacts DEF Sides
    <3>3. QED
      BY <1>5, <2>1, <3>1, <3>2
  <2>4. QED
    BY <2>2, <2>3
<1>8. \A n, m \in Above(T), e, f \in Sides :
        R[n][e] = R[m][f] /\ R[n][e] # NULL => n = m /\ e = f
  <2> SUFFICES ASSUME NEW n \in Above(T), NEW m \in Above(T),
                      NEW e \in Sides, NEW f \in Sides,
                      R[n][e] = R[m][f], R[n][e] # NULL
               PROVE  n = m /\ e = f
    OBVIOUS
  <2>1. R[q][e] = NULL /\ R[q][f] = NULL
    BY <1>2 DEF Sides
  <2>2. n \in Above(D) /\ m \in Above(D)
    BY <2>1, AboveFacts
  <2>3. ASSUME NEW k \in Above(D), NEW d \in Sides, k = z => d # side
        PROVE  R[k][d] # q
    <3>1. R[k][d] = L[k][d] /\ L[k][d] \in D \cup {NULL}
      BY <1>2, <1>4, <2>3
    <3>2. QED
      BY <1>1, <3>1
  <2>4. CASE n = z /\ e = side
    BY <1>2, <2>2, <2>3, <2>4
  <2>5. CASE ~(n = z /\ e = side)
    <3>1. ~(m = z /\ f = side)
      <4>1. R[n][e] # q
        BY <2>2, <2>3, <2>5
      <4>2. QED
        BY <1>2, <4>1
    <3>2. L[n][e] = L[m][f] /\ L[n][e] # NULL
      BY <1>2, <2>2, <2>5, <3>1
    <3>3. QED
      BY <2>2, <3>2 DEF IsTree
  <2>6. QED
    BY <2>4, <2>5
<1>9. ASSUME NEW n \in T
      PROVE  /\ after[n] = {n} \cup after[R[n][0]] \cup after[R[n][1]]
             /\ \A d \in Sides : \A m \in after[R[n][d]] : Beside(m, d, n)
  <2>1. CASE n = q
    BY <1>2, <1>5, <2>1 DEF Sides
  <2>2. CASE n # q
    <3>1. n \in D /\ n \in Above(D)
      BY <2>2, AboveFacts
    <3>2. ASSUME NEW d \in Sides
          PROVE  after[R[n][d]] = IF (n = z /\ d = side) \/ z \in sub[L[n][d]]
                                  THEN sub[L[n][d]] \cup {q} ELSE sub[L[n][d]]
      <4>1. L[n][d] \in D \cup {NULL} /\ z \notin sub[NULL]
        BY <1>3, <1>4, <3>1
      <4>2. CASE n = z /\ d = side
        BY <1>2, <1>3, <1>5, <4>2
      <4>3. CASE ~(n = z /\ d = side)
        <5>1. R[n][d] = L[n][d]
          BY <1>2, <3>1, <4>3
        <5>2. QED
          BY <1>5, <4>1, <4>3, <5>1
      <4>4. QED
        BY <4>2, <4>3
    <3>3. /\ sub[n] = {n} \cup sub[L[n][0]] \cup sub[L[n][1]]
          /\ \A d \in Sides : \A m \in sub[L[n][d]] : Beside(m, d, n)
      BY <3>1 DEF IsTree
    <3>4. ASSUME NEW d \in Sides, NEW m \in after[R[n][d]]
          PROVE  Beside(m, d, n)
      <4>1. CASE m \in sub[L[n][d]]
        BY <3>3, <4>1
      <4>2. CASE m = q /\ n = z /\ d = side
        BY <3>1, <4>2
      <4>3. CASE m = q /\ z \in sub[L[n][d]]
        BY <3>1, <4>3
      <4>4. /\ m \in after[R[n][d]]
            /\ after[R[n][d]] = IF (n = z /\ d = side) \/ z \in sub[L[n][d]]
                                THEN sub[L[n][d]] \cup {q} ELSE sub[L[n][d]]
        BY <3>2
      <4>5. \/ m \in sub[L[n][d]]
            \/ m = q /\ ((n = z /\ d = side) \/ z \in sub[L[n][d]])
        BY <4>4
      <4>6. QED
        BY <4>1, <4>2, <4>3, <4>5
    <3>5. after[n] = {n} \cup after[R[n][0]] \cup after[R[n][1]]
      <4>1. 0 \in Sides /\ 1 \in Sides /\ (side = 0 \/ side = 1)
        BY DEF Sides
      <4>2. z \in sub[n] <=> n = z \/ z \in sub[L[n][0]] \/ z \in sub[L[n][1]]
        BY <3>3
      <4>3. after[n] = IF z \in sub[n] THEN sub[n] \cup {q} ELSE sub[n]
        BY <1>5, <3>1
      <4>4. QED
        BY <3>2, <3>3, <4>1, <4>2, <4>3
    <3>6. QED
      BY <3>4, <3>5
  <2>3. QED
    BY <2>1, <2>2
<1>10. IsFiniteSet(T) /\ T \subseteq Nat \ {0}
  BY FS_AddElement DEF IsTree
<1>11. QED
  BY <1>2, <1>5, <1>6, <1>7, <1>8, <1>9, <1>10 DEF IsTree, after

(* A node q with a single subtree gives its place to it.                   *)
CanSplice(L, D, sub, q, e, parent, side) ==
  /\ IsTree(L, D, D, sub)
  /\ q \in D /\ e \in Sides /\ L[q][e] = NULL
  /\ parent \in Above(D) /\ side \in Sides /\ L[parent][side] = q

LinksSpliced(L, q, e, parent, side) == [L EXCEPT ![parent][side] = L[q][1 - e]]
Spliced(D, sub, q) == [n \in (D \ {q}) \cup {NULL} |-> sub[n] \ {q}]

(* The order survives it, and only q is out of the tree.                   *)
LEMMA SpliceTree ==
  ASSUME NEW L, NEW D, NEW sub, NEW q, NEW e, NEW parent, NEW side,
         CanSplice(L, D, sub, q, e, parent, side)
  PROVE  IsTree(LinksSpliced(L, q, e, parent, side), D, D \ {q}, Spliced(D, sub, q))
<1> USE DEF CanSplice
<1> DEFINE T == D \ {q}
           c == L[q][1 - e]
           R == [L EXCEPT ![parent][side] = c]
           after == Spliced(D, sub, q)
<1>1. q # NULL /\ q # Anchor /\ NULL \notin D /\ Anchor \notin D
  BY NodeFacts DEF IsTree
<1>2. /\ parent # q /\ c \in T \cup {NULL} /\ q \notin sub[c]
      /\ sub[q] = {q} \cup sub[c] /\ (c # NULL => c \in sub[q])
  <2>1. parent # q
    BY <1>1, ParentAbove
  <2>2. c \in D \cup {NULL} /\ c # q /\ q \notin sub[c] /\ (c # NULL => c \in sub[c])
    BY <1>1, ChildFacts, SideFacts
  <2>3. sub[q] = {q} \cup sub[L[q][e]] \cup sub[c]
    BY ChildFacts
  <2>4. sub[L[q][e]] = {}
    BY DEF IsTree
  <2>5. QED
    BY <2>1, <2>2, <2>3, <2>4
<1>3. /\ sub \in [D \cup {NULL} -> SUBSET D] /\ sub[NULL] = {}
      /\ L \in [Above(D) -> [Sides -> D \cup {NULL}]]
      /\ \A n, m \in Above(D), d, f \in Sides :
           L[n][d] = L[m][f] /\ L[n][d] # NULL => n = m /\ d = f
  BY DEF IsTree
<1>4. /\ R[parent][side] = c
      /\ \A n \in Above(D), d \in Sides : (n = parent => d # side) => R[n][d] = L[n][d]
      /\ \A n \in Above(D), d \in Sides : (n = parent => d # side) => L[n][d] # q
  BY <1>1, <1>3
<1>5. R \in [Above(D) -> [Sides -> T \cup {NULL}]]
  <2>1. R \in [Above(D) -> [Sides -> D \cup {NULL}]]
    BY <1>2, <1>3
  <2>2. \A n \in Above(D), d \in Sides : R[n][d] # q
    BY <1>1, <1>2, <1>4
  <2> HIDE DEF R
  <2>3. QED
    BY <2>1, <2>2
<1> HIDE DEF R
<1>6. /\ after \in [T \cup {NULL} -> SUBSET T] /\ after[NULL] = {}
      /\ \A n \in T \cup {NULL} : after[n] = sub[n] \ {q}
  BY <1>3 DEF Spliced
<1> HIDE DEF after
<1>7. \A n \in Above(T), d \in Sides : after[R[n][d]] = sub[L[n][d]] \ {q}
  <2> SUFFICES ASSUME NEW n \in Above(T), NEW d \in Sides
               PROVE  after[R[n][d]] = sub[L[n][d]] \ {q}
    OBVIOUS
  <2>1. n \in Above(D)
    BY AboveFacts
  <2>2. CASE n = parent /\ d = side
    BY <1>2, <1>4, <1>6, <2>2
  <2>3. CASE ~(n = parent /\ d = side)
    <3>1. R[n][d] = L[n][d] /\ L[n][d] \in T \cup {NULL}
      BY <1>3, <1>4, <2>1, <2>3
    <3>2. QED
      BY <1>6, <3>1
  <2>4. QED
    BY <2>2, <2>3
<1>8. R[Anchor][1] = NULL /\ after[R[Anchor][0]] = T
  <2>1. 0 \in Sides /\ 1 \in Sides /\ L[Anchor][1] = NULL /\ sub[L[Anchor][0]] = D
    BY DEF IsTree, Sides
  <2>2. R[Anchor][1] = L[Anchor][1]
    BY <1>1, <1>4, <2>1, AboveFacts
  <2>3. QED
    BY <1>7, <2>1, <2>2, AboveFacts
<1>9. \A n, m \in Above(T), d, f \in Sides :
        R[n][d] = R[m][f] /\ R[n][d] # NULL => n = m /\ d = f
  <2>1. ASSUME NEW n \in Above(T), NEW d \in Sides, (n = parent => d # side)
        PROVE  c # NULL => R[n][d] # c
    <3>1. n \in Above(D) /\ q \in Above(D) /\ n # q
      BY <1>1, AboveFacts
    <3>2. QED
      BY <1>3, <1>4, <2>1, <3>1, SideFacts
  <2>2. SUFFICES ASSUME NEW n \in Above(T), NEW m \in Above(T),
                        NEW d \in Sides, NEW f \in Sides,
                        R[n][d] = R[m][f], R[n][d] # NULL
                 PROVE  n = m /\ d = f
    OBVIOUS
  <2>3. n \in Above(D) /\ m \in Above(D)
    BY AboveFacts
  <2>4. CASE R[n][d] = c
    <3>1. n = parent /\ d = side
      BY <2>1, <2>2, <2>4
    <3>2. m = parent /\ f = side
      BY <2>1, <2>2, <2>4
    <3>3. QED
      BY <3>1, <3>2
  <2>5. CASE R[n][d] # c
    <3>1. R[n][d] = L[n][d]
      BY <1>4, <2>3, <2>5
    <3>2. R[m][f] = L[m][f]
      BY <1>4, <2>2, <2>3, <2>5
    <3>3. L[n][d] = L[m][f] /\ L[n][d] # NULL
      BY <2>2, <3>1, <3>2
    <3>4. QED
      BY <1>3, <2>3, <3>3
  <2>6. QED
    BY <2>4, <2>5
<1>10. ASSUME NEW n \in T
       PROVE  /\ after[n] = {n} \cup after[R[n][0]] \cup after[R[n][1]]
              /\ \A d \in Sides : \A m \in after[R[n][d]] : Beside(m, d, n)
  <2>1. /\ sub[n] = {n} \cup sub[L[n][0]] \cup sub[L[n][1]]
        /\ \A d \in Sides : \A m \in sub[L[n][d]] : Beside(m, d, n)
    BY DEF IsTree
  <2>2. \A d \in Sides : after[R[n][d]] = sub[L[n][d]] \ {q}
    BY <1>7, AboveFacts
  <2>3. after[n] = sub[n] \ {q} /\ 0 \in Sides /\ 1 \in Sides /\ n # q
    BY <1>6 DEF Sides
  <2>4. QED
    BY <2>1, <2>2, <2>3
<1>11. IsFiniteSet(T) /\ T \subseteq D /\ D \subseteq Nat \ {0}
  BY FS_Subset DEF IsTree
<1>12. IsTree(R, D, T, after)
  BY <1>5, <1>6, <1>8, <1>9, <1>10, <1>11 DEF IsTree
<1>13. QED
  BY <1>12 DEF R, after, LinksSpliced

(* A node s outside the tree takes the place of p in it.                   *)
CanReplace(L, D, T, sub, p, s, parent, side) ==
  /\ IsTree(L, D, T, sub)
  /\ p \in T /\ s \in D \ T
  /\ parent \in Above(T) /\ side \in Sides /\ L[parent][side] = p
  /\ \A d \in Sides : \A m \in sub[L[p][d]] : Beside(m, d, s)
  /\ \A n \in T, d \in Sides : p \in sub[L[n][d]] => Beside(s, d, n)

LinksReplaced(R, L, D, T, p, s, parent, side) ==
  /\ R \in [Above(D) -> [Sides -> ((T \ {p}) \cup {s}) \cup {NULL}]]
  /\ R[parent][side] = s
  /\ \A d \in Sides : R[s][d] = L[p][d]
  /\ \A n \in Above(T), d \in Sides :
       n # p /\ (n = parent => d # side) => R[n][d] = L[n][d]

Swap(S, p, s) == IF p \in S THEN (S \ {p}) \cup {s} ELSE S
Replaced(T, sub, p, s) ==
  [n \in ((T \ {p}) \cup {s}) \cup {NULL} |->
     IF n = s THEN Swap(sub[p], p, s) ELSE Swap(sub[n], p, s)]

(* The order survives it, since s lies where p does among the other nodes. *)
LEMMA ReplaceTree ==
  ASSUME NEW L, NEW D, NEW T, NEW sub, NEW p, NEW s, NEW parent, NEW side, NEW R,
         CanReplace(L, D, T, sub, p, s, parent, side),
         LinksReplaced(R, L, D, T, p, s, parent, side)
  PROVE  IsTree(R, D, (T \ {p}) \cup {s}, Replaced(T, sub, p, s))
<1> USE DEF CanReplace
<1> DEFINE U == (T \ {p}) \cup {s}
           after == Replaced(T, sub, p, s)
<1>1. /\ p # NULL /\ p # Anchor /\ s # NULL /\ s # Anchor /\ s # p
      /\ NULL \notin T /\ Anchor \notin T /\ T \subseteq D
  BY NodeFacts DEF IsTree
<1>2. /\ R \in [Above(D) -> [Sides -> U \cup {NULL}]]
      /\ R[parent][side] = s
      /\ \A d \in Sides : R[s][d] = L[p][d]
      /\ \A n \in Above(T), d \in Sides :
           n # p /\ (n = parent => d # side) => R[n][d] = L[n][d]
  BY DEF LinksReplaced
<1>3. /\ sub \in [T \cup {NULL} -> SUBSET T] /\ sub[NULL] = {}
      /\ L \in [Above(D) -> [Sides -> T \cup {NULL}]]
      /\ \A n, m \in Above(T), d, f \in Sides :
           L[n][d] = L[m][f] /\ L[n][d] # NULL => n = m /\ d = f
  BY DEF IsTree
<1>4. \A n \in Above(T), d \in Sides : L[n][d] \in T \cup {NULL}
  BY <1>1, <1>3, AboveFacts
<1>5. parent # p /\ p \in sub[p]
  BY <1>1, ParentAbove, ChildFacts
<1>6. /\ after[NULL] = {} /\ after[s] = (sub[p] \ {p}) \cup {s}
      /\ \A n \in T \cup {NULL} : n # p => after[n] = Swap(sub[n], p, s)
  BY <1>1, <1>3, <1>5 DEF Replaced, Swap
<1>7. after \in [U \cup {NULL} -> SUBSET U]
  <2>1. ASSUME NEW n \in U \cup {NULL} PROVE after[n] \subseteq U
    <3>1. CASE n = s
      BY <1>3, <1>6, <3>1
    <3>2. CASE n # s
      <4>1. n \in T \cup {NULL} /\ n # p /\ sub[n] \subseteq T
        BY <1>1, <1>3, <3>2
      <4>2. QED
        BY <1>6, <4>1, ZenonT(60) DEF Swap
    <3>3. QED
      BY <3>1, <3>2
  <2>2. QED
    BY <2>1 DEF Replaced
<1> HIDE DEF after
<1>16. \A n : n \in U <=> (n \in T /\ n # p) \/ n = s
  OBVIOUS
<1> HIDE DEF U
<1>8. ASSUME NEW n \in Above(T), NEW d \in Sides, n # p
      PROVE  /\ after[R[n][d]] = Swap(sub[L[n][d]], p, s)
             /\ R[n][d] = IF L[n][d] = p THEN s ELSE L[n][d]
  <2>1. CASE n = parent /\ d = side
    BY <1>2, <1>5, <1>6, <2>1 DEF Swap
  <2>2. CASE ~(n = parent /\ d = side)
    <3>1. R[n][d] = L[n][d]
      BY <1>2, <1>8, <2>2
    <3>2. L[n][d] # p
      BY <1>1, <1>3, <2>2
    <3>3. QED
      BY <1>4, <1>6, <3>1, <3>2
  <2>3. QED
    BY <2>1, <2>2
<1>9. ASSUME NEW d \in Sides
      PROVE  /\ after[R[s][d]] = sub[L[p][d]]
             /\ R[s][d] = L[p][d]
             /\ p \notin sub[L[p][d]] /\ L[p][d] # p /\ L[p][d] \in T \cup {NULL}
  <2>1. p \notin sub[L[p][d]] /\ L[p][d] # p /\ L[p][d] \in T \cup {NULL}
    BY ChildFacts
  <2>2. R[s][d] = L[p][d]
    BY <1>2
  <2>3. after[L[p][d]] = sub[L[p][d]]
    BY <1>6, <2>1 DEF Swap
  <2>4. QED
    BY <2>1, <2>2, <2>3
<1>10. R[Anchor][1] = NULL /\ after[R[Anchor][0]] = U
  <2>1. 0 \in Sides /\ 1 \in Sides /\ L[Anchor][1] = NULL /\ sub[L[Anchor][0]] = T
    BY DEF IsTree, Sides
  <2>2. R[Anchor][1] = NULL
    BY <1>1, <1>8, <2>1, AboveFacts
  <2>3. after[R[Anchor][0]] = Swap(T, p, s)
    BY <1>1, <1>8, <2>1, AboveFacts
  <2>4. QED
    BY <2>2, <2>3 DEF Swap, U
<1>11. \A n, m \in Above(U), d, f \in Sides :
         R[n][d] = R[m][f] /\ R[n][d] # NULL => n = m /\ d = f
  <2> DEFINE Was(n) == IF n = s THEN p ELSE n
  <2>1. ASSUME NEW n \in Above(U), NEW d \in Sides
        PROVE  /\ Was(n) \in Above(T)
               /\ R[n][d] = IF L[Was(n)][d] = p THEN s ELSE L[Was(n)][d]
               /\ L[Was(n)][d] \in T \cup {NULL}
    <3>1. CASE n = s
      BY <1>9, <3>1, AboveFacts
    <3>2. CASE n # s
      <4>1. n \in Above(T) /\ n # p
        BY <1>1, <1>16, <3>2, AboveFacts
      <4>2. QED
        BY <1>4, <1>8, <3>2, <4>1
    <3>3. QED
      BY <3>1, <3>2
  <2>2. \A n, m \in Above(U) : Was(n) = Was(m) => n = m
    BY <1>1, <1>16, AboveFacts
  <2> SUFFICES ASSUME NEW n \in Above(U), NEW m \in Above(U),
                      NEW d \in Sides, NEW f \in Sides,
                      R[n][d] = R[m][f], R[n][d] # NULL
               PROVE  n = m /\ d = f
    OBVIOUS
  <2> HIDE DEF Was
  <2>4. Was(n) \in Above(T) /\ Was(m) \in Above(T)
    BY <2>1
  <2>3. L[Was(n)][d] = L[Was(m)][f] /\ L[Was(n)][d] # NULL
    <3>1. /\ R[n][d] = IF L[Was(n)][d] = p THEN s ELSE L[Was(n)][d]
          /\ L[Was(n)][d] \in T \cup {NULL}
      BY <2>1
    <3>2. /\ R[m][f] = IF L[Was(m)][f] = p THEN s ELSE L[Was(m)][f]
          /\ L[Was(m)][f] \in T \cup {NULL}
      BY <2>1
    <3>3. s \notin T \cup {NULL}
      BY <1>1
    <3>4. R[n][d] = R[m][f] /\ R[n][d] # NULL
      OBVIOUS
    <3>5. QED
      BY <1>1, <3>1, <3>2, <3>3, <3>4
  <2>5. Was(n) = Was(m) /\ d = f
    BY <1>3, <2>3, <2>4
  <2>6. QED
    BY <2>2, <2>5
<1>12. ASSUME NEW n \in U
       PROVE  /\ after[n] = {n} \cup after[R[n][0]] \cup after[R[n][1]]
              /\ \A d \in Sides : \A m \in after[R[n][d]] : Beside(m, d, n)
  <2>1. 0 \in Sides /\ 1 \in Sides
    BY DEF Sides
  <2>2. CASE n = s
    <3>1. sub[p] = {p} \cup sub[L[p][0]] \cup sub[L[p][1]]
      BY DEF IsTree
    <3>2. after[n] = {n} \cup after[R[n][0]] \cup after[R[n][1]]
      BY <1>6, <1>9, <2>1, <2>2, <3>1
    <3>3. QED
      BY <1>9, <2>2, <3>2
  <2>3. CASE n # s
    <3>1. n \in T /\ n \in Above(T) /\ n # p
      BY <1>16, <2>3, AboveFacts
    <3>2. sub[n] = {n} \cup sub[L[n][0]] \cup sub[L[n][1]]
      BY <3>1 DEF IsTree
    <3>3. /\ after[n] = Swap(sub[n], p, s)
          /\ after[R[n][0]] = Swap(sub[L[n][0]], p, s)
          /\ after[R[n][1]] = Swap(sub[L[n][1]], p, s)
      BY <1>6, <1>8, <2>1, <3>1
    <3>4. after[n] = {n} \cup after[R[n][0]] \cup after[R[n][1]]
      BY <3>1, <3>2, <3>3 DEF Swap
    <3>5. ASSUME NEW d \in Sides, NEW m \in after[R[n][d]]
          PROVE  Beside(m, d, n)
      <4>0. after[R[n][d]] = Swap(sub[L[n][d]], p, s)
        BY <1>8, <3>1
      <4>1. m \in sub[L[n][d]] \/ (m = s /\ p \in sub[L[n][d]])
        BY <4>0 DEF Swap
      <4>2. \A k \in sub[L[n][d]] : Beside(k, d, n)
        BY <3>1 DEF IsTree
      <4>3. QED
        BY <3>1, <4>1, <4>2
    <3>6. QED
      BY <3>4, <3>5
  <2>4. QED
    BY <2>2, <2>3
<1>13. IsFiniteSet(U) /\ U \subseteq D /\ D \subseteq Nat \ {0}
  <2>1. IsFiniteSet(T \ {p})
    BY FS_Subset DEF IsTree
  <2>2. QED
    BY <2>1, FS_AddElement DEF IsTree, U
<1>14. IsTree(R, D, U, after)
  BY <1>2, <1>6, <1>7, <1>10, <1>11, <1>12, <1>13 DEF IsTree
<1>15. QED
  BY <1>14 DEF U, after

(* Freeing the node that is not in the tree.                               *)
LEMMA FreedTree ==
  ASSUME NEW L, NEW D, NEW p \in D, NEW sub, IsTree(L, D, D \ {p}, sub)
  PROVE  /\ IsTree(Freed(L, p), D \ {p}, D \ {p}, sub)
         /\ \A n \in Above(D \ {p}) : Freed(L, p)[n] = L[n]
<1> DEFINE T == D \ {p}
<1>1. L \in [Above(D) -> [Sides -> T \cup {NULL}]]
  BY DEF IsTree
<1>2. Above(D) \ {p} = Above(T)
  BY NodeFacts DEF IsTree, Above
<1>3. /\ Freed(L, p) \in [Above(T) -> [Sides -> T \cup {NULL}]]
      /\ \A n \in Above(T) : Freed(L, p)[n] = L[n]
  BY <1>1, <1>2 DEF Freed, Restrict
<1>4. IsTree(L, D, T, sub) /\ T \subseteq D
  OBVIOUS
<1> DEFINE R == Freed(L, p)
<1> HIDE DEF T, R
<1>5. IsTree(R, T, T, sub)
  BY <1>3, <1>4, AboveFacts DEF IsTree, R
<1>6. QED
  BY <1>3, <1>5 DEF T, R

-----------------------------------------------------------------------------
(* The two functions of the model that descend a tree are what the         *)
(* equations make of them.                                                 *)
LEMMA BelowIs ==
  ASSUME NEW sub, IsTree(link, DOMAIN data, Tree, sub), removed \in DOMAIN data \cup {NULL}
  PROVE  \A n \in Tree \cup {NULL} : Below[n] = sub[n]
<1> DEFINE S == DOMAIN data \cup {NULL}
           Body(f) == [n \in S |->
                         IF n = NULL THEN {} ELSE {n} \cup f[link[n][0]] \cup f[link[n][1]]]
           whole == [n \in S |-> IF n \in Tree \cup {NULL} THEN sub[n]
                                 ELSE {n} \cup sub[link[n][0]] \cup sub[link[n][1]]]
<1>1. Below = CHOOSE f : f = Body(f)
  BY DEF Below
<1>2. \A n \in DOMAIN data, d \in Sides : link[n][d] \in Tree \cup {NULL}
  BY AboveFacts DEF IsTree
<1>3. \A n \in Tree \cup {NULL} : n \in S /\ whole[n] = sub[n]
  BY DEF IsTree
<1>4. NULL \notin DOMAIN data /\ sub[NULL] = {} /\ 0 \in Sides /\ 1 \in Sides
  BY NodeFacts, SMTT(30) DEF IsTree, Sides
<1>5. ASSUME NEW n \in S PROVE whole[n] = Body(whole)[n]
  <2>1. CASE n = NULL
    BY <1>3, <1>4, <2>1
  <2>2. CASE n \in Tree
    <3>1. sub[n] = {n} \cup sub[link[n][0]] \cup sub[link[n][1]]
      BY <2>2 DEF IsTree
    <3>2. n # NULL /\ link[n][0] \in Tree \cup {NULL} /\ link[n][1] \in Tree \cup {NULL}
      BY <1>2, <1>4, <2>2 DEF Tree
    <3>3. QED
      BY <1>3, <2>2, <3>1, <3>2
  <2>3. CASE n \notin Tree \cup {NULL}
    <3>1. link[n][0] \in Tree \cup {NULL} /\ link[n][1] \in Tree \cup {NULL}
      BY <1>2, <1>4, <2>3
    <3>2. QED
      BY <1>3, <2>3, <3>1
  <2>4. QED
    BY <2>1, <2>2, <2>3
<1>6. whole = Body(whole)
  BY <1>5
<1>7. Below = Body(Below)
  <2> HIDE DEF Body, whole
  <2>1. QED
    BY <1>1, <1>6
<1> DEFINE P == {n \in Tree : Below[n] = sub[n]}
<1> HIDE DEF whole
<1>8. Below[NULL] = {}
  BY <1>7
<1>9. ASSUME NEW n \in Tree, \A d \in Sides : link[n][d] \in P \cup {NULL}
      PROVE  n \in P
  <2>1. n \in S /\ n # NULL
    BY <1>4 DEF Tree
  <2>2. Below[n] = {n} \cup Below[link[n][0]] \cup Below[link[n][1]]
    BY <1>7, <2>1
  <2>3. /\ Below[link[n][0]] = sub[link[n][0]]
        /\ Below[link[n][1]] = sub[link[n][1]]
    BY <1>4, <1>8, <1>9
  <2>4. QED
    BY <2>2, <2>3, ZenonT(60) DEF IsTree
<1>10. Tree \subseteq P
  <2> HIDE DEF P
  <2>1. QED
    BY <1>9, TreeInduction
<1>11. QED
  BY <1>4, <1>8, <1>10

(* The same for the heights that BlackRule is stated with.                 *)
LEMMA BlackHeightIs ==
  ASSUME NEW sub, IsTree(link, DOMAIN data, Tree, sub), NEW h, Balanced(h)
  PROVE  \A n \in Tree \cup {NULL} : BlackHeight[n] = h[n]
<1> DEFINE S == DOMAIN data \cup {NULL}
           Body(f) == [n \in S |->
                         IF n = NULL THEN 0 ELSE f[link[n][0]] + Lacks(n, 0) + Black(n)]
           whole == [n \in S |-> IF n \in Tree \cup {NULL} THEN h[n]
                                 ELSE h[link[n][0]] + Lacks(n, 0) + Black(n)]
<1>1. BlackHeight = CHOOSE f : f = Body(f)
  BY DEF BlackHeight
<1>2. \A n \in DOMAIN data, d \in Sides : link[n][d] \in Tree \cup {NULL}
  BY AboveFacts DEF IsTree
<1>3. \A n \in Tree \cup {NULL} : n \in S /\ whole[n] = h[n]
  BY DEF Tree
<1>4. NULL \notin DOMAIN data /\ h[NULL] = 0 /\ 0 \in Sides
  BY NodeFacts DEF IsTree, Sides, Balanced
<1>5. ASSUME NEW n \in S PROVE whole[n] = Body(whole)[n]
  <2>1. CASE n = NULL
    BY <1>3, <1>4, <2>1
  <2>2. CASE n \in Tree
    <3>1. h[n] = h[link[n][0]] + Lacks(n, 0) + Black(n)
      BY <1>4, <2>2 DEF Balanced
    <3>2. n # NULL /\ link[n][0] \in Tree \cup {NULL}
      BY <1>2, <1>4, <2>2 DEF Tree
    <3>3. QED
      BY <1>3, <2>2, <3>1, <3>2
  <2>3. CASE n \notin Tree \cup {NULL}
    <3>1. link[n][0] \in Tree \cup {NULL}
      BY <1>2, <1>4, <2>3
    <3>2. QED
      BY <1>3, <2>3, <3>1
  <2>4. QED
    BY <2>1, <2>2, <2>3
<1>6. whole = Body(whole)
  BY <1>5
<1>7. BlackHeight = Body(BlackHeight)
  <2> HIDE DEF Body, whole
  <2>1. QED
    BY <1>1, <1>6
<1> DEFINE P == {n \in Tree : BlackHeight[n] = h[n]}
<1> HIDE DEF whole
<1>8. BlackHeight[NULL] = 0
  BY <1>7
<1>9. ASSUME NEW n \in Tree, \A d \in Sides : link[n][d] \in P \cup {NULL}
      PROVE  n \in P
  <2>1. n \in S /\ n # NULL
    BY <1>4 DEF Tree
  <2>2. BlackHeight[n] = BlackHeight[link[n][0]] + Lacks(n, 0) + Black(n)
    BY <1>7, <2>1
  <2>3. BlackHeight[link[n][0]] = h[link[n][0]]
    BY <1>4, <1>8, <1>9
  <2>4. QED
    BY <1>4, <2>2, <2>3 DEF Balanced
<1>10. Tree \subseteq P
  <2> HIDE DEF P
  <2>1. QED
    BY <1>9, TreeInduction
<1>11. QED
  BY <1>4, <1>8, <1>10

-----------------------------------------------------------------------------
(* A walk along the links.                                                 *)
Links(T) == [node : Above(T), side : Sides]

(* The entries of a sequence of links.                                     *)
LEMMA LinkFacts ==
  ASSUME NEW T, NEW path \in Seq(Links(T)), NEW i \in 1 .. Len(path)
  PROVE  path[i] \in Links(T) /\ path[i].node \in Above(T) /\ path[i].side \in Sides
<1>1. path[i] \in Links(T)
  BY ElementOfSeq
<1>2. QED
  BY <1>1 DEF Links

Iterates(at, from, turn) ==
  at = [k \in Nat |-> IF k = 0 THEN from ELSE turn[at[k - 1]]]

(* The recursive function of the model's Walk is defined: by induction on  *)
(* the number of turns there is a function with its equations.             *)
LEMMA IterateExists ==
  ASSUME NEW from, NEW turn
  PROVE  \E at : Iterates(at, from, turn)
<1> DEFINE Value(g, i) == IF i = 0 THEN from ELSE turn[g[i - 1]]
           Upto(k, g) == \A i \in 0 .. k : g[i] = Value(g, i)
           Reached == {k \in Nat : \E g : Upto(k, g)}
           Same == {k \in Nat : \A g, h : Upto(k, g) /\ Upto(k, h) => g[k] = h[k]}
           at == [k \in Nat |-> (CHOOSE g : Upto(k, g))[k]]
<1>1. 0 \in Reached
  <2>1. Upto(0, [i \in {0} |-> from])
    OBVIOUS
  <2>2. QED
    BY <2>1
<1>2. ASSUME NEW k \in Reached PROVE k + 1 \in Reached
  <2>1. PICK g : Upto(k, g)
    OBVIOUS
  <2> DEFINE h == [i \in 0 .. k + 1 |-> IF i <= k THEN g[i] ELSE turn[g[k]]]
  <2>2. ASSUME NEW i \in 0 .. k + 1 PROVE h[i] = Value(h, i)
    <3>1. CASE i = 0
      BY <2>1, <3>1
    <3>2. CASE i \in 1 .. k
      BY <2>1, <3>2
    <3>3. CASE i = k + 1
      BY <2>1, <3>3
    <3>4. QED
      BY <3>1, <3>2, <3>3
  <2>3. Upto(k + 1, h)
    BY <2>2
  <2> HIDE DEF h
  <2>4. \E f : Upto(k + 1, f)
    BY <2>3
  <2>5. QED
    BY <2>4
<1>3. Reached = Nat
  <2>1. Reached \in SUBSET Nat
    OBVIOUS
  <2> HIDE DEF Reached
  <2>2. QED
    BY <1>1, <1>2, <2>1, SetInduction
<1>4. 0 \in Same
  OBVIOUS
<1>5. ASSUME NEW k \in Same PROVE k + 1 \in Same
  <2> SUFFICES ASSUME NEW g, NEW h, Upto(k + 1, g), Upto(k + 1, h)
               PROVE  g[k + 1] = h[k + 1]
    OBVIOUS
  <2>1. Upto(k, g) /\ Upto(k, h)
    OBVIOUS
  <2>2. g[k] = h[k]
    BY <2>1
  <2>3. g[k + 1] = turn[g[k]] /\ h[k + 1] = turn[h[k]]
    OBVIOUS
  <2>4. QED
    BY <2>2, <2>3
<1>6. Same = Nat
  <2>1. Same \in SUBSET Nat
    OBVIOUS
  <2> HIDE DEF Same
  <2>2. QED
    BY <1>4, <1>5, <2>1, SetInduction
<1>7. ASSUME NEW k \in Nat PROVE at[k] = Value(at, k)
  <2> DEFINE g == CHOOSE g : Upto(k, g)
  <2>1. Upto(k, g)
    BY <1>3
  <2>2. at[k] = g[k]
    OBVIOUS
  <2>3. CASE k = 0
    BY <2>1, <2>2, <2>3
  <2>4. CASE k # 0
    <3> DEFINE h == CHOOSE h : Upto(k - 1, h)
    <3>1. k - 1 \in Nat /\ k - 1 \in Reached
      BY <1>3, <2>4
    <3>2. Upto(k - 1, h)
      BY <3>1
    <3>3. at[k - 1] = h[k - 1]
      BY <3>1
    <3> HIDE DEF at, g, h
    <3>4. Upto(k - 1, g)
      BY <2>1, <2>4
    <3>5. k - 1 \in Same
      BY <1>6, <3>1
    <3>6. g[k - 1] = h[k - 1]
      BY <3>2, <3>4, <3>5
    <3>7. g[k] = turn[g[k - 1]]
      BY <2>1, <2>4
    <3>8. QED
      BY <2>2, <2>4, <3>3, <3>6, <3>7
  <2>5. QED
    BY <2>3, <2>4
<1>8. Iterates(at, from, turn)
  BY <1>7 DEF Iterates
<1>9. QED
  BY <1>8

CanWalk(from, dir, ends, sub) ==
  /\ IsTree(link, DOMAIN data, Tree, sub) /\ IsFiniteSet(DOMAIN data)
  /\ from \in Links(Tree) /\ dir \in [DOMAIN data -> Sides] /\ NULL \in ends

IsWalk(path, from, dir, ends) ==
  /\ path \in Seq(Links(Tree)) /\ path # << >> /\ path[1] = from
  /\ \A i \in 1 .. Len(path) - 1 :
       /\ To(path[i]) \in Tree /\ To(path[i]) \notin ends
       /\ path[i + 1] = [node |-> To(path[i]), side |-> dir[To(path[i])]]
  /\ To(path[Len(path)]) \in ends

(* Walk ends, and is the walk the loops of rb.c make: every turn goes to a *)
(* node below the last, so that there are no more turns than nodes.        *)
LEMMA WalkIs ==
  ASSUME NEW from, NEW dir, NEW ends, NEW sub, CanWalk(from, dir, ends, sub)
  PROVE  IsWalk(Walk(from, dir, ends), from, dir, ends)
<1> USE DEF CanWalk
<1> DEFINE N == Cardinality(DOMAIN data)
           turn == [l \in [node : DOMAIN link, side : Sides] |->
                      [node |-> To(l), side |-> dir[To(l)]]]
           Body(f) == [k \in Nat |-> IF k = 0 THEN from ELSE turn[f[k - 1]]]
           at == CHOOSE f : f = Body(f)
           Stop(m) == /\ To(at[m]) \in ends
                      /\ \A i \in 0 .. m - 1 : To(at[i]) \notin ends
           turns == CHOOSE m \in 0 .. N : Stop(m)
<1>1. Walk(from, dir, ends) = [k \in 1 .. turns + 1 |-> at[k - 1]]
  BY DEF Walk
<1> HIDE DEF turn
<1>2. at = Body(at)
  <2>1. PICK f : Iterates(f, from, turn)
    BY IterateExists
  <2>2. f = Body(f)
    BY <2>1 DEF Iterates
  <2> HIDE DEF Body
  <2>3. QED
    BY <2>2
<1> HIDE DEF at
<1>3. at[0] = from /\ \A k \in Nat : at[k + 1] = turn[at[k]]
  <2>1. at[0] = from
    BY <1>2
  <2>2. ASSUME NEW k \in Nat PROVE at[k + 1] = turn[at[k]]
    <3>1. k + 1 \in Nat /\ k + 1 # 0 /\ (k + 1) - 1 = k
      OBVIOUS
    <3>2. at[k + 1] = turn[at[(k + 1) - 1]]
      BY <1>2, <3>1
    <3>3. QED
      BY <3>1, <3>2
  <2>3. QED
    BY <2>1, <2>2
<1>4. /\ N \in Nat /\ DOMAIN link = Above(DOMAIN data)
      /\ Tree \subseteq DOMAIN data /\ NULL \notin Tree
      /\ Above(Tree) \subseteq DOMAIN link
  BY FS_CardinalityType, AboveFacts, NodeFacts DEF IsTree
<1>5. \A n \in Tree : /\ IsFiniteSet(sub[n]) /\ Cardinality(sub[n]) \in Nat
                      /\ Cardinality(sub[n]) <= N /\ Cardinality(sub[n]) # 0
  <2> SUFFICES ASSUME NEW n \in Tree
               PROVE  /\ IsFiniteSet(sub[n]) /\ Cardinality(sub[n]) \in Nat
                      /\ Cardinality(sub[n]) <= N /\ Cardinality(sub[n]) # 0
    OBVIOUS
  <2>1. sub[n] \subseteq DOMAIN data /\ n \in sub[n]
    BY <1>4, ChildFacts
  <2>2. QED
    BY <2>1, FS_Subset, FS_CardinalityType, FS_EmptySet
<1>6. ASSUME NEW l \in Links(Tree)
      PROVE  To(l) \in Tree \cup {NULL} /\ turn[l] = [node |-> To(l), side |-> dir[To(l)]]
  <2>1. l.node \in DOMAIN link /\ l.node \in Above(DOMAIN data) /\ l.side \in Sides
    BY <1>4 DEF Links
  <2>2. l \in [node : DOMAIN link, side : Sides]
    BY <1>4 DEF Links
  <2>3. QED
    BY <2>1, <2>2 DEF To, IsTree, turn
<1>7. ASSUME NEW l \in Links(Tree), To(l) \in Tree
      PROVE  turn[l] \in Links(Tree) /\ To(turn[l]) = link[To(l)][dir[To(l)]]
  <2>1. To(l) \in Above(Tree) /\ dir[To(l)] \in Sides
    BY <1>4, <1>7, AboveFacts
  <2> DEFINE t == [node |-> To(l), side |-> dir[To(l)]]
  <2>2. t \in Links(Tree) /\ t.node = To(l) /\ t.side = dir[To(l)]
    BY <2>1 DEF Links
  <2>3. turn[l] = t
    BY <1>6
  <2> HIDE DEF t
  <2>4. QED
    BY <2>2, <2>3 DEF To
<1> DEFINE Going(m) == \A i \in 0 .. m : To(at[i]) \notin ends
           Good == {m \in Nat : Going(m) =>
                      /\ at[m] \in Links(Tree) /\ To(at[m]) \in Tree
                      /\ Cardinality(sub[To(at[m])]) + m <= N}
<1>8. 0 \in Good
  <2> SUFFICES ASSUME Going(0)
               PROVE  /\ at[0] \in Links(Tree) /\ To(at[0]) \in Tree
                      /\ Cardinality(sub[To(at[0])]) + 0 <= N
    OBVIOUS
  <2>1. To(from) \in Tree \cup {NULL}
    BY <1>6
  <2>2. To(from) \notin ends
    BY <1>3
  <2>3. To(from) \in Tree
    BY <2>1, <2>2
  <2>4. QED
    BY <1>3, <1>4, <1>5, <2>3
<1>9. ASSUME NEW m \in Good PROVE m + 1 \in Good
  <2> SUFFICES ASSUME Going(m + 1)
               PROVE  /\ at[m + 1] \in Links(Tree) /\ To(at[m + 1]) \in Tree
                      /\ Cardinality(sub[To(at[m + 1])]) + (m + 1) <= N
    OBVIOUS
  <2>1. /\ at[m] \in Links(Tree) /\ To(at[m]) \in Tree
        /\ Cardinality(sub[To(at[m])]) + m <= N
    OBVIOUS
  <2> DEFINE n == To(at[m])
             c == To(at[m + 1])
  <2>2. at[m + 1] \in Links(Tree) /\ c = link[n][dir[n]]
    BY <1>3, <1>7, <2>1
  <2>3. c \notin ends
    OBVIOUS
  <2>4. c \in Tree /\ dir[n] \in Sides
    BY <1>4, <1>6, <2>1, <2>2, <2>3
  <2> HIDE DEF c, n
  <2>5. sub[c] \subseteq sub[n] /\ n \in sub[n] /\ n \notin sub[c] /\ n \in Tree
    BY <2>1, <2>2, <2>4, ChildFacts DEF n
  <2>6. /\ Cardinality(sub[c]) <= Cardinality(sub[n])
        /\ Cardinality(sub[c]) = Cardinality(sub[n]) => sub[c] = sub[n]
    BY <1>5, <2>5, FS_Subset
  <2>7. Cardinality(sub[c]) + 1 <= Cardinality(sub[n])
    BY <1>5, <2>4, <2>5, <2>6
  <2>8. QED
    BY <1>4, <1>5, <2>1, <2>2, <2>4, <2>5, <2>7 DEF c, n
<1>10. Good = Nat
  <2>1. Good \in SUBSET Nat
    OBVIOUS
  <2> HIDE DEF Good
  <2>2. QED
    BY <1>8, <1>9, <2>1, SetInduction
<1>11. \E m \in 0 .. N : To(at[m]) \in ends
  <2> SUFFICES ASSUME Going(N) PROVE FALSE
    BY <1>4
  <2>1. To(at[N]) \in Tree /\ Cardinality(sub[To(at[N])]) + N <= N
    BY <1>4, <1>10
  <2>2. QED
    BY <1>4, <1>5, <2>1
<1>12. \E m \in 0 .. N : Stop(m)
  <2> DEFINE E == {m \in 0 .. N : To(at[m]) \in ends}
  <2>1. E \in SUBSET Nat /\ E # {}
    BY <1>4, <1>11
  <2> HIDE DEF E
  <2>2. PICK m \in E : \A k \in E : m <= k
    BY <2>1, LeastElement
  <2>3. m \in 0 .. N /\ To(at[m]) \in ends
    BY DEF E
  <2>4. ASSUME NEW i \in 0 .. m - 1 PROVE To(at[i]) \notin ends
    BY <1>4, <2>2, <2>3 DEF E
  <2>5. QED
    BY <2>3, <2>4
<1>13. turns \in 0 .. N /\ Stop(turns)
  BY <1>12
<1> HIDE DEF turns
<1>14. ASSUME NEW i \in 0 .. turns
       PROVE  at[i] \in Links(Tree)
  <2>1. CASE i = 0
    BY <1>3, <2>1
  <2>2. CASE i # 0
    <3>1. i - 1 \in Nat /\ Going(i - 1)
      BY <1>4, <1>13, <2>2
    <3>2. at[i - 1] \in Links(Tree) /\ To(at[i - 1]) \in Tree
      BY <1>10, <3>1
    <3>3. at[i] = turn[at[i - 1]]
      BY <1>3, <3>1
    <3>4. QED
      BY <1>7, <3>2, <3>3
  <2>3. QED
    BY <2>1, <2>2
<1> DEFINE path == [k \in 1 .. turns + 1 |-> at[k - 1]]
<1>15. turns \in Nat /\ turns + 1 \in Nat
  BY <1>4, <1>13
<1>16. path \in Seq(Links(Tree)) /\ Len(path) = turns + 1
  <2>1. path \in [1 .. turns + 1 -> Links(Tree)]
    BY <1>14, <1>15
  <2> HIDE DEF path
  <2>2. QED
    BY <1>15, <2>1
<1>17. path[1] = from /\ To(path[turns + 1]) \in ends
  BY <1>3, <1>13, <1>15
<1>18. ASSUME NEW i \in 1 .. turns
       PROVE  /\ To(path[i]) \in Tree /\ To(path[i]) \notin ends
              /\ path[i + 1] = [node |-> To(path[i]), side |-> dir[To(path[i])]]
  <2>1. path[i] = at[i - 1] /\ path[i + 1] = at[i] /\ i - 1 \in Nat /\ i - 1 \in 0 .. turns
    BY <1>15
  <2>2. To(at[i - 1]) \notin ends /\ at[i - 1] \in Links(Tree)
    BY <1>13, <1>14, <1>15, <2>1
  <2>3. at[i] = turn[at[i - 1]]
    BY <1>3, <2>1
  <2>4. QED
    BY <1>6, <2>1, <2>2, <2>3
<1> HIDE DEF path
<1>19. path # << >> /\ Len(path) - 1 = turns
  BY <1>15, <1>16
<1>20. IsWalk(path, from, dir, ends)
  BY <1>16, <1>17, <1>18, <1>19 DEF IsWalk
<1>21. QED
  BY <1>1, <1>20 DEF path

-----------------------------------------------------------------------------
(* A path: each link leads to the node of the next one.                    *)
IsPath(L, T, path) ==
  /\ path \in Seq(Links(T))
  /\ \A i \in 1 .. Len(path) - 1 :
       L[path[i].node][path[i].side] = path[i + 1].node /\ path[i + 1].node \in T

(* What is further along a path is below what came before: a path does not *)
(* meet itself.                                                            *)
LEMMA PathBelow ==
  ASSUME NEW L, NEW D, NEW T, NEW sub, IsTree(L, D, T, sub),
         NEW path, IsPath(L, T, path),
         NEW i \in 1 .. Len(path), NEW j \in 1 .. Len(path), i < j
  PROVE  /\ L[path[i].node][path[i].side] \in T
         /\ path[j].node \in sub[L[path[i].node][path[i].side]]
         /\ path[j].node \in T /\ path[j].node # path[i].node
<1> DEFINE c == L[path[i].node][path[i].side]
           P == {k \in Nat : i + 1 + k <= Len(path) => path[i + 1 + k].node \in sub[c]}
<1>1. Len(path) \in Nat /\ i \in Nat /\ j \in Nat
  BY DEF IsPath
<1>2. c \in T /\ c = path[i + 1].node /\ c # NULL
  BY <1>1, NodeFacts DEF IsPath, IsTree
<1>3. path[i].node \in Above(T) /\ path[i].side \in Sides
  BY LinkFacts DEF IsPath
<1> HIDE DEF c
<1>4. c \in sub[c]
  BY <1>2, ChildFacts
<1>5. 0 \in P
  BY <1>1, <1>2, <1>4
<1>6. ASSUME NEW k \in P PROVE k + 1 \in P
  <2> DEFINE m == i + 1 + k
  <2> SUFFICES ASSUME m + 1 <= Len(path) PROVE path[m + 1].node \in sub[c]
    BY <1>1
  <2>1. m \in 1 .. Len(path) - 1 /\ m - 1 \in 1 .. Len(path) - 1 /\ (m - 1) + 1 = m
    BY <1>1
  <2>2. path[m].node \in sub[c]
    BY <1>1
  <2> HIDE DEF m
  <2>3. L[path[m].node][path[m].side] = path[m + 1].node /\ path[m + 1].node \in T
    BY <2>1 DEF IsPath
  <2>4. path[m].node \in T
    BY <2>1 DEF IsPath
  <2>5. path[m].side \in Sides
    BY <1>1, <2>1, LinkFacts DEF IsPath
  <2>6. path[m + 1].node \in sub[path[m + 1].node]
    BY <2>3, ChildFacts
  <2>7. path[m + 1].node \in sub[path[m].node]
    BY <2>3, <2>4, <2>5, <2>6, ChildFacts
  <2>8. sub[path[m].node] \subseteq sub[c]
    BY <1>2, <2>2, Nested
  <2>9. QED
    BY <2>7, <2>8
<1>7. P = Nat
  <2>1. P \in SUBSET Nat
    OBVIOUS
  <2> HIDE DEF P
  <2>2. QED
    BY <1>5, <1>6, <2>1, SetInduction
<1>8. path[j].node \in sub[c]
  <2>1. j - (i + 1) \in Nat /\ i + 1 + (j - (i + 1)) = j
    BY <1>1
  <2>2. j - (i + 1) \in P
    BY <1>7, <2>1
  <2>3. QED
    BY <1>1, <2>1, <2>2
<1>9. path[i].node \notin sub[c]
  BY <1>2, <1>3, ParentAbove DEF c
<1>10. path[j].node \in T
  BY <1>2, <1>8 DEF IsTree
<1>11. QED
  BY <1>2, <1>8, <1>9, <1>10 DEF c

(* A walk is a path.                                                       *)
Steered(path, dir) ==
  \A i \in 2 .. Len(path) : path[i].node \in Tree /\ path[i].side = dir[path[i].node]

(* So a walk is a path that turns at each node the way dir says.           *)
LEMMA WalkPath ==
  ASSUME NEW from, NEW dir, NEW ends, NEW sub, CanWalk(from, dir, ends, sub)
  PROVE  /\ IsPath(link, Tree, Walk(from, dir, ends))
         /\ Steered(Walk(from, dir, ends), dir)
<1> DEFINE path == Walk(from, dir, ends)
<1>1. IsWalk(path, from, dir, ends)
  BY WalkIs
<1> HIDE DEF path
<1>2. path \in Seq(Links(Tree)) /\ Len(path) \in Nat
  BY <1>1 DEF IsWalk
<1>3. ASSUME NEW i \in 1 .. Len(path) - 1
      PROVE  /\ To(path[i]) \in Tree
             /\ path[i + 1].node = To(path[i]) /\ path[i + 1].side = dir[To(path[i])]
  <2> DEFINE n == To(path[i])
  <2>1. n \in Tree /\ path[i + 1] = [node |-> n, side |-> dir[n]]
    BY <1>1 DEF IsWalk
  <2> HIDE DEF n
  <2>2. path[i + 1].node = n /\ path[i + 1].side = dir[n]
    BY <2>1
  <2>3. QED
    BY <2>1, <2>2 DEF n
<1>4. IsPath(link, Tree, path)
  BY <1>2, <1>3 DEF IsPath, To
<1>5. ASSUME NEW i \in 2 .. Len(path)
      PROVE  path[i].node \in Tree /\ path[i].side = dir[path[i].node]
  <2>1. i - 1 \in 1 .. Len(path) - 1 /\ (i - 1) + 1 = i
    BY <1>2
  <2>2. QED
    BY <1>3, <2>1
<1>6. Steered(path, dir)
  BY <1>5 DEF Steered
<1>7. QED
  BY <1>4, <1>6 DEF path

(* What a search finds: price, if it is in the tree, and otherwise the     *)
(* only place where it can be put.                                         *)
SearchFound(path, price, sub) ==
  /\ path \in Seq(Links(Tree)) /\ Len(path) \in Nat \ {0}
  /\ IsPath(link, Tree, path) /\ path[1] = RootLink
  /\ price \in Tree => Found(path) = price
  /\ price \notin Tree => Found(path) = NULL
  /\ \A n \in Tree, d \in Sides :
       Last(path).node \in sub[link[n][d]] => d = Direction(price, n)
  /\ Last(path).node \in Tree => Last(path).side = Direction(price, Last(path).node)
  /\ Last(path).node = Anchor => Last(path).side = 0

(* rb_probe's and rb_delete's search goes the right way at each node, since*)
(* the prices are in order.                                                *)
LEMMA SearchIs ==
  ASSUME NEW sub, IsTree(link, DOMAIN data, Tree, sub), Tree = DOMAIN data,
         NEW price \in Nat
  PROVE  SearchFound(Search(price), price, sub)
<1> DEFINE dir == [n \in DOMAIN data |-> Direction(price, n)]
           path == Search(price)
<1>1. dir \in [DOMAIN data -> Sides]
  BY DEF Direction, Sides
<1>2. RootLink \in Links(Tree) /\ RootLink.node = Anchor /\ RootLink.side = 0
  BY AboveFacts DEF RootLink, Links, Sides
<1>3. CanWalk(RootLink, dir, {NULL, price}, sub)
  BY <1>1, <1>2 DEF CanWalk, IsTree
<1>4. path = Walk(RootLink, dir, {NULL, price})
  BY DEF Search
<1> HIDE DEF path, dir
<1>5. IsWalk(path, RootLink, dir, {NULL, price})
  BY <1>3, <1>4, WalkIs
<1>6. /\ IsPath(link, Tree, path)
      /\ \A i \in 2 .. Len(path) : path[i].node \in Tree /\ path[i].side = dir[path[i].node]
  <2>1. IsPath(link, Tree, path) /\ Steered(path, dir)
    BY <1>3, <1>4, WalkPath
  <2>2. QED
    BY <2>1 DEF Steered
<1>7. /\ path \in Seq(Links(Tree)) /\ Len(path) \in Nat \ {0} /\ path[1] = RootLink
      /\ To(path[Len(path)]) \in {NULL, price}
      /\ Len(path) - 1 \in Nat /\ (Len(path) - 1) + 1 = Len(path)
  <2>1. /\ path \in Seq(Links(Tree)) /\ path # << >> /\ path[1] = RootLink
        /\ To(path[Len(path)]) \in {NULL, price}
    BY <1>5 DEF IsWalk
  <2>2. Len(path) \in Nat \ {0}
    BY <2>1
  <2>3. QED
    BY <2>1, <2>2
<1>8. ASSUME NEW i \in 1 .. Len(path) - 1
      PROVE  /\ To(path[i]) \in Tree /\ To(path[i]) # price
             /\ path[i + 1].node = To(path[i])
             /\ path[i + 1].side = Direction(price, To(path[i]))
  <2>1. To(path[i]) \in Tree /\ To(path[i]) # price
    BY <1>5 DEF IsWalk
  <2>2. i \in 1 .. Len(path) /\ i + 1 \in 2 .. Len(path)
    BY <1>7
  <2>3. path[i + 1].node = To(path[i])
    BY <1>6 DEF IsPath, To
  <2>4. QED
    BY <1>6, <2>1, <2>2, <2>3 DEF dir
<1>9. NULL \notin Tree /\ Anchor \notin Tree /\ Tree \subseteq Nat /\ sub[NULL] = {}
  BY NodeFacts DEF IsTree
<1>10. ASSUME price \in Tree PROVE To(path[Len(path)]) = price
  <2> DEFINE P == {k \in Nat : k + 1 <= Len(path) => price \in sub[To(path[k + 1])]}
  <2>1. 0 \in P
    BY <1>2, <1>7, <1>10 DEF To, IsTree
  <2>2. ASSUME NEW k \in P PROVE k + 1 \in P
    <3> SUFFICES ASSUME (k + 1) + 1 <= Len(path)
                 PROVE  price \in sub[To(path[(k + 1) + 1])]
      OBVIOUS
    <3> DEFINE n == To(path[k + 1])
               d == Direction(price, n)
    <3>1. k + 1 \in 1 .. Len(path) - 1
      BY <1>7
    <3>2. price \in sub[n] /\ n \in Tree /\ n # price
      <4>1. n \in Tree /\ n # price
        BY <1>8, <3>1
      <4>2. k + 1 <= Len(path)
        BY <1>7
      <4>3. QED
        BY <4>1, <4>2
    <3>3. To(path[(k + 1) + 1]) = link[n][d]
      BY <1>8, <3>1 DEF To
    <3> HIDE DEF n
    <3>4. PICK e \in Sides : price \in sub[link[n][e]]
      BY <3>2 DEF IsTree, Sides
    <3>5. Beside(price, e, n)
      BY <3>2, <3>4 DEF IsTree
    <3>6. e = d
      BY <1>9, <3>2, <3>5, BesideFacts
    <3>7. QED
      BY <3>3, <3>4, <3>6
  <2>3. P = Nat
    <3>1. P \in SUBSET Nat
      OBVIOUS
    <3> HIDE DEF P
    <3>2. QED
      BY <2>1, <2>2, <3>1, SetInduction
  <2>4. Len(path) - 1 \in P
    BY <1>7, <2>3
  <2>5. price \in sub[To(path[Len(path)])]
    BY <1>7, <2>4
  <2>6. QED
    BY <1>7, <1>9, <2>5
<1>11. ASSUME price \notin Tree PROVE To(path[Len(path)]) = NULL
  <2>1. path[Len(path)].node \in Above(Tree) /\ path[Len(path)].side \in Sides
    BY <1>7, LinkFacts
  <2>2. To(path[Len(path)]) \in Tree \cup {NULL}
    BY <1>7, <2>1, AboveFacts DEF To, IsTree
  <2>3. QED
    BY <1>7, <1>11, <2>2
<1>12. ASSUME NEW n \in Tree, NEW d \in Sides,
              path[Len(path)].node \in sub[link[n][d]]
       PROVE  d = Direction(price, n)
  <2> DEFINE P == {k \in Nat : k + 1 <= Len(path) =>
                     \A m \in Tree, e \in Sides :
                       path[k + 1].node \in sub[link[m][e]] => e = Direction(price, m)}
  <2>1. 0 \in P
    BY <1>2, <1>7, <1>9, ChildFacts
  <2>2. ASSUME NEW k \in P PROVE k + 1 \in P
    <3> SUFFICES ASSUME (k + 1) + 1 <= Len(path), NEW m \in Tree, NEW e \in Sides,
                        path[(k + 1) + 1].node \in sub[link[m][e]]
                 PROVE  e = Direction(price, m)
      OBVIOUS
    <3> DEFINE l == path[k + 1]
               c == To(l)
    <3>1. k + 1 \in 1 .. Len(path) - 1 /\ k + 1 \in 1 .. Len(path)
      BY <1>7
    <3>2. c \in Tree /\ path[(k + 1) + 1].node = c /\ c = link[l.node][l.side]
      BY <1>8, <3>1 DEF To
    <3>3. l.node \in Above(Tree) /\ l.side \in Sides
      BY <1>7, <3>1, LinkFacts
    <3>4. l.node \in sub[link[m][e]] => e = Direction(price, m)
      BY <1>7
    <3>5. l.node \in Tree => l.side = Direction(price, l.node)
      <4>1. CASE k = 0
        BY <1>2, <1>7, <1>9, <4>1
      <4>2. CASE k # 0
        <5>1. k \in 1 .. Len(path) - 1
          BY <1>7, <4>2
        <5>2. QED
          BY <1>8, <5>1
      <4>3. QED
        BY <4>1, <4>2
    <3> HIDE DEF l, c
    <3>6. link[m][e] \in Tree
      BY <1>9, ChildFacts
    <3>7. c = link[m][e] \/ l.node \in sub[link[m][e]]
      BY <1>9, <3>2, <3>3, <3>6, ParentBelow
    <3>8. ASSUME c = link[m][e] PROVE e = Direction(price, m)
      <4>1. link[l.node][l.side] = link[m][e] /\ link[m][e] # NULL
        BY <1>9, <3>2, <3>6, <3>8
      <4>2. m \in Above(Tree)
        BY AboveFacts
      <4>3. l.node = m /\ l.side = e
        BY <3>3, <4>1, <4>2 DEF IsTree
      <4>4. QED
        BY <3>5, <4>3
    <3>9. QED
      BY <3>4, <3>7, <3>8
  <2>3. P = Nat
    <3>1. P \in SUBSET Nat
      OBVIOUS
    <3> HIDE DEF P
    <3>2. QED
      BY <2>1, <2>2, <3>1, SetInduction
  <2>4. Len(path) - 1 \in P
    BY <1>7, <2>3
  <2>5. QED
    BY <1>7, <1>12, <2>4
<1>13. /\ path[Len(path)].node \in Tree =>
            path[Len(path)].side = Direction(price, path[Len(path)].node)
       /\ path[Len(path)].node = Anchor => path[Len(path)].side = 0
  <2>1. CASE Len(path) = 1
    BY <1>2, <1>7, <1>9, <2>1
  <2>2. CASE Len(path) # 1
    <3>1. Len(path) - 1 \in 1 .. Len(path) - 1
      BY <1>7, <2>2
    <3>2. /\ path[Len(path)].node \in Tree
          /\ path[Len(path)].side = Direction(price, path[Len(path)].node)
      BY <1>7, <1>8, <3>1
    <3>3. QED
      BY <1>9, <3>2
  <2>3. QED
    BY <2>1, <2>2
<1>14. SearchFound(path, price, sub)
  BY <1>6, <1>7, <1>10, <1>11, <1>12, <1>13 DEF SearchFound, Found, Last
<1>15. QED
  BY <1>14 DEF path

(* A walk to one side ends at the outermost node on that side.             *)
OutermostBelow(path, from, d, sub) ==
  /\ path \in Seq(Links(Tree)) /\ Len(path) \in Nat /\ 2 <= Len(path)
  /\ IsPath(link, Tree, path) /\ path[1] = from
  /\ \A i \in 2 .. Len(path) : path[i].node \in Tree /\ path[i].side = d
  /\ Last(path).node \in sub[To(from)] /\ link[Last(path).node][d] = NULL
  /\ \A m \in sub[To(from)] : m = Last(path).node \/ Beside(m, 1 - d, Last(path).node)

(* The loop down one side, which rb_delete uses to find the successor.     *)
LEMMA OuterWalk ==
  ASSUME NEW sub, IsTree(link, DOMAIN data, Tree, sub), IsFiniteSet(DOMAIN data),
         NEW from \in Links(Tree), To(from) # NULL, NEW d \in Sides
  PROVE  OutermostBelow(Walk(from, [n \in DOMAIN data |-> d], {NULL}), from, d, sub)
<1> DEFINE dir == [n \in DOMAIN data |-> d]
           path == Walk(from, dir, {NULL})
           all == sub[To(from)]
<1>1. CanWalk(from, dir, {NULL}, sub)
  BY DEF CanWalk
<1> HIDE DEF dir
<1>2. /\ IsWalk(path, from, dir, {NULL})
      /\ IsPath(link, Tree, path)
      /\ \A i \in 2 .. Len(path) : path[i].node \in Tree /\ path[i].side = dir[path[i].node]
  <2>1. IsWalk(path, from, dir, {NULL})
    BY <1>1, WalkIs
  <2>2. IsPath(link, Tree, path) /\ Steered(path, dir)
    BY <1>1, WalkPath
  <2> HIDE DEF path
  <2>3. QED
    BY <2>1, <2>2 DEF Steered
<1> HIDE DEF path
<1>3. /\ path \in Seq(Links(Tree)) /\ path # << >> /\ path[1] = from
      /\ To(path[Len(path)]) = NULL
  BY <1>2 DEF IsWalk
<1>4. Len(path) \in Nat /\ 2 <= Len(path)
  <2>1. Len(path) \in Nat /\ Len(path) # 0
    BY <1>3
  <2>2. Len(path) # 1
    BY <1>3
  <2> DEFINE N == Len(path)
  <2>3. N \in Nat /\ N # 0 /\ N # 1
    BY <2>1, <2>2
  <2> HIDE DEF N
  <2>4. N \in Nat /\ 2 <= N
    BY <2>3
  <2>5. QED
    BY <2>4 DEF N
<1>5. Tree \subseteq Nat /\ Tree \subseteq DOMAIN data /\ sub \in [Tree \cup {NULL} -> SUBSET Tree]
      /\ sub[NULL] = {} /\ NULL \notin Tree
  BY NodeFacts DEF IsTree
<1>6. ASSUME NEW i \in 2 .. Len(path)
      PROVE  path[i].node \in Tree /\ path[i].side = d
  BY <1>2, <1>5 DEF dir
<1>7. ASSUME NEW i \in 1 .. Len(path) - 1
      PROVE  To(path[i]) = path[i + 1].node /\ path[i + 1].node \in Tree
  BY <1>2 DEF IsPath, To
<1> DEFINE Outer(n) == \A m \in all : m \in sub[n] \/ Beside(m, 1 - d, n)
           P == {k \in Nat : k + 2 <= Len(path) =>
                   path[k + 2].node \in all /\ Outer(path[k + 2].node)}
<1>8. 0 \in P
  <2>1. 1 \in 1 .. Len(path) - 1
    BY <1>4
  <2>2. path[2].node = To(from) /\ To(from) \in Tree
    BY <1>3, <1>7, <2>1
  <2>3. To(from) \in sub[To(from)]
    BY <2>2, ChildFacts
  <2>4. QED
    BY <2>2, <2>3
<1>9. ASSUME NEW k \in P PROVE k + 1 \in P
  <2> DEFINE n == path[k + 2].node
             c == path[(k + 1) + 2].node
  <2> SUFFICES ASSUME (k + 1) + 2 <= Len(path) PROVE c \in all /\ Outer(c)
    OBVIOUS
  <2>1. k + 2 \in 2 .. Len(path) /\ k + 2 \in 1 .. Len(path) - 1 /\ (k + 1) + 2 = (k + 2) + 1
    BY <1>4
  <2>2. n \in Tree /\ path[k + 2].side = d
    BY <1>6, <2>1
  <2>3. c \in Tree /\ c = link[n][d]
    BY <1>7, <2>1, <2>2 DEF To
  <2>4. n \in all /\ Outer(n)
    BY <1>4
  <2> HIDE DEF n, c, P
  <2>5. all \subseteq Tree /\ \A m \in all : sub[m] \subseteq all
    <3>1. To(from) \in Tree
      BY <1>3, <1>4, <1>7
    <3>2. QED
      BY <1>5, <3>1, Nested
  <2>6. /\ c \in sub[c] /\ sub[c] \subseteq sub[n] /\ 1 - d \in Sides
        /\ sub[n] = {n} \cup sub[c] \cup sub[link[n][1 - d]]
    BY <2>2, <2>3, ChildFacts, SideFacts
  <2>7. Beside(c, d, n)
    BY <2>2, <2>3, <2>6 DEF IsTree
  <2>8. Beside(n, 1 - d, c)
    BY <1>5, <2>2, <2>3, <2>7, BesideFacts
  <2>9. ASSUME NEW m \in all PROVE m \in sub[c] \/ Beside(m, 1 - d, c)
    <3>1. m \in Nat /\ n \in Nat /\ c \in Nat
      BY <1>5, <2>2, <2>3, <2>5
    <3>2. CASE Beside(m, 1 - d, n)
      BY <2>6, <2>8, <3>1, <3>2, BesideFacts
    <3>3. CASE m = n
      BY <2>8, <3>3
    <3>4. CASE m \in sub[link[n][1 - d]]
      <4>1. Beside(m, 1 - d, n)
        BY <2>2, <2>6, <3>4 DEF IsTree
      <4>2. QED
        BY <3>2, <4>1
    <3>5. QED
      BY <2>4, <2>6, <3>2, <3>3, <3>4
  <2>10. QED
    BY <2>4, <2>5, <2>6, <2>9
<1>10. P = Nat
  <2>1. P \in SUBSET Nat
    OBVIOUS
  <2> HIDE DEF P
  <2>2. QED
    BY <1>8, <1>9, <2>1, SetInduction
<1> DEFINE o == path[Len(path)].node
<1>11. /\ o \in Tree /\ o \in all /\ Outer(o) /\ link[o][d] = NULL
  <2>1. Len(path) - 2 \in Nat /\ (Len(path) - 2) + 2 = Len(path) /\ Len(path) \in 2 .. Len(path)
    BY <1>4
  <2>2. Len(path) - 2 \in P
    BY <1>10, <2>1
  <2>3. o \in all /\ Outer(o)
    BY <2>1, <2>2
  <2>4. o \in Tree /\ path[Len(path)].side = d
    BY <1>6, <2>1
  <2>5. link[o][d] = NULL
    BY <1>3, <2>4 DEF To
  <2>6. QED
    BY <2>3, <2>4, <2>5
<1> HIDE DEF o, P
<1>12. \A m \in all : m = o \/ Beside(m, 1 - d, o)
  <2>1. sub[o] = {o} \cup sub[link[o][d]] \cup sub[link[o][1 - d]]
    BY <1>11, ChildFacts
  <2>2. \A m \in sub[link[o][1 - d]] : Beside(m, 1 - d, o)
    BY <1>11, SideFacts DEF IsTree
  <2>3. QED
    BY <1>5, <1>11, <2>1, <2>2
<1>13. OutermostBelow(path, from, d, sub)
  BY <1>2, <1>3, <1>4, <1>6, <1>11, <1>12 DEF OutermostBelow, Last, o
<1>14. QED
  BY <1>13 DEF path, dir

-----------------------------------------------------------------------------
(* The colours c of a tree's nodes and the heights h they give.  One black *)
(* node is missing at the link gap of gapNode (NULL: nowhere); a red node  *)
(* may have a red child at the link side of spot, or be the node odd.      *)
Colors == {"red", "black"}
IsRed(c, n) == n # NULL /\ c[n] = "red"
Bk(c, n) == IF c[n] = "black" THEN 1 ELSE 0

Heights(L, T, c, h, gapNode, gap) ==
  /\ h \in [T \cup {NULL} -> Nat] /\ h[NULL] = 0
  /\ \A n \in T, d \in Sides :
       h[n] = h[L[n][d]] + (IF n = gapNode /\ d = gap THEN 1 ELSE 0) + Bk(c, n)

Reds(L, T, c, spot, side, odd) ==
  \A n \in Above(T), d \in Sides :
    (n = Anchor \/ IsRed(c, n)) /\ IsRed(c, L[n][d]) => (n = spot /\ d = side) \/ n = odd

Painted(L, D, T, sub, c, h) ==
  /\ IsTree(L, D, T, sub) /\ c \in [D -> Colors] /\ h \in [T \cup {NULL} -> Nat]

(* The parent p, its sibling u and its parent g change their colours.      *)
UncleColors(c, p, u, g) == [c EXCEPT ![p] = "black", ![u] = "black", ![g] = "red"]

CanRecolor(L, D, T, sub, c, h, p, e, g, d, u, a, b) ==
  /\ Painted(L, D, T, sub, c, h)
  /\ Heights(L, T, c, h, NULL, 0) /\ Reds(L, T, c, p, e, NULL)
  /\ g \in T /\ d \in Sides /\ e \in Sides /\ p = L[g][d] /\ u = L[g][1 - d]
  /\ IsRed(c, p) /\ IsRed(c, u)
  /\ a \in Above(T) /\ b \in Sides /\ L[a][b] = g

(* No height but g's changes, and the red pair can only be two levels      *)
(* higher now (rb.c:124).                                                  *)
LEMMA RecolorUncle ==
  ASSUME NEW L, NEW D, NEW T, NEW sub, NEW c, NEW h, NEW p, NEW e, NEW g, NEW d,
         NEW u, NEW a, NEW b, CanRecolor(L, D, T, sub, c, h, p, e, g, d, u, a, b)
  PROVE  \E h2 : /\ Heights(L, T, UncleColors(c, p, u, g), h2, NULL, 0)
                 /\ Reds(L, T, UncleColors(c, p, u, g), a, b, NULL)
<1> USE DEF CanRecolor, Painted
<1> DEFINE c2 == UncleColors(c, p, u, g)
           h2 == [h EXCEPT ![p] = h[p] + 1, ![u] = h[u] + 1]
<1>1. /\ p \in T /\ u \in T /\ p # u /\ p # g /\ u # g /\ T \subseteq D
      /\ NULL \notin T /\ Anchor \notin T
  <2>1. p \in T /\ u \in T /\ p # g /\ u # g
    BY ChildFacts, SideFacts DEF IsRed
  <2>2. p # u
    <3>1. g \in Above(T) /\ p # NULL
      BY AboveFacts DEF IsRed
    <3>2. QED
      BY <3>1, SideFacts DEF IsTree
  <2>3. QED
    BY <2>1, <2>2, NodeFacts DEF IsTree
<1>2. c[g] = "black" /\ c[p] = "red" /\ c[u] = "red"
  <2>1. ~IsRed(c, g)
    BY <1>1, AboveFacts DEF Reds
  <2>2. QED
    BY <1>1, <2>1 DEF IsRed, Colors
<1>3. /\ c2[g] = "red" /\ c2[p] = "black" /\ c2[u] = "black"
      /\ \A n \in T : n # g /\ n # p /\ n # u => c2[n] = c[n]
  BY <1>1 DEF UncleColors
<1>4. /\ h2 \in [T \cup {NULL} -> Nat]
      /\ h2[p] = h[p] + 1 /\ h2[u] = h[u] + 1
      /\ \A n \in T \cup {NULL} : n # p /\ n # u => h2[n] = h[n]
  BY <1>1
<1> HIDE DEF c2, h2
<1>5. \A n \in T, f \in Sides :
        /\ L[n][f] \in T \cup {NULL}
        /\ L[n][f] = p => n = g /\ f = d
        /\ L[n][f] = u => n = g /\ f = 1 - d
        /\ h[n] \in Nat /\ h[L[n][f]] \in Nat /\ h[n] = h[L[n][f]] + Bk(c, n)
  <2> SUFFICES ASSUME NEW n \in T, NEW f \in Sides
               PROVE  /\ L[n][f] \in T \cup {NULL}
                      /\ L[n][f] = p => n = g /\ f = d
                      /\ L[n][f] = u => n = g /\ f = 1 - d
                      /\ h[n] \in Nat /\ h[L[n][f]] \in Nat /\ h[n] = h[L[n][f]] + Bk(c, n)
    OBVIOUS
  <2>1. L[n][f] \in T \cup {NULL} /\ n \in Above(T) /\ g \in Above(T) /\ n # NULL
    BY <1>1, ChildFacts, AboveFacts
  <2>2. h[n] \in Nat /\ h[L[n][f]] \in Nat /\ h[n] = h[L[n][f]] + Bk(c, n)
    BY <1>1, <2>1 DEF Heights, Bk
  <2>3. QED
    BY <1>1, <2>1, <2>2, SideFacts DEF IsTree
<1>6. ASSUME NEW n \in T, NEW f \in Sides
      PROVE  h2[n] = h2[L[n][f]] + Bk(c2, n)
  <2>1. CASE n = g
    <3>1. L[n][f] = p \/ L[n][f] = u
      BY <2>1, SideFacts
    <3>2. QED
      BY <1>1, <1>2, <1>3, <1>4, <1>5, <2>1, <3>1 DEF Bk
  <2>2. CASE n = p \/ n = u
    <3>1. L[n][f] # p /\ L[n][f] # u
      BY <1>1, <1>5, <2>2
    <3>2. QED
      BY <1>1, <1>2, <1>3, <1>4, <1>5, <2>2, <3>1 DEF Bk
  <2>3. CASE n # g /\ n # p /\ n # u
    <3>1. L[n][f] # p /\ L[n][f] # u
      BY <1>1, <1>5, <2>3
    <3>2. QED
      BY <1>1, <1>3, <1>4, <1>5, <2>3, <3>1 DEF Bk
  <2>4. QED
    BY <2>1, <2>2, <2>3
<1>7. Heights(L, T, c2, h2, NULL, 0)
  <2>1. h2[NULL] = 0
    BY <1>1, <1>4 DEF Heights
  <2>2. ASSUME NEW n \in T, NEW f \in Sides
        PROVE  h2[n] = h2[L[n][f]] + (IF n = NULL /\ f = 0 THEN 1 ELSE 0) + Bk(c2, n)
    BY <1>1, <1>4, <1>5, <1>6 DEF Bk
  <2>3. QED
    BY <1>4, <2>1, <2>2 DEF Heights
<1>8. Reds(L, T, c2, a, b, NULL)
  <2> SUFFICES ASSUME NEW n \in Above(T), NEW f \in Sides,
                      n = Anchor \/ IsRed(c2, n), IsRed(c2, L[n][f])
               PROVE  n = a /\ f = b
    BY DEF Reds
  <2>1. L[n][f] \in T \cup {NULL}
    BY TreeLinks
  <2>2. L[n][f] \in T /\ L[n][f] # p /\ L[n][f] # u
    BY <1>3, <2>1 DEF IsRed
  <2>3. CASE L[n][f] = g
    BY <1>1, <2>2, <2>3, TreeLinks
  <2>4. CASE L[n][f] # g
    <3>1. IsRed(c, L[n][f])
      BY <1>3, <2>2, <2>4 DEF IsRed
    <3>2. n # p /\ n # NULL
      BY <1>1, <1>3, AboveFacts, NodeFacts DEF IsRed
    <3>3. ~(n = Anchor \/ IsRed(c, n))
      BY <3>1, <3>2 DEF Reds
    <3>4. n \in T /\ c[n] # "red" /\ c2[n] = "red"
      BY <3>2, <3>3, AboveFacts DEF IsRed
    <3>5. n = g
      BY <1>3, <3>4
    <3>6. L[n][f] = p \/ L[n][f] = u
      BY <3>5, SideFacts
    <3>7. QED
      BY <2>2, <3>6
  <2>5. QED
    BY <2>3, <2>4
<1>9. QED
  BY <1>7, <1>8 DEF c2

(* The heights h of the nodes, at their links.                             *)
Measured(L, D, T, sub, c, h, gapNode, gap) ==
  IsTree(L, D, T, sub) /\ Heights(L, T, c, h, gapNode, gap)

(* The height at a link, with and without the missing one.                 *)
LEMMA HeightFacts ==
  ASSUME NEW L, NEW D, NEW T, NEW sub, NEW c, NEW h, NEW gapNode, NEW gap,
         Measured(L, D, T, sub, c, h, gapNode, gap)
  PROVE  /\ h[NULL] = 0
         /\ \A n \in T, d \in Sides :
              /\ h[n] \in Nat /\ L[n][d] \in T \cup {NULL} /\ h[L[n][d]] \in Nat
              /\ ~(n = gapNode /\ d = gap) => h[n] = h[L[n][d]] + Bk(c, n)
              /\ n = gapNode /\ d = gap => h[n] = h[L[n][d]] + 1 + Bk(c, n)
<1>1. h \in [T \cup {NULL} -> Nat] /\ h[NULL] = 0
  BY DEF Measured, Heights
<1>2. ASSUME NEW n \in T, NEW d \in Sides
      PROVE  /\ h[n] \in Nat /\ L[n][d] \in T \cup {NULL} /\ h[L[n][d]] \in Nat
             /\ ~(n = gapNode /\ d = gap) => h[n] = h[L[n][d]] + Bk(c, n)
             /\ n = gapNode /\ d = gap => h[n] = h[L[n][d]] + 1 + Bk(c, n)
  <2>1. L[n][d] \in T \cup {NULL}
    BY TreeLinks DEF Measured
  <2>2. h[n] \in Nat /\ h[L[n][d]] \in Nat
    BY <1>1, <2>1
  <2>3. h[n] = h[L[n][d]] + (IF n = gapNode /\ d = gap THEN 1 ELSE 0) + Bk(c, n)
    BY DEF Measured, Heights
  <2>4. QED
    BY <2>1, <2>2, <2>3 DEF Bk
<1>3. QED
  BY <1>1, <1>2

(* The heights h2 that the colours c2 give after a rotation: only the two  *)
(* nodes and the outer child of the one that rises may change.             *)
Fitting(L, T, g, d, y, c, h, c2, h2, gapNode2, gap2) ==
  /\ h2 \in [T \cup {NULL} -> Nat] /\ h2[NULL] = 0
  /\ \A n \in T \ {g, y} :
       /\ n # L[y][d] => h2[n] = h[n]
       /\ h2[n] + Bk(c, n) = h[n] + Bk(c2, n)
  /\ h2[y] = h[g] /\ h2[y] = h2[g] + Bk(c2, y) /\ h2[y] = h2[L[y][d]] + Bk(c2, y)
  /\ h2[g] = h2[L[y][1 - d]] + (IF g = gapNode2 /\ d = gap2 THEN 1 ELSE 0) + Bk(c2, g)
  /\ h2[g] = h2[L[g][1 - d]] + (IF g = gapNode2 /\ 1 - d = gap2 THEN 1 ELSE 0)
             + Bk(c2, g)

(* Where nothing is rotated, an exception stays where it was.              *)
StaysOut(spot, way, spot2, way2, nodes) ==
  \/ spot \in nodes /\ spot2 \in nodes
  \/ spot = spot2 /\ way = way2

(* If they fit at these three nodes, all heights fit after the rotation.   *)
LEMMA RotateHeights ==
  ASSUME NEW L, NEW D, NEW T, NEW sub, NEW g, NEW d, NEW y, NEW parent, NEW side,
         CanRotate(L, D, T, sub, g, d, y, parent, side),
         NEW c, NEW h, NEW gapNode, NEW gap, Heights(L, T, c, h, gapNode, gap),
         NEW c2, NEW h2, NEW gapNode2, NEW gap2, gapNode2 # y,
         StaysOut(gapNode, gap, gapNode2, gap2, {NULL, g, y}),
         Fitting(L, T, g, d, y, c, h, c2, h2, gapNode2, gap2)
  PROVE  Heights(Rotate(L, parent, side, g, d), T, c2, h2, gapNode2, gap2)
<1> DEFINE R == Rotate(L, parent, side, g, d)
<1> HIDE DEF R
<1>1. /\ y \in T /\ y # g /\ parent # g /\ parent # y
      /\ LinksRotated(R, L, D, g, d, y, parent, side)
  BY RotateLinks DEF R
<1>2. /\ IsTree(L, D, T, sub) /\ g \in T /\ d \in Sides /\ y = L[g][d]
      /\ parent \in Above(T) /\ side \in Sides /\ L[parent][side] = g
  BY DEF CanRotate
<1>3. /\ R[g][d] = L[y][1 - d] /\ R[y][1 - d] = g /\ R[parent][side] = y
      /\ \A n \in T, e \in Sides :
           (n = g => e # d) /\ (n = y => e # 1 - d) /\ (n = parent => e # side)
             => R[n][e] = L[n][e]
  BY <1>1, <1>2, AboveFacts, TreeLinks DEF LinksRotated
<1>4. g # NULL /\ y # NULL /\ NULL \notin T
  BY <1>1, <1>2, TreeLinks
<1>5. \A n \in T, e \in Sides :
        /\ h[n] \in Nat /\ L[n][e] \in T \cup {NULL} /\ h[L[n][e]] \in Nat
        /\ ~(n = gapNode /\ e = gap) => h[n] = h[L[n][e]] + Bk(c, n)
        /\ n = gapNode /\ e = gap => h[n] = h[L[n][e]] + 1 + Bk(c, n)
  <2>1. Measured(L, D, T, sub, c, h, gapNode, gap)
    BY <1>2 DEF Measured
  <2>2. QED
    BY <2>1, HeightFacts DEF Bk
<1>6. ASSUME NEW n \in T, NEW e \in Sides
      PROVE  h2[n] = h2[R[n][e]] + (IF n = gapNode2 /\ e = gap2 THEN 1 ELSE 0) + Bk(c2, n)
  <2>1. e = d \/ e = 1 - d
    BY <1>2, SideFacts
  <2>2. CASE n = g
    <3>1. R[g][1 - d] = L[g][1 - d] /\ d # 1 - d
      BY <1>1, <1>2, <1>3, SideFacts
    <3>2. QED
      BY <1>3, <2>1, <2>2, <3>1 DEF Fitting
  <2>3. CASE n = y
    <3>1. R[y][d] = L[y][d]
      BY <1>1, <1>2, <1>3, SideFacts
    <3>2. h2[y] \in Nat /\ h2[R[y][e]] \in Nat /\ h2[y] = h2[R[y][e]] + Bk(c2, y)
      <4>1. L[y][d] \in T \cup {NULL} /\ g \in T \cup {NULL}
        BY <1>1, <1>2, TreeLinks
      <4>2. QED
        BY <1>1, <1>3, <2>1, <3>1, <4>1 DEF Fitting
    <3>3. QED
      BY <1>1, <2>3, <3>2 DEF Bk
  <2>4. CASE n # g /\ n # y
    <3>1. /\ h[n] \in Nat /\ h[L[n][e]] \in Nat /\ L[n][e] \in T \cup {NULL}
          /\ ~(n = gapNode2 /\ e = gap2) => h[n] = h[L[n][e]] + Bk(c, n)
          /\ n = gapNode2 /\ e = gap2 => h[n] = h[L[n][e]] + 1 + Bk(c, n)
      <4>1. n = gapNode2 /\ e = gap2 <=> n = gapNode /\ e = gap
        BY <1>4, <2>4 DEF StaysOut
      <4>2. QED
        BY <1>5, <4>1
    <3>2. h2[n] + Bk(c, n) = h[n] + Bk(c2, n) /\ h2[n] \in Nat
      BY <2>4 DEF Fitting
    <3>3. h2[R[n][e]] = h[L[n][e]]
      <4>1. CASE n = parent /\ e = side
        BY <1>2, <1>3, <4>1 DEF Fitting
      <4>2. CASE ~(n = parent /\ e = side)
        <5>1. R[n][e] = L[n][e]
          BY <1>3, <2>4, <4>2
        <5>2. L[n][e] # g /\ L[n][e] # y
          BY <1>2, <1>4, <2>4, <4>2, TreeLinks
        <5>3. L[n][e] = L[y][d] => L[n][e] = NULL
          BY <1>1, <1>2, <2>4, TreeLinks
        <5>4. h[NULL] = 0 /\ h2[NULL] = 0
          BY DEF Heights, Fitting
        <5>5. L[n][e] # NULL => L[n][e] \in T \ {g, y} /\ L[n][e] # L[y][d]
          BY <3>1, <5>2, <5>3
        <5>6. QED
          BY <5>1, <5>4, <5>5 DEF Fitting
      <4>3. QED
        BY <4>1, <4>2, SMTT(30)
    <3>4. QED
      BY <3>1, <3>2, <3>3 DEF Bk
  <2>5. QED
    BY <2>2, <2>3, <2>4
<1>7. QED
  BY <1>6 DEF Heights, Fitting, R

(* After a rotation only the links of the two nodes have to be looked at.  *)
Matching(L, T, g, d, y, c, c2, spot2, side2) ==
  /\ \A n \in T \ {g, y} : c2[n] = c[n] \/ c2[n] = "black"
  /\ IsRed(c2, y) => IsRed(c, g)
  /\ IsRed(c2, g) =>
       /\ IsRed(c2, L[y][1 - d]) => spot2 = g /\ side2 = d
       /\ IsRed(c2, L[g][1 - d]) => spot2 = g /\ side2 = 1 - d
  /\ IsRed(c2, y) =>
       /\ IsRed(c2, g) => spot2 = y /\ side2 = 1 - d
       /\ IsRed(c2, L[y][d]) => spot2 = y /\ side2 = d

(* If they match there, the red rule holds after the rotation.             *)
LEMMA RotateReds ==
  ASSUME NEW L, NEW D, NEW T, NEW sub, NEW g, NEW d, NEW y, NEW parent, NEW side,
         CanRotate(L, D, T, sub, g, d, y, parent, side),
         NEW c, NEW spot, NEW way, NEW odd, Reds(L, T, c, spot, way, odd),
         odd \in T \cup {NULL}, ~IsRed(c, odd),
         NEW c2, NEW spot2, NEW way2, NEW odd2,
         StaysOut(spot, way, spot2, way2, {NULL, g, y}),
         Matching(L, T, g, d, y, c, c2, spot2, way2)
  PROVE  Reds(Rotate(L, parent, side, g, d), T, c2, spot2, way2, odd2)
<1> DEFINE R == Rotate(L, parent, side, g, d)
<1> HIDE DEF R
<1>1. /\ y \in T /\ y # g /\ parent # g /\ parent # y
      /\ LinksRotated(R, L, D, g, d, y, parent, side)
  BY RotateLinks DEF R
<1>2. /\ IsTree(L, D, T, sub) /\ g \in T /\ d \in Sides /\ y = L[g][d]
      /\ parent \in Above(T) /\ side \in Sides /\ L[parent][side] = g
  BY DEF CanRotate
<1>3. /\ R[g][d] = L[y][1 - d] /\ R[y][1 - d] = g /\ R[parent][side] = y
      /\ \A n \in Above(T), e \in Sides :
           (n = g => e # d) /\ (n = y => e # 1 - d) /\ (n = parent => e # side)
             => R[n][e] = L[n][e]
  BY <1>1, <1>2, AboveFacts, TreeLinks DEF LinksRotated
<1>4. g # NULL /\ y # NULL /\ NULL \notin T /\ g # Anchor /\ y # Anchor /\ NULL # Anchor
  BY <1>1, <1>2, TreeLinks, NodeFacts
<1> SUFFICES ASSUME NEW n \in Above(T), NEW e \in Sides,
                    n = Anchor \/ IsRed(c2, n), IsRed(c2, R[n][e])
             PROVE  n = spot2 /\ e = way2
  BY DEF Reds, R
<1>5. e = d \/ e = 1 - d
  BY <1>2, SideFacts
<1>6. CASE n = g
  <2>1. R[g][1 - d] = L[g][1 - d]
    BY <1>1, <1>2, <1>3, SideFacts, TreeLinks
  <2>2. QED
    BY <1>3, <1>4, <1>5, <1>6, <2>1 DEF Matching
<1>7. CASE n = y
  <2>1. R[y][d] = L[y][d]
    BY <1>1, <1>2, <1>3, SideFacts, TreeLinks
  <2>2. QED
    BY <1>3, <1>4, <1>5, <1>7, <2>1 DEF Matching
<1>8. CASE n # g /\ n # y
  <2>1. n = Anchor \/ IsRed(c, n)
    BY <1>8, AboveFacts DEF Matching, IsRed
  <2>2. n # NULL /\ n # odd
    BY <1>2, <1>4, <2>1, AboveFacts, TreeLinks
  <2> SUFFICES ASSUME ~(n = spot2 /\ e = way2) PROVE FALSE
    OBVIOUS
  <2>3. ~IsRed(c, L[n][e])
    <3>1. ~(n = spot /\ e = way)
      BY <1>8, <2>2 DEF StaysOut
    <3>2. QED
      BY <2>1, <2>2, <3>1 DEF Reds
  <2>4. CASE n = parent /\ e = side
    BY <1>2, <1>3, <2>3, <2>4 DEF Matching
  <2>5. CASE ~(n = parent /\ e = side)
    <3>1. R[n][e] = L[n][e] /\ L[n][e] \in T \cup {NULL}
      BY <1>2, <1>3, <1>8, <2>5, TreeLinks
    <3>2. L[n][e] # g /\ L[n][e] # y
      BY <1>1, <1>2, <1>4, <1>8, <2>5, TreeLinks
    <3>3. L[n][e] \in T \ {g, y}
      BY <3>1, <3>2 DEF IsRed
    <3>4. IsRed(c, L[n][e])
      BY <3>1, <3>3 DEF Matching, IsRed
    <3>5. QED
      BY <2>3, <3>4
  <2>6. QED
    BY <2>4, <2>5
<1>9. QED
  BY <1>6, <1>7, <1>8

(* Painting the red node below the last link black: it gives the missing   *)
(* black node, or makes all paths from the root one longer.                *)
CanPaint(L, D, T, sub, c, h, a, b, gapNode, gap, odd) ==
  /\ Painted(L, D, T, sub, c, h)
  /\ Heights(L, T, c, h, gapNode, gap) /\ Reds(L, T, c, a, b, odd)
  /\ a \in Above(T) /\ b \in Sides /\ IsRed(c, L[a][b]) /\ odd \in {NULL, L[a][b]}
  /\ \/ gapNode = a /\ gap = b
     \/ gapNode = NULL /\ a = Anchor

Blackened(c, n) == [c EXCEPT ![n] = "black"]

(* With it the exceptions are gone (the last line of rb_probe, and the test*)
(* of rb.c:312).                                                           *)
LEMMA PaintBlack ==
  ASSUME NEW L, NEW D, NEW T, NEW sub, NEW c, NEW h, NEW a, NEW b,
         NEW gapNode, NEW gap, NEW odd,
         CanPaint(L, D, T, sub, c, h, a, b, gapNode, gap, odd)
  PROVE  \E h2 : /\ Heights(L, T, Blackened(c, L[a][b]), h2, NULL, 0)
                 /\ Reds(L, T, Blackened(c, L[a][b]), NULL, 0, NULL)
<1> DEFINE r == L[a][b]
           c2 == Blackened(c, r)
           h2 == [h EXCEPT ![r] = h[r] + 1]
<1>0. /\ IsTree(L, D, T, sub) /\ c \in [D -> Colors] /\ h \in [T \cup {NULL} -> Nat]
      /\ Heights(L, T, c, h, gapNode, gap) /\ Reds(L, T, c, a, b, odd)
      /\ a \in Above(T) /\ b \in Sides /\ IsRed(c, r) /\ odd \in {NULL, r}
  BY DEF CanPaint, Painted
<1>1. /\ r \in T /\ T \subseteq D /\ NULL \notin T /\ Anchor \notin T /\ NULL # Anchor
      /\ \A n \in T : n \in Above(T)
  BY <1>0, TreeLinks, NodeFacts DEF IsRed
<1>2. /\ c2[r] = "black" /\ c[r] = "red"
      /\ \A n \in T : n # r => c2[n] = c[n]
  BY <1>0, <1>1 DEF IsRed, Blackened
<1>3. /\ h2 \in [T \cup {NULL} -> Nat] /\ h2[r] = h[r] + 1 /\ h2[NULL] = 0
      /\ \A n \in T \cup {NULL} : n # r => h2[n] = h[n]
  BY <1>0, <1>1 DEF Heights
<1>4. \A n \in T, f \in Sides :
        /\ h[n] \in Nat /\ L[n][f] \in T \cup {NULL} /\ h[L[n][f]] \in Nat
        /\ ~(n = gapNode /\ f = gap) => h[n] = h[L[n][f]] + Bk(c, n)
        /\ n = gapNode /\ f = gap => h[n] = h[L[n][f]] + 1 + Bk(c, n)
  <2>1. Measured(L, D, T, sub, c, h, gapNode, gap)
    BY <1>0 DEF Measured
  <2>2. QED
    BY <2>1, HeightFacts DEF Bk
<1> HIDE DEF c2, h2
<1>5. ASSUME NEW n \in T, NEW f \in Sides
      PROVE  h2[n] = h2[L[n][f]] + Bk(c2, n)
  <2>1. L[n][f] = r <=> n = a /\ f = b
    BY <1>0, <1>1, TreeLinks
  <2>2. n = gapNode /\ f = gap <=> L[n][f] = r
    BY <1>1, <2>1 DEF CanPaint
  <2>3. L[n][f] # r => h2[L[n][f]] = h[L[n][f]]
    BY <1>3, <1>4
  <2>4. h2[n] + Bk(c, n) = h[n] + Bk(c2, n)
    BY <1>2, <1>3, <1>4 DEF Bk
  <2>5. h2[n] \in Nat
    BY <1>3
  <2>6. CASE L[n][f] = r
    <3>1. h[n] = h[r] + 1 + Bk(c, n) /\ h[n] \in Nat /\ h[r] \in Nat
      BY <1>4, <2>2, <2>6
    <3>2. h2[L[n][f]] = h[r] + 1
      BY <1>3, <2>6
    <3>3. QED
      BY <2>4, <2>5, <3>1, <3>2 DEF Bk
  <2>7. CASE L[n][f] # r
    <3>1. h[n] = h[L[n][f]] + Bk(c, n) /\ h[n] \in Nat /\ h[L[n][f]] \in Nat
      BY <1>4, <2>2, <2>7
    <3>2. QED
      BY <2>3, <2>4, <2>5, <2>7, <3>1 DEF Bk
  <2>8. QED
    BY <2>6, <2>7
<1>6. Heights(L, T, c2, h2, NULL, 0)
  <2>1. ASSUME NEW n \in T, NEW f \in Sides
        PROVE  h2[n] = h2[L[n][f]] + (IF n = NULL /\ f = 0 THEN 1 ELSE 0) + Bk(c2, n)
    <3>1. h2[L[n][f]] \in Nat /\ n # NULL
      BY <1>1, <1>3, <1>4
    <3>2. QED
      BY <1>5, <3>1 DEF Bk
  <2>2. QED
    BY <1>3, <2>1 DEF Heights
<1>7. Reds(L, T, c2, NULL, 0, NULL)
  <2> SUFFICES ASSUME NEW n \in Above(T), NEW f \in Sides,
                      n = Anchor \/ IsRed(c2, n), IsRed(c2, L[n][f])
               PROVE  FALSE
    BY DEF Reds
  <2>1. L[n][f] \in T /\ L[n][f] # r
    BY <1>0, <1>2, TreeLinks DEF IsRed
  <2>2. n # r
    BY <1>1, <1>2 DEF IsRed
  <2>3. IsRed(c, L[n][f]) /\ (n = Anchor \/ IsRed(c, n))
    BY <1>2, <2>1, <2>2, AboveFacts DEF IsRed
  <2>4. n # odd
    BY <1>0, <1>1, <2>2, AboveFacts
  <2>5. n = a /\ f = b
    BY <1>0, <2>3, <2>4 DEF Reds
  <2>6. QED
    BY <2>1, <2>5
<1>8. QED
  BY <1>6, <1>7 DEF c2

(* The sibling u gives up its colour: one black node is missing above.     *)
CanGiveUp(L, D, T, sub, c, h, g, d, u, a, b) ==
  /\ Painted(L, D, T, sub, c, h)
  /\ Heights(L, T, c, h, g, d) /\ Reds(L, T, c, g, d, L[g][d])
  /\ g \in T /\ d \in Sides /\ u = L[g][1 - d] /\ u # NULL
  /\ ~IsRed(c, L[g][d]) /\ ~IsRed(c, u) /\ \A e \in Sides : ~IsRed(c, L[u][e])
  /\ a \in Above(T) /\ b \in Sides /\ L[a][b] = g

Reddened(c, n) == [c EXCEPT ![n] = "red"]

(* All heights fit with the gap one level higher, and the only red pair    *)
(* may be there.                                                           *)
LEMMA GiveUpColor ==
  ASSUME NEW L, NEW D, NEW T, NEW sub, NEW c, NEW h, NEW g, NEW d, NEW u,
         NEW a, NEW b, CanGiveUp(L, D, T, sub, c, h, g, d, u, a, b)
  PROVE  \E h2 : /\ Heights(L, T, Reddened(c, u), h2, a, b)
                 /\ Reds(L, T, Reddened(c, u), a, b, g)
<1> DEFINE c2 == Reddened(c, u)
           h2 == [h EXCEPT ![u] = h[u] - 1, ![g] = h[g] - 1]
<1>0. /\ IsTree(L, D, T, sub) /\ c \in [D -> Colors] /\ h \in [T \cup {NULL} -> Nat]
      /\ Heights(L, T, c, h, g, d) /\ Reds(L, T, c, g, d, L[g][d])
      /\ g \in T /\ d \in Sides /\ u = L[g][1 - d] /\ u # NULL
      /\ ~IsRed(c, L[g][d]) /\ ~IsRed(c, u) /\ \A e \in Sides : ~IsRed(c, L[u][e])
      /\ a \in Above(T) /\ b \in Sides /\ L[a][b] = g
  BY DEF CanGiveUp, Painted
<1>1. /\ u \in T /\ u # g /\ T \subseteq D /\ NULL \notin T /\ Anchor \notin T
      /\ NULL # Anchor /\ 1 - d \in Sides /\ 1 - d # d
      /\ \A n \in T : n \in Above(T)
  <2>1. 1 - d \in Sides /\ 1 - d # d
    BY <1>0, SideFacts
  <2>2. QED
    BY <1>0, <2>1, TreeLinks, NodeFacts, ChildFacts
<1>2. /\ c2[u] = "red" /\ c[u] = "black"
      /\ \A n \in T : n # u => c2[n] = c[n]
  BY <1>0, <1>1 DEF IsRed, Colors, Reddened
<1>4. \A n \in T, f \in Sides :
        /\ h[n] \in Nat /\ L[n][f] \in T \cup {NULL} /\ h[L[n][f]] \in Nat
        /\ ~(n = g /\ f = d) => h[n] = h[L[n][f]] + Bk(c, n)
        /\ n = g /\ f = d => h[n] = h[L[n][f]] + 1 + Bk(c, n)
  <2>1. Measured(L, D, T, sub, c, h, g, d)
    BY <1>0 DEF Measured
  <2>2. QED
    BY <2>1, HeightFacts DEF Bk
<1>5. h[u] \in Nat /\ h[g] \in Nat /\ h[u] >= 1 /\ h[g] >= 1
  <2>1. h[u] \in Nat /\ h[L[u][d]] \in Nat /\ h[u] = h[L[u][d]] + Bk(c, u)
    BY <1>0, <1>1, <1>4
  <2>2. h[g] = h[L[g][d]] + 1 + Bk(c, g) /\ h[g] \in Nat /\ h[L[g][d]] \in Nat
    BY <1>0, <1>4
  <2>3. QED
    BY <1>2, <2>1, <2>2 DEF Bk
<1>3. /\ h2 \in [T \cup {NULL} -> Nat] /\ h2[u] = h[u] - 1 /\ h2[g] = h[g] - 1
      /\ \A n \in T \cup {NULL} : n # u /\ n # g => h2[n] = h[n]
      /\ h2[NULL] = 0
  <2>1. h2 \in [T \cup {NULL} -> Nat]
    BY <1>0, <1>1, <1>5
  <2>2. h2[u] = h[u] - 1 /\ h2[g] = h[g] - 1
        /\ \A n \in T \cup {NULL} : n # u /\ n # g => h2[n] = h[n]
    BY <1>0, <1>1
  <2> HIDE DEF h2
  <2>3. QED
    BY <1>0, <1>1, <2>1, <2>2 DEF Heights
<1> HIDE DEF c2, h2
<1>6. ASSUME NEW n \in T, NEW f \in Sides
      PROVE  h2[n] = h2[L[n][f]] + (IF n = a /\ f = b THEN 1 ELSE 0) + Bk(c2, n)
  <2>1. /\ L[n][f] = g <=> n = a /\ f = b
        /\ L[n][f] = u <=> n = g /\ f = 1 - d
        /\ f = d \/ f = 1 - d
        /\ L[n][f] # n
    BY <1>0, <1>1, TreeLinks, ChildFacts, SideFacts
  <2>2. L[n][f] # u /\ L[n][f] # g => h2[L[n][f]] = h[L[n][f]]
    BY <1>3, <1>4
  <2>3. h[n] \in Nat /\ h[L[n][f]] \in Nat /\ h2[n] \in Nat
    BY <1>3, <1>4
  <2>4. CASE n = g
    <3>1. Bk(c2, n) = Bk(c, n) /\ h2[n] = h[n] - 1
      BY <1>1, <1>2, <1>3, <2>4 DEF Bk
    <3>2. ~(n = a /\ f = b)
      BY <2>1, <2>4
    <3>3. CASE f = d
      <4>1. h[n] = h[L[n][f]] + 1 + Bk(c, n)
        BY <1>4, <2>4, <3>3
      <4>2. L[n][f] # u /\ L[n][f] # g
        BY <1>1, <2>1, <2>4, <3>3
      <4>3. QED
        BY <2>2, <2>3, <3>1, <3>2, <4>1, <4>2 DEF Bk
    <3>4. CASE f = 1 - d
      <4>1. h[n] = h[L[n][f]] + Bk(c, n)
        BY <1>1, <1>4, <2>4, <3>4
      <4>2. h2[L[n][f]] = h[L[n][f]] - 1
        BY <1>3, <2>1, <2>4, <3>4
      <4>3. QED
        BY <2>3, <3>1, <3>2, <4>1, <4>2 DEF Bk
    <3>5. QED
      BY <2>1, <3>3, <3>4
  <2>5. CASE n = u
    <3>1. h[n] = h[L[n][f]] + Bk(c, n)
      BY <1>1, <1>4, <2>5
    <3>2. L[n][f] # u /\ L[n][f] # g
      <4>1. L[n][f] # u
        BY <2>1, <2>5
      <4>2. L[n][f] # g
        <5>1. SUFFICES ASSUME L[n][f] = g PROVE FALSE
          OBVIOUS
        <5>2. g \in sub[u] /\ u \in sub[u]
          BY <1>0, <1>1, <2>5, <5>1, ChildFacts
        <5>3. g \notin sub[u]
          BY <1>0, <1>1, ChildFacts
        <5>4. QED
          BY <5>2, <5>3
      <4>3. QED
        BY <4>1, <4>2
    <3>3. Bk(c2, n) = 0 /\ Bk(c, n) = 1 /\ h2[n] = h[n] - 1
      BY <1>2, <1>3, <2>5 DEF Bk
    <3>4. QED
      BY <2>1, <2>2, <2>3, <3>1, <3>2, <3>3
  <2>6. CASE n # g /\ n # u
    <3>1. h[n] = h[L[n][f]] + Bk(c, n) /\ h2[n] = h[n] /\ Bk(c2, n) = Bk(c, n)
      BY <1>2, <1>3, <1>4, <2>6 DEF Bk
    <3>2. L[n][f] # u
      BY <2>1, <2>6
    <3>3. CASE L[n][f] = g
      <4>1. h2[L[n][f]] = h[L[n][f]] - 1
        BY <1>3, <3>3
      <4>2. QED
        BY <2>1, <2>3, <3>1, <3>3, <4>1 DEF Bk
    <3>4. CASE L[n][f] # g
      BY <2>1, <2>2, <2>3, <3>1, <3>2, <3>4 DEF Bk
    <3>5. QED
      BY <3>3, <3>4
  <2>7. QED
    BY <2>4, <2>5, <2>6
<1>7. Heights(L, T, c2, h2, a, b)
  BY <1>3, <1>6 DEF Heights
<1>8. Reds(L, T, c2, a, b, g)
  <2> SUFFICES ASSUME NEW n \in Above(T), NEW f \in Sides,
                      n = Anchor \/ IsRed(c2, n), IsRed(c2, L[n][f]),
                      n # g
               PROVE  n = a /\ f = b
    BY DEF Reds
  <2>1. L[n][f] \in T /\ f \in {d, 1 - d}
    BY <1>0, TreeLinks, SideFacts DEF IsRed
  <2>2. L[n][f] # u
    BY <1>0, <1>1, TreeLinks
  <2>3. n # u
    <3>1. SUFFICES ASSUME n = u PROVE FALSE
      OBVIOUS
    <3>2. ~IsRed(c, L[n][f])
      BY <1>0, <3>1
    <3>3. QED
      BY <1>2, <2>1, <2>2, <3>2 DEF IsRed
  <2>4. IsRed(c, L[n][f]) /\ (n = Anchor \/ IsRed(c, n))
    BY <1>2, <2>1, <2>2, <2>3, AboveFacts DEF IsRed
  <2>5. n # L[g][d]
    <3>1. n = L[g][d] => ~IsRed(c, n) /\ n # Anchor
      BY <1>0, <1>1, TreeLinks
    <3>2. QED
      BY <2>4, <3>1
  <2>6. n = g /\ f = d
    BY <1>0, <2>4, <2>5 DEF Reds
  <2>7. QED
    BY <2>6
<1>9. QED
  BY <1>7, <1>8 DEF c2

(* Colours and heights are about the nodes of the tree only.               *)
SameColors(L, T, c, L2, c2) ==
  /\ \A n \in Above(T) : L2[n] = L[n]
  /\ \A n \in T : c2[n] = c[n]

(* They do not see the node that a deletion has taken out.                 *)
LEMMA SameColorsFit ==
  ASSUME NEW L, NEW D, NEW T, NEW sub, IsTree(L, D, T, sub),
         NEW c, NEW h, NEW gapNode, NEW gap, NEW spot, NEW way, NEW odd,
         NEW L2, NEW c2, SameColors(L, T, c, L2, c2)
  PROVE  /\ Heights(L, T, c, h, gapNode, gap) => Heights(L2, T, c2, h, gapNode, gap)
         /\ Reds(L, T, c, spot, way, odd) => Reds(L2, T, c2, spot, way, odd)
<1>1. Anchor \notin T /\ NULL \notin T
      /\ \A n \in Above(T), d \in Sides : L[n][d] \in T \cup {NULL}
  BY TreeLinks
<1>2. Heights(L, T, c, h, gapNode, gap) => Heights(L2, T, c2, h, gapNode, gap)
  BY AboveFacts DEF Heights, SameColors, Bk
<1>3. ASSUME Reds(L, T, c, spot, way, odd) PROVE Reds(L2, T, c2, spot, way, odd)
  <2> SUFFICES ASSUME NEW n \in Above(T), NEW d \in Sides,
                      n = Anchor \/ IsRed(c2, n), IsRed(c2, L2[n][d])
               PROVE  (n = spot /\ d = way) \/ n = odd
    BY DEF Reds
  <2>1. n = Anchor \/ IsRed(c, n)
    BY AboveFacts DEF SameColors, IsRed
  <2>2. IsRed(c, L[n][d])
    BY <1>1 DEF SameColors, IsRed
  <2>3. QED
    BY <1>3, <2>1, <2>2 DEF Reds
<1>4. QED
  BY <1>2, <1>3

(* A new leaf is red: it changes no height.                                *)
LEMMA InsertColors ==
  ASSUME NEW L, NEW D, NEW sub, NEW q, NEW z, NEW side, NEW R,
         CanInsert(L, D, sub, q, z, side), LinksInserted(R, L, D, q, z, side),
         NEW c, NEW h, Heights(L, D, c, h, NULL, 0), Reds(L, D, c, NULL, 0, NULL),
         NEW c2, c2[q] = "red", \A n \in D : c2[n] = c[n]
  PROVE  \E h2 : /\ Heights(R, D \cup {q}, c2, h2, NULL, 0)
                 /\ Reds(R, D \cup {q}, c2, z, side, NULL)
<1> DEFINE T == D \cup {q}
           h2 == [n \in D \cup {q, NULL} |-> IF n = q THEN 0 ELSE h[n]]
<1>0. /\ IsTree(L, D, D, sub) /\ q \in Nat \ {0} /\ q \notin D
      /\ z \in Above(D) /\ side \in Sides /\ L[z][side] = NULL
  BY DEF CanInsert
<1>1. /\ q # NULL /\ q # Anchor /\ NULL \notin D /\ Anchor \notin D /\ NULL # Anchor
      /\ \A n \in Above(D), e \in Sides : L[n][e] \in D \cup {NULL}
  BY <1>0, TreeLinks, NodeFacts
<1>2. /\ R[q][0] = NULL /\ R[q][1] = NULL /\ R[z][side] = q
      /\ \A n \in Above(D), e \in Sides : (n = z => e # side) => R[n][e] = L[n][e]
  BY DEF LinksInserted, Nil, Sides
<1>3. /\ h \in [D \cup {NULL} -> Nat] /\ h[NULL] = 0
      /\ \A n \in D, e \in Sides : h[n] = h[L[n][e]] + Bk(c, n)
  <2>1. Measured(L, D, D, sub, c, h, NULL, 0)
    BY <1>0 DEF Measured
  <2>2. \A n \in D, e \in Sides : h[n] = h[L[n][e]] + Bk(c, n)
    BY <1>1, <2>1, HeightFacts DEF Bk
  <2>3. QED
    BY <2>2 DEF Heights
<1>4. /\ h2 \in [T \cup {NULL} -> Nat] /\ h2[q] = 0 /\ h2[NULL] = 0
      /\ \A n \in D \cup {NULL} : h2[n] = h[n]
  <2>1. D \cup {q, NULL} = T \cup {NULL}
    OBVIOUS
  <2>2. \A n \in T \cup {NULL} : h2[n] \in Nat
    BY <1>3
  <2>3. h2 \in [T \cup {NULL} -> Nat]
    BY <2>1, <2>2
  <2>4. QED
    BY <1>0, <1>1, <1>3, <2>3
<1> HIDE DEF h2
<1>5. ASSUME NEW n \in D, NEW e \in Sides
      PROVE  h2[R[n][e]] = h[L[n][e]] /\ h[L[n][e]] \in Nat
  <2>1. n \in Above(D) /\ L[n][e] \in D \cup {NULL}
    BY <1>1, AboveFacts
  <2>2. CASE n = z /\ e = side
    BY <1>0, <1>2, <1>3, <1>4, <2>2
  <2>3. CASE ~(n = z /\ e = side)
    BY <1>2, <1>3, <1>4, <2>1, <2>3
  <2>4. QED
    BY <2>2, <2>3
<1>6. ASSUME NEW n \in T, NEW e \in Sides
      PROVE  h2[n] = h2[R[n][e]] + (IF n = NULL /\ e = 0 THEN 1 ELSE 0) + Bk(c2, n)
  <2>1. CASE n = q
    <3>1. R[n][e] = NULL
      BY <1>2, <2>1 DEF Sides
    <3>2. QED
      BY <1>1, <1>4, <2>1, <3>1 DEF Bk
  <2>2. CASE n \in D
    <3>1. h[n] = h[L[n][e]] + Bk(c, n) /\ h2[n] = h[n] /\ Bk(c2, n) = Bk(c, n)
      BY <1>3, <1>4, <2>2 DEF Bk
    <3>2. h2[R[n][e]] = h[L[n][e]] /\ h[L[n][e]] \in Nat /\ n # NULL
      BY <1>1, <1>5, <2>2
    <3>3. QED
      BY <3>1, <3>2 DEF Bk
  <2>3. QED
    BY <2>1, <2>2
<1>7. Heights(R, T, c2, h2, NULL, 0)
  BY <1>4, <1>6 DEF Heights
<1>8. Reds(R, T, c2, z, side, NULL)
  <2> SUFFICES ASSUME NEW n \in Above(T), NEW e \in Sides,
                      n = Anchor \/ IsRed(c2, n), IsRed(c2, R[n][e]),
                      ~(n = z /\ e = side)
               PROVE  FALSE
    BY DEF Reds
  <2>1. n # q
    BY <1>2 DEF Sides, IsRed
  <2>2. n \in Above(D)
    BY <2>1 DEF Above
  <2>3. R[n][e] = L[n][e] /\ L[n][e] \in D
    BY <1>1, <1>2, <2>2 DEF IsRed
  <2>4. IsRed(c, L[n][e]) /\ (n = Anchor \/ IsRed(c, n))
    BY <2>2, <2>3, AboveFacts DEF IsRed
  <2>5. n # NULL
    BY <1>1, <2>2, AboveFacts
  <2>6. QED
    BY <2>2, <2>4, <2>5 DEF Reds
<1>9. QED
  BY <1>7, <1>8

(* Taking out a node q with a single subtree: if q was black, its black    *)
(* node is missing in its place.                                           *)
SplicedGap(c, q, parent) == IF c[q] = "red" THEN NULL ELSE parent

(* And the only red pair can be at that place.                             *)
LEMMA SpliceColors ==
  ASSUME NEW L, NEW D, NEW sub, NEW q, NEW e, NEW parent, NEW side,
         CanSplice(L, D, sub, q, e, parent, side),
         NEW c, c \in [D -> Colors],
         NEW h, Heights(L, D, c, h, NULL, 0), Reds(L, D, c, NULL, 0, NULL)
  PROVE  \E h2 : /\ Heights(LinksSpliced(L, q, e, parent, side), D \ {q}, c, h2,
                            SplicedGap(c, q, parent), side)
                 /\ Reds(LinksSpliced(L, q, e, parent, side), D \ {q}, c,
                         SplicedGap(c, q, parent), side, NULL)
<1> DEFINE T == D \ {q}
           R == [L EXCEPT ![parent][side] = L[q][1 - e]]
           h2 == [n \in T \cup {NULL} |-> h[n]]
           gapNode == IF c[q] = "red" THEN NULL ELSE parent
<1>0. /\ IsTree(L, D, D, sub)
      /\ q \in D /\ e \in Sides /\ L[q][e] = NULL
      /\ parent \in Above(D) /\ side \in Sides /\ L[parent][side] = q
      /\ 1 - e \in Sides
  BY SideFacts DEF CanSplice
<1>1. /\ q # NULL /\ q # Anchor /\ NULL \notin D /\ Anchor \notin D /\ NULL # Anchor
      /\ parent # q /\ parent # NULL
      /\ \A n \in Above(D), f \in Sides :
           /\ L[n][f] \in D \cup {NULL}
           /\ L[n][f] = q <=> n = parent /\ f = side
  <2>1. parent # q
    BY <1>0, ChildFacts
  <2>2. QED
    BY <1>0, <2>1, TreeLinks, NodeFacts, AboveFacts
<1>2. /\ R[parent][side] = L[q][1 - e]
      /\ \A n \in Above(D), f \in Sides : ~(n = parent /\ f = side) => R[n][f] = L[n][f]
  BY <1>0 DEF IsTree
<1>3. /\ h \in [D \cup {NULL} -> Nat] /\ h[NULL] = 0
      /\ \A n \in D, f \in Sides : h[n] = h[L[n][f]] + Bk(c, n) /\ h[L[n][f]] \in Nat
  <2>1. Measured(L, D, D, sub, c, h, NULL, 0)
    BY <1>0 DEF Measured
  <2>2. \A n \in D, f \in Sides : h[n] = h[L[n][f]] + Bk(c, n) /\ h[L[n][f]] \in Nat
    BY <1>1, <2>1, HeightFacts DEF Bk
  <2>3. QED
    BY <2>2 DEF Heights
<1>4. /\ h2 \in [T \cup {NULL} -> Nat] /\ h2[NULL] = 0
      /\ \A n \in T \cup {NULL} : h2[n] = h[n]
  BY <1>0, <1>3
<1>5. L[q][1 - e] \in T \cup {NULL}
  BY <1>0, <1>1, ChildFacts
<1> HIDE DEF h2, R, T
<1>6. ASSUME NEW n \in T, NEW f \in Sides
      PROVE  h2[n] = h2[R[n][f]] + (IF n = gapNode /\ f = side THEN 1 ELSE 0) + Bk(c, n)
  <2>1. n \in D /\ n \in Above(D) /\ n # q
    BY AboveFacts DEF T
  <2>2. /\ h[n] = h[L[n][f]] + Bk(c, n) /\ h2[n] = h[n]
        /\ h[n] \in Nat /\ h[L[n][f]] \in Nat
    BY <1>3, <1>4, <2>1
  <2>3. CASE n = parent /\ f = side
    <3>1. L[n][f] = q /\ R[n][f] = L[q][1 - e]
      BY <1>0, <1>2, <2>3
    <3>2. h[q] = h[L[q][1 - e]] + Bk(c, q) /\ h[L[q][1 - e]] \in Nat
      BY <1>0, <1>3
    <3>3. h2[R[n][f]] = h[L[q][1 - e]]
      BY <1>4, <1>5, <3>1
    <3>4. c[q] = "red" \/ c[q] = "black"
      BY <1>0 DEF Colors
    <3>5. CASE c[q] = "red"
      BY <1>1, <2>1, <2>2, <3>1, <3>2, <3>3, <3>5 DEF Bk
    <3>6. CASE c[q] = "black"
      BY <2>2, <2>3, <3>1, <3>2, <3>3, <3>6 DEF Bk
    <3>7. QED
      BY <3>4, <3>5, <3>6
  <2>4. CASE ~(n = parent /\ f = side)
    <3>1. R[n][f] = L[n][f] /\ L[n][f] \in T \cup {NULL}
      BY <1>1, <1>2, <2>1, <2>4 DEF T
    <3>2. h2[R[n][f]] = h[L[n][f]]
      BY <1>4, <3>1
    <3>3. ~(n = gapNode /\ f = side)
      BY <1>1, <2>1, <2>4
    <3>4. QED
      BY <2>2, <3>2, <3>3 DEF Bk
  <2>5. QED
    BY <2>3, <2>4
<1>7. Heights(R, T, c, h2, gapNode, side)
  BY <1>4, <1>6 DEF Heights
<1>8. Reds(R, T, c, gapNode, side, NULL)
  <2> SUFFICES ASSUME NEW n \in Above(T), NEW f \in Sides,
                      n = Anchor \/ IsRed(c, n), IsRed(c, R[n][f])
               PROVE  n = gapNode /\ f = side
    BY DEF Reds
  <2>1. n \in Above(D) /\ n # NULL
    BY <1>1, AboveFacts DEF T
  <2>2. ~IsRed(c, L[n][f])
    BY <2>1 DEF Reds
  <2>3. n = parent /\ f = side
    BY <1>2, <2>1, <2>2
  <2>4. ~IsRed(c, q)
    BY <1>0, <2>2, <2>3
  <2>5. QED
    BY <1>1, <2>3, <2>4 DEF IsRed
<1>9. QED
  BY <1>7, <1>8 DEF R, T, LinksSpliced, SplicedGap

(* Replacing p by s, which takes over p's colour.                          *)
Instead(n, p, s) == IF n = p THEN s ELSE n

(* Heights, gap and red rule stay as they were around p.                   *)
LEMMA ReplaceColors ==
  ASSUME NEW L, NEW D, NEW T, NEW sub, NEW p, NEW s, NEW parent, NEW side, NEW R,
         CanReplace(L, D, T, sub, p, s, parent, side),
         LinksReplaced(R, L, D, T, p, s, parent, side),
         NEW c, NEW h, NEW spot, NEW way, spot # s,
         Heights(L, T, c, h, spot, way), Reds(L, T, c, spot, way, NULL),
         NEW c2, c2[s] = c[p], \A n \in T \ {p} : c2[n] = c[n]
  PROVE  \E h2 : /\ Heights(R, (T \ {p}) \cup {s}, c2, h2, Instead(spot, p, s), way)
                 /\ Reds(R, (T \ {p}) \cup {s}, c2, Instead(spot, p, s), way, NULL)
<1> DEFINE U == (T \ {p}) \cup {s}
           h2 == [n \in U \cup {NULL} |-> IF n = s THEN h[p] ELSE h[n]]
           gapNode == IF spot = p THEN s ELSE spot
<1>0. /\ IsTree(L, D, T, sub)
      /\ p \in T /\ s \in D \ T
      /\ parent \in Above(T) /\ side \in Sides /\ L[parent][side] = p
  BY DEF CanReplace
<1>1. /\ p # NULL /\ p # Anchor /\ NULL \notin T /\ Anchor \notin T /\ NULL # Anchor
      /\ s # NULL /\ s # Anchor /\ s # p /\ parent # p
      /\ \A n \in Above(T), f \in Sides :
           /\ L[n][f] \in T \cup {NULL}
           /\ L[n][f] = p <=> n = parent /\ f = side
  <2>1. parent # p
    BY <1>0, ChildFacts
  <2>2. NULL \notin D /\ Anchor \notin D
    BY <1>0, NodeFacts DEF IsTree
  <2>3. QED
    BY <1>0, <2>1, <2>2, TreeLinks, NodeFacts, AboveFacts
<1>2. /\ R[parent][side] = s
      /\ \A f \in Sides : R[s][f] = L[p][f]
      /\ \A n \in Above(T), f \in Sides :
           n # p /\ (n = parent => f # side) => R[n][f] = L[n][f]
  BY DEF LinksReplaced
<1>3. /\ h \in [T \cup {NULL} -> Nat] /\ h[NULL] = 0
      /\ \A n \in T, f \in Sides :
           h[n] = h[L[n][f]] + (IF n = spot /\ f = way THEN 1 ELSE 0) + Bk(c, n)
  BY DEF Heights
<1>4. /\ h2 \in [U \cup {NULL} -> Nat] /\ h2[NULL] = 0 /\ h2[s] = h[p]
      /\ \A n \in (T \ {p}) \cup {NULL} : h2[n] = h[n]
  BY <1>0, <1>1, <1>3
<1> HIDE DEF h2, U
<1>5. ASSUME NEW n \in U, NEW f \in Sides
      PROVE  h2[n] = h2[R[n][f]] + (IF n = gapNode /\ f = way THEN 1 ELSE 0) + Bk(c2, n)
  <2>1. CASE n = s
    <3>1. R[n][f] = L[p][f] /\ L[p][f] \in (T \ {p}) \cup {NULL}
      BY <1>0, <1>2, <2>1, ChildFacts
    <3>2. h2[R[n][f]] = h[L[p][f]]
      BY <1>4, <3>1
    <3>3. h[p] = h[L[p][f]] + (IF p = spot /\ f = way THEN 1 ELSE 0) + Bk(c, p)
      BY <1>0, <1>3
    <3>4. n = gapNode <=> p = spot
      BY <1>1, <2>1
    <3>5. Bk(c2, n) = Bk(c, p) /\ h2[n] = h[p]
      BY <1>4, <2>1 DEF Bk
    <3>6. QED
      BY <3>2, <3>3, <3>4, <3>5
  <2>2. CASE n # s
    <3>1. n \in T \ {p} /\ n \in Above(T)
      BY <2>2, AboveFacts DEF U
    <3>2. h2[R[n][f]] = h[L[n][f]]
      <4>1. CASE n = parent /\ f = side
        BY <1>0, <1>2, <1>4, <4>1
      <4>2. CASE ~(n = parent /\ f = side)
        <5>1. R[n][f] = L[n][f] /\ L[n][f] \in (T \ {p}) \cup {NULL}
          BY <1>1, <1>2, <3>1, <4>2
        <5>2. QED
          BY <1>4, <5>1
      <4>3. QED
        BY <4>1, <4>2
    <3>3. h[n] = h[L[n][f]] + (IF n = spot /\ f = way THEN 1 ELSE 0) + Bk(c, n)
      BY <1>3, <3>1
    <3>4. n = gapNode <=> n = spot
      BY <2>2, <3>1
    <3>5. Bk(c2, n) = Bk(c, n) /\ h2[n] = h[n]
      BY <1>4, <3>1 DEF Bk
    <3>6. QED
      BY <3>2, <3>3, <3>4, <3>5
  <2>3. QED
    BY <2>1, <2>2
<1>6. Heights(R, U, c2, h2, gapNode, way)
  BY <1>4, <1>5 DEF Heights
<1>7. Reds(R, U, c2, gapNode, way, NULL)
  <2> SUFFICES ASSUME NEW n \in Above(U), NEW f \in Sides,
                      n = Anchor \/ IsRed(c2, n), IsRed(c2, R[n][f])
               PROVE  n = gapNode /\ f = way
    BY DEF Reds
  <2>1. CASE n = s
    <3>1. R[n][f] = L[p][f] /\ L[p][f] \in T \ {p}
      <4>1. L[p][f] \in (T \ {p}) \cup {NULL}
        BY <1>0, ChildFacts
      <4>2. R[n][f] = L[p][f]
        BY <1>2, <2>1
      <4>3. QED
        BY <4>1, <4>2 DEF IsRed
    <3>2. IsRed(c, p) /\ IsRed(c, L[p][f])
      BY <1>1, <2>1, <3>1 DEF IsRed
    <3>3. p = spot /\ f = way
      BY <1>0, <1>1, <3>2, AboveFacts DEF Reds
    <3>4. QED
      BY <2>1, <3>3
  <2>2. CASE n # s
    <3>1. n \in Above(T) /\ n # p /\ n # NULL
      BY <1>1, <2>2, AboveFacts DEF U, Above
    <3>2. n = Anchor \/ IsRed(c, n)
      BY <3>1, AboveFacts DEF IsRed
    <3>3. IsRed(c, L[n][f])
      <4>1. CASE n = parent /\ f = side
        BY <1>0, <1>1, <1>2, <4>1 DEF IsRed
      <4>2. CASE ~(n = parent /\ f = side)
        <5>1. R[n][f] = L[n][f] /\ L[n][f] \in T \ {p}
          BY <1>1, <1>2, <3>1, <4>2 DEF IsRed
        <5>2. QED
          BY <5>1 DEF IsRed
      <4>3. QED
        BY <4>1, <4>2
    <3>4. n = spot /\ f = way
      BY <3>1, <3>2, <3>3 DEF Reds
    <3>5. QED
      BY <3>1, <3>4
  <2>3. QED
    BY <2>1, <2>2
<1>8. QED
  BY <1>6, <1>7 DEF U, Instead

(* The invariants about the tree, as the lemmas above put them.            *)
Fit(L, D, T, sub, c, h, spot, way, odd, gapNode) ==
  /\ IsTree(L, D, T, sub) /\ c \in [D -> Colors]
  /\ Heights(L, T, c, h, gapNode, way) /\ Reds(L, T, c, spot, way, odd)

Spot == IF doing = "nothing" THEN NULL ELSE Last(stack).node
Way == IF doing = "nothing" THEN 0 ELSE Last(stack).side
Odd == IF doing = "delete" THEN x ELSE NULL
GapNode == IF doing = "delete" THEN Last(stack).node ELSE NULL

Fits ==
  \E sub, h : Fit(link, DOMAIN data, Tree, sub, color, h, Spot, Way, Odd, GapNode)

(* The link on top of the stack.                                           *)
LEMMA TopFacts ==
  ASSUME TypeOK, doing # "nothing"
  PROVE  /\ Len(stack) \in Nat \ {0} /\ stack[Len(stack)] = Last(stack)
         /\ Last(stack) = [node |-> Spot, side |-> Way]
         /\ Spot = Last(stack).node /\ Way = Last(stack).side
         /\ Spot \in DOMAIN link /\ Way \in Sides
         /\ pa(1) = Spot /\ da(1) = Way
         /\ x = link[Spot][Way] /\ w = link[Spot][1 - Way]
         /\ Found(stack) = x
<1>1. stack \in Seq([node : DOMAIN link, side : Sides]) /\ stack # << >>
  BY DEF TypeOK
<1>2. Len(stack) \in Nat \ {0} /\ stack[Len(stack)] \in [node : DOMAIN link, side : Sides]
  <2>1. Len(stack) \in Nat /\ Len(stack) # 0
    BY <1>1, EmptySeq, LenProperties
  <2>2. Len(stack) \in 1 .. Len(stack)
    BY <2>1
  <2>3. QED
    BY <1>1, <2>1, <2>2, ElementOfSeq
<1>3. Last(stack) = stack[Len(stack)]
  BY DEF Last
<1>4. Len(stack) + 1 - 1 = Len(stack)
  BY <1>2
<1>5. pa(1) = Last(stack).node /\ da(1) = Last(stack).side
  BY <1>3, <1>4 DEF pa, da
<1>6. QED
  BY <1>2, <1>3, <1>5 DEF Spot, Way, x, w, Found, To

(* The nodes of the tree, and those in memory.                             *)
LEMMA TreeFacts ==
  ASSUME TypeOK
  PROVE  /\ IsFiniteSet(Tree) /\ Tree \subseteq DOMAIN data
         /\ DOMAIN data \subseteq Nat \ {0} /\ DOMAIN link = Above(DOMAIN data)
         /\ NULL \notin DOMAIN data /\ Anchor \notin DOMAIN data
         /\ removed = NULL => Tree = DOMAIN data
<1>1. IsFiniteSet(Tree) /\ Tree \subseteq DOMAIN data
  BY FS_Subset DEF TypeOK, Tree
<1>2. DOMAIN data \subseteq Nat \ {0}
  BY PricesAssumption DEF TypeOK
<1>3. NULL \notin DOMAIN data /\ Anchor \notin DOMAIN data
  BY <1>2, NodeFacts
<1>4. DOMAIN link = Above(DOMAIN data)
  BY DEF TypeOK, Above
<1>5. QED
  BY <1>1, <1>2, <1>3, <1>4 DEF Tree

(* The conjuncts of the invariant that are about the tree say that it is a *)
(* tree with colours that fit, but for the top of the stack.               *)
LEMMA InvFits ==
  IInv => Fits
<1> SUFFICES ASSUME IInv PROVE Fits
  OBVIOUS
<1> USE DEF IInv
<1> DEFINE D == DOMAIN data
           sub == [n \in Tree \cup {NULL} |-> Below[n]]
           h == [n \in Tree \cup {NULL} |-> BlackHeight[n]]
<1>1. /\ IsFiniteSet(Tree) /\ Tree \subseteq D
      /\ D \subseteq Nat \ {0} /\ DOMAIN link = Above(D)
      /\ NULL \notin D /\ Anchor \notin D
  BY TreeFacts
<1>2. \A n \in Above(D), d \in Sides : link[n][d] \in Tree \cup {NULL}
  BY <1>1 DEF Linked, NoLinkToRemoved
<1>3. link \in [Above(D) -> [Sides -> Tree \cup {NULL}]]
  <2>1. link \in [Above(D) -> [Sides -> D \cup {NULL}]]
    BY DEF TypeOK, Above
  <2>2. QED
    BY <1>2, <2>1
<1>4. /\ \A n \in Tree : Below[n] \subseteq Tree
      /\ Below[NULL] = {} /\ Below[link[Anchor][0]] = Tree
      /\ \A n \in Tree : Below[n] = {n} \cup Below[link[n][0]] \cup Below[link[n][1]]
      /\ \A n \in Tree : \A m \in Below[link[n][0]] : m < n
      /\ \A n \in Tree : \A m \in Below[link[n][1]] : n < m
  BY DEF Sorted, Subtrees, Root
<1>5. /\ sub \in [Tree \cup {NULL} -> SUBSET Tree]
      /\ \A n \in Tree \cup {NULL} : sub[n] = Below[n]
  BY <1>4
<1> HIDE DEF sub, D
<1>6. 0 \in Sides /\ 1 \in Sides /\ Anchor \in Above(D) /\ Tree \subseteq Above(D)
  BY <1>1, AboveFacts DEF Sides
<1>7. \A n \in Tree, d \in Sides : sub[link[n][d]] = Below[link[n][d]]
  BY <1>2, <1>5, <1>6
<1>8. \A n \in Tree, d \in Sides : \A m \in sub[link[n][d]] : Beside(m, d, n)
  <2> SUFFICES ASSUME NEW n \in Tree, NEW d \in Sides, NEW m \in sub[link[n][d]]
               PROVE  Beside(m, d, n)
    OBVIOUS
  <2>1. d = 0 \/ d = 1
    BY DEF Sides
  <2>2. m \in Below[link[n][d]]
    BY <1>7
  <2>3. QED
    BY <1>4, <2>1, <2>2 DEF Beside
<1>9. IsTree(link, D, Tree, sub)
  <2>1. sub[NULL] = {} /\ sub[link[Anchor][0]] = Tree
    BY <1>2, <1>4, <1>5, <1>6
  <2>2. \A n \in Tree : sub[n] = {n} \cup sub[link[n][0]] \cup sub[link[n][1]]
    BY <1>4, <1>5, <1>6, <1>7
  <2>3. link[Anchor][1] = NULL
    BY DEF Linked
  <2>4. \A n, m \in Above(Tree), d, e \in Sides :
          link[n][d] = link[m][e] /\ link[n][d] # NULL => n = m /\ d = e
    BY DEF Linked, OneParent, Above
  <2>5. QED
    BY <1>1, <1>3, <1>5, <1>8, <2>1, <2>2, <2>3, <2>4 DEF IsTree
<1>10. \A n \in Tree, d \in Sides :
         Lacks(n, d) = IF n = GapNode /\ d = Way THEN 1 ELSE 0
  <2>1. CASE doing = "delete"
    <3>1. Last(stack) = [node |-> Spot, side |-> Way] /\ GapNode = Spot
      BY <2>1, TopFacts DEF GapNode
    <3>2. QED
      BY <2>1, <3>1 DEF Lacks
  <2>2. CASE doing # "delete"
    <3>1. GapNode = NULL
      BY <2>2 DEF GapNode
    <3>2. QED
      BY <1>1, <2>2, <3>1 DEF Lacks
  <2>3. QED
    BY <2>1, <2>2
<1>11. Heights(link, Tree, color, h, GapNode, Way)
  <2>1. /\ BlackHeight[NULL] = 0
        /\ \A n \in Tree : BlackHeight[n] \in Nat
        /\ \A n \in Tree, d \in Sides :
             BlackHeight[n] = BlackHeight[link[n][d]] + Lacks(n, d) + Black(n)
    BY DEF BlackRule, Balanced
  <2>2. h \in [Tree \cup {NULL} -> Nat] /\ \A n \in Tree \cup {NULL} : h[n] = BlackHeight[n]
    BY <2>1
  <2> HIDE DEF h
  <2>3. ASSUME NEW n \in Tree, NEW d \in Sides
        PROVE  h[n] = h[link[n][d]] + (IF n = GapNode /\ d = Way THEN 1 ELSE 0)
                      + Bk(color, n)
    <3>1. link[n][d] \in Tree \cup {NULL}
      BY <1>2, <1>6
    <3>2. h[n] = BlackHeight[n] /\ h[link[n][d]] = BlackHeight[link[n][d]]
      BY <2>2, <3>1
    <3>3. Black(n) = Bk(color, n)
      BY DEF Black, Bk
    <3>4. Lacks(n, d) = IF n = GapNode /\ d = Way THEN 1 ELSE 0
      BY <1>10
    <3>5. QED
      BY <2>1, <3>2, <3>3, <3>4
  <2>4. h[NULL] = 0
    BY <2>1, <2>2
  <2>5. QED
    BY <2>2, <2>3, <2>4 DEF Heights
<1>12. Reds(link, Tree, color, Spot, Way, Odd)
  <2> SUFFICES ASSUME NEW n \in Above(Tree), NEW d \in Sides,
                      n = Anchor \/ IsRed(color, n), IsRed(color, link[n][d])
               PROVE  (n = Spot /\ d = Way) \/ n = Odd
    BY DEF Reds
  <2>1. (n = Anchor \/ Red(n)) /\ Red(link[n][d]) /\ n \in Tree \cup {Anchor}
    BY DEF Red, IsRed, Above
  <2>2. \/ doing # "nothing" /\ Last(stack) = [node |-> n, side |-> d]
        \/ doing = "delete" /\ n = x
    BY <2>1 DEF RedRule
  <2>3. CASE doing # "nothing" /\ Last(stack) = [node |-> n, side |-> d]
    BY <2>3, TopFacts
  <2>4. CASE doing = "delete" /\ n = x
    BY <2>4 DEF Odd
  <2>5. QED
    BY <2>2, <2>3, <2>4
<1>13. color \in [D -> Colors]
  BY DEF TypeOK, Colors, D
<1>14. Fit(link, D, Tree, sub, color, h, Spot, Way, Odd, GapNode)
  BY <1>9, <1>11, <1>12, <1>13 DEF Fit
<1>15. QED
  BY <1>14 DEF Fits, D

(* The converse, with the two conjuncts that are about the stack.          *)
LEMMA FitsInv ==
  TypeOK /\ StackIsPath /\ Fits => IInv
<1> SUFFICES ASSUME TypeOK, StackIsPath, Fits PROVE IInv
  OBVIOUS
<1>1. PICK sub, h : Fit(link, DOMAIN data, Tree, sub, color, h, Spot, Way, Odd, GapNode)
  BY DEF Fits
<1>2. /\ IsTree(link, DOMAIN data, Tree, sub)
      /\ Heights(link, Tree, color, h, GapNode, Way)
      /\ Reds(link, Tree, color, Spot, Way, Odd)
  BY <1>1 DEF Fit
<1>3. /\ DOMAIN link = Above(DOMAIN data) /\ Tree \subseteq DOMAIN data
      /\ NULL \notin DOMAIN data /\ Anchor \notin DOMAIN data
  BY TreeFacts
<1>4. \A n \in Above(DOMAIN data), d \in Sides : link[n][d] \in Tree \cup {NULL}
  <2>1. link \in [Above(DOMAIN data) -> [Sides -> Tree \cup {NULL}]]
    BY <1>2 DEF IsTree
  <2>2. QED
    BY <2>1
<1>5. Linked
  <2>1. NoLinkToRemoved
    BY <1>3, <1>4 DEF NoLinkToRemoved
  <2>2. OneParent /\ link[Anchor][1] = NULL
    BY <1>2 DEF IsTree, OneParent, Above
  <2>3. QED
    BY <2>1, <2>2 DEF Linked
<1>6. Sorted
  <2>1. \A n \in Tree \cup {NULL} : Below[n] = sub[n]
    BY <1>2, BelowIs DEF TypeOK
  <2>2. 0 \in Sides /\ 1 \in Sides /\ Anchor \in Above(DOMAIN data)
        /\ Tree \subseteq Above(DOMAIN data)
    BY <1>3, AboveFacts DEF Sides
  <2>3. /\ \A n \in Tree : Below[link[n][0]] = sub[link[n][0]]
        /\ \A n \in Tree : Below[link[n][1]] = sub[link[n][1]]
        /\ Below[link[Anchor][0]] = sub[link[Anchor][0]]
    BY <1>4, <2>1, <2>2
  <2>4. \A n \in Tree : sub[n] \subseteq Tree
    BY <1>2 DEF IsTree
  <2>5. /\ \A n \in Tree : \A m \in sub[link[n][0]] : m < n
        /\ \A n \in Tree : \A m \in sub[link[n][1]] : n < m
    BY <1>2, <2>2 DEF IsTree, Beside
  <2>6. sub[NULL] = {} /\ sub[link[Anchor][0]] = Tree
        /\ \A n \in Tree : sub[n] = {n} \cup sub[link[n][0]] \cup sub[link[n][1]]
    BY <1>2 DEF IsTree
  <2>7. QED
    BY <2>1, <2>3, <2>4, <2>5, <2>6 DEF Sorted, Subtrees, Root
<1>7. RedRule
  <2> SUFFICES ASSUME NEW n \in Tree \cup {Anchor}, NEW d \in Sides,
                      n = Anchor \/ Red(n), Red(link[n][d])
               PROVE  \/ doing # "nothing" /\ Last(stack) = [node |-> n, side |-> d]
                      \/ doing = "delete" /\ n = x
    BY DEF RedRule
  <2>1. n \in Above(Tree) /\ (n = Anchor \/ IsRed(color, n)) /\ IsRed(color, link[n][d])
    BY DEF Red, IsRed, Above
  <2>2. (n = Spot /\ d = Way) \/ n = Odd
    BY <1>2, <2>1 DEF Reds
  <2>3. n # NULL
    BY <1>3, NodeFacts
  <2>4. CASE n = Spot /\ d = Way
    <3>1. doing # "nothing"
      BY <2>3, <2>4 DEF Spot
    <3>2. Last(stack) = [node |-> Spot, side |-> Way]
      BY <3>1, TopFacts
    <3>3. QED
      BY <2>4, <3>1, <3>2
  <2>5. CASE n = Odd
    BY <2>3, <2>5 DEF Odd
  <2>6. QED
    BY <2>2, <2>4, <2>5
<1>8. Balanced(h)
  <2>1. h \in [Tree \cup {NULL} -> Nat] /\ h[NULL] = 0
    BY <1>2 DEF Heights
  <2>2. ASSUME NEW n \in Tree, NEW d \in Sides
        PROVE  h[n] = h[link[n][d]] + Lacks(n, d) + Black(n)
    <3>1. h[n] = h[link[n][d]] + (IF n = GapNode /\ d = Way THEN 1 ELSE 0) + Bk(color, n)
      BY <1>2 DEF Heights
    <3>2. Lacks(n, d) = IF n = GapNode /\ d = Way THEN 1 ELSE 0
      <4>1. CASE doing = "delete"
        <5>1. Last(stack) = [node |-> Spot, side |-> Way] /\ GapNode = Spot
          BY <4>1, TopFacts DEF GapNode
        <5>2. QED
          BY <4>1, <5>1 DEF Lacks
      <4>2. CASE doing # "delete"
        <5>1. GapNode = NULL
          BY <4>2 DEF GapNode
        <5>2. QED
          BY <1>3, <4>2, <5>1 DEF Lacks
      <4>3. QED
        BY <4>1, <4>2
    <3>3. Black(n) = Bk(color, n)
      BY DEF Black, Bk
    <3>4. QED
      BY <3>1, <3>2, <3>3
  <2>3. QED
    BY <2>1, <2>2 DEF Balanced
<1>9. BlackRule
  <2>1. \A n \in Tree \cup {NULL} : BlackHeight[n] = h[n]
    BY <1>2, <1>8, BlackHeightIs
  <2>2. \A n \in Tree, d \in Sides : link[n][d] \in Tree \cup {NULL}
    BY <1>3, <1>4, AboveFacts
  <2>3. QED
    BY <1>8, <2>1, <2>2 DEF BlackRule, Balanced
<1>10. QED
  BY <1>5, <1>6, <1>7, <1>9 DEF IInv

(* The four rotations, with the colours each of them comes with.           *)
LEMMA FitFacts ==
  ASSUME NEW L, NEW D, NEW T, NEW sub, NEW c, NEW h, NEW spot, NEW way, NEW odd,
         NEW gapNode, Fit(L, D, T, sub, c, h, spot, way, odd, gapNode)
  PROVE  /\ IsTree(L, D, T, sub) /\ T \subseteq D /\ NULL \notin T /\ Anchor \notin T
         /\ NULL # Anchor /\ h[NULL] = 0
         /\ \A n \in T : (c[n] = "red" \/ c[n] = "black") /\ h[n] \in Nat /\ n \in Above(T)
         /\ \A n \in Above(T), f \in Sides :
              L[n][f] \in T \cup {NULL} /\ h[L[n][f]] \in Nat
         /\ \A n \in T, f \in Sides :
              /\ ~(n = gapNode /\ f = way) => h[n] = h[L[n][f]] + Bk(c, n)
              /\ n = gapNode /\ f = way => h[n] = h[L[n][f]] + 1 + Bk(c, n)
<1>1. /\ IsTree(L, D, T, sub) /\ T \subseteq D /\ NULL \notin T /\ Anchor \notin T
      /\ NULL # Anchor
      /\ \A n \in Above(T), f \in Sides : L[n][f] \in T \cup {NULL}
      /\ \A n \in T : n \in Above(T)
  BY TreeLinks, NodeFacts DEF Fit
<1>2. Measured(L, D, T, sub, c, h, gapNode, way)
  BY DEF Fit, Measured
<1>3. \A n \in T : c[n] = "red" \/ c[n] = "black"
  BY <1>1 DEF Fit, Colors
<1>4. h[NULL] = 0 /\ \A n \in T \cup {NULL} : h[n] \in Nat
  BY DEF Fit, Heights
<1>5. \A n \in T, f \in Sides :
        /\ ~(n = gapNode /\ f = way) => h[n] = h[L[n][f]] + Bk(c, n)
        /\ n = gapNode /\ f = way => h[n] = h[L[n][f]] + 1 + Bk(c, n)
  BY <1>2, HeightFacts DEF Bk
<1>6. \A n \in Above(T), f \in Sides : h[L[n][f]] \in Nat
  BY <1>1, <1>4
<1>7. QED
  BY <1>1, <1>3, <1>4, <1>5, <1>6

(* The new node and its parent p are on different sides.                   *)
CanTurnIn(L, D, T, sub, c, h, g, d, p, q) ==
  /\ Fit(L, D, T, sub, c, h, p, 1 - d, NULL, NULL)
  /\ g \in T /\ d \in Sides /\ p = L[g][d] /\ q = L[p][1 - d]
  /\ IsRed(c, p) /\ IsRed(c, q)

(* The first rotation of rb_probe: the red pair is then on the same side.  *)
LEMMA TurnIn ==
  ASSUME NEW L, NEW D, NEW T, NEW sub, NEW c, NEW h, NEW g, NEW d, NEW p, NEW q,
         CanTurnIn(L, D, T, sub, c, h, g, d, p, q)
  PROVE  \E sub2, h2 : Fit(Rotate(L, g, d, p, 1 - d), D, T, sub2, c, h2, q, d, NULL, NULL)
<1>1. /\ Fit(L, D, T, sub, c, h, p, 1 - d, NULL, NULL)
      /\ g \in T /\ d \in Sides /\ p = L[g][d] /\ q = L[p][1 - d]
      /\ 1 - d \in Sides /\ 1 - d # d /\ 1 - (1 - d) = d
      /\ p # NULL /\ c[p] = "red" /\ q # NULL /\ c[q] = "red"
  BY SideFacts DEF CanTurnIn, IsRed
<1>2. /\ IsTree(L, D, T, sub) /\ NULL \notin T /\ h[NULL] = 0
      /\ \A n \in T : (c[n] = "red" \/ c[n] = "black") /\ h[n] \in Nat /\ n \in Above(T)
      /\ \A n \in Above(T), f \in Sides : L[n][f] \in T \cup {NULL} /\ h[L[n][f]] \in Nat
      /\ \A n \in T, f \in Sides : h[n] = h[L[n][f]] + Bk(c, n)
  BY <1>1, FitFacts
<1>3. p \in T /\ q \in T /\ q # p
  BY <1>1, <1>2, ChildFacts
<1>4. CanRotate(L, D, T, sub, p, 1 - d, q, g, d)
  BY <1>1, <1>2, <1>3 DEF CanRotate
<1>5. Fitting(L, T, p, 1 - d, q, c, h, c, h, NULL, d)
  <2>1. h \in [T \cup {NULL} -> Nat]
    BY <1>1 DEF Fit, Heights
  <2>2. Bk(c, p) = 0 /\ Bk(c, q) = 0
    BY <1>1 DEF Bk
  <2>3. PICK e \in Sides : e = 1 - d /\ 1 - e = d
    BY <1>1
  <2>4. /\ h[p] = h[q] /\ h[q] = h[L[q][e]] /\ h[q] = h[L[q][1 - e]] /\ h[p] = h[L[p][1 - e]]
        /\ h[p] \in Nat /\ h[q] \in Nat /\ p # NULL
    <3>1. h[p] = h[q] + 0 /\ h[q] = h[L[q][e]] + 0
          /\ h[q] = h[L[q][d]] + 0 /\ h[p] = h[L[p][d]] + 0
      BY <1>1, <1>2, <1>3, <2>2, <2>3, SMTT(30)
    <3>2. h[L[q][e]] \in Nat /\ h[L[q][d]] \in Nat
          /\ h[L[p][d]] \in Nat /\ h[p] \in Nat /\ h[q] \in Nat
      BY <1>1, <1>2, <1>3
    <3>3. h[p] = h[q] /\ h[q] = h[L[q][e]] /\ h[q] = h[L[q][d]] /\ h[p] = h[L[p][d]]
      BY <3>1, <3>2
    <3>4. QED
      BY <1>2, <1>3, <2>3, <3>2, <3>3, SMTT(30)
  <2>5. Fitting(L, T, p, e, q, c, h, c, h, NULL, d)
    <3>1. \A n \in T \ {p, q} : h[n] + Bk(c, n) = h[n] + Bk(c, n)
      OBVIOUS
    <3>2. h[q] = h[p] /\ h[q] = h[p] + Bk(c, q) /\ h[q] = h[L[q][e]] + Bk(c, q)
      BY <2>2, <2>4
    <3>3. h[p] = h[L[q][1 - e]] + (IF p = NULL /\ e = d THEN 1 ELSE 0) + Bk(c, p)
      BY <2>2, <2>4
    <3>4. h[p] = h[L[p][1 - e]] + (IF p = NULL /\ 1 - e = d THEN 1 ELSE 0) + Bk(c, p)
      BY <2>2, <2>4
    <3>5. QED
      BY <1>2, <2>1, <3>1, <3>2, <3>3, <3>4 DEF Fitting
  <2>6. QED
    BY <2>3, <2>5
<1>6. Reds(L, T, c, p, 1 - d, NULL)
  BY <1>1, SMTT(30) DEF Fit
<1>7. Matching(L, T, p, 1 - d, q, c, c, q, d)
  <2>1. ~IsRed(c, L[q][d]) /\ ~IsRed(c, L[q][1 - d])
    BY <1>1, <1>2, <1>3, <1>6 DEF Reds, IsRed
  <2>2. ~IsRed(c, L[p][d])
    BY <1>1, <1>2, <1>3, <1>6 DEF Reds, IsRed
  <2>3. QED
    BY <1>1, <1>3, <2>1, <2>2, SMTT(30) DEF Matching, IsRed
<1>8. IsTree(Rotate(L, g, d, p, 1 - d), D, T, Rotated(L, T, sub, p, 1 - d, q))
  BY <1>4, RotateTree
<1>9. Heights(Rotate(L, g, d, p, 1 - d), T, c, h, NULL, d)
  <2>1. StaysOut(NULL, 1 - d, NULL, d, {NULL, p, q})
    BY DEF StaysOut
  <2>2. Heights(L, T, c, h, NULL, 1 - d) /\ NULL # q
    BY <1>1 DEF Fit
  <2>3. QED
    BY <1>4, <1>5, <2>1, <2>2, RotateHeights
<1>10. Reds(Rotate(L, g, d, p, 1 - d), T, c, q, d, NULL)
  <2>1. StaysOut(p, 1 - d, q, d, {NULL, p, q})
    BY DEF StaysOut
  <2>2. NULL \in T \cup {NULL} /\ ~IsRed(c, NULL)
    BY DEF IsRed
  <2>3. QED
    BY <1>4, <1>6, <1>7, <2>1, <2>2, RotateReds
<1>11. c \in [D -> Colors]
  BY <1>1 DEF Fit
<1>12. QED
  BY <1>8, <1>9, <1>10, <1>11 DEF Fit

(* The new node and its parent y are on the same side.                     *)
OutColors(c, g, y) == [c EXCEPT ![g] = "red", ![y] = "black"]

CanTurnOut(L, D, T, sub, c, h, g, d, y, a, b) ==
  /\ Fit(L, D, T, sub, c, h, y, d, NULL, NULL)
  /\ g \in T /\ d \in Sides /\ y = L[g][d] /\ IsRed(c, y) /\ ~IsRed(c, L[g][1 - d])
  /\ a \in Above(T) /\ b \in Sides /\ L[a][b] = g

(* The second rotation of rb_probe leaves no exception.                    *)
LEMMA TurnOut ==
  ASSUME NEW L, NEW D, NEW T, NEW sub, NEW c, NEW h, NEW g, NEW d, NEW y, NEW a, NEW b,
         CanTurnOut(L, D, T, sub, c, h, g, d, y, a, b)
  PROVE  \E sub2, h2 : Fit(Rotate(L, a, b, g, d), D, T, sub2,
                           OutColors(c, g, y), h2, NULL, 0, NULL, NULL)
<1> DEFINE c2 == OutColors(c, g, y)
           h2 == [h EXCEPT ![y] = h[g], ![g] = h[y]]
<1>1. /\ Fit(L, D, T, sub, c, h, y, d, NULL, NULL)
      /\ g \in T /\ d \in Sides /\ y = L[g][d]
      /\ 1 - d \in Sides /\ 1 - d # d /\ y # NULL /\ c[y] = "red"
      /\ ~IsRed(c, L[g][1 - d])
      /\ a \in Above(T) /\ b \in Sides /\ L[a][b] = g
  BY SideFacts DEF CanTurnOut, IsRed
<1>2. /\ IsTree(L, D, T, sub) /\ T \subseteq D /\ NULL \notin T /\ h[NULL] = 0
      /\ NULL # Anchor /\ Anchor \notin T
      /\ \A n \in T : (c[n] = "red" \/ c[n] = "black") /\ h[n] \in Nat /\ n \in Above(T)
      /\ \A n \in Above(T), f \in Sides : L[n][f] \in T \cup {NULL} /\ h[L[n][f]] \in Nat
      /\ \A n \in T, f \in Sides : h[n] = h[L[n][f]] + Bk(c, n)
  BY <1>1, FitFacts
<1>3. /\ y \in T /\ y # g
      /\ L[g][1 - d] # g /\ L[g][1 - d] # y
      /\ \A f \in Sides : L[y][f] # y /\ L[y][f] # g
  <2>1. y \in T /\ y # g /\ L[g][1 - d] # g /\ \A f \in Sides : L[y][f] # y
    BY <1>1, <1>2, ChildFacts
  <2>2. L[g][1 - d] # y
    BY <1>1, <1>2, TreeLinks
  <2>3. ASSUME NEW f \in Sides, L[y][f] = g PROVE FALSE
    <3>1. g \in sub[y]
      BY <1>1, <1>2, <2>1, <2>3, ChildFacts
    <3>2. g \notin sub[y]
      BY <1>1, <1>2, ChildFacts
    <3>3. QED
      BY <3>1, <3>2
  <2>4. QED
    BY <2>1, <2>2, <2>3
<1>4. CanRotate(L, D, T, sub, g, d, y, a, b)
  BY <1>1, <1>2, <1>3 DEF CanRotate
<1>5. c \in [D -> Colors] /\ h \in [T \cup {NULL} -> Nat] /\ Reds(L, T, c, y, d, NULL)
      /\ Heights(L, T, c, h, NULL, d)
  BY <1>1 DEF Fit, Heights
<1>6. /\ c2 \in [D -> Colors] /\ c2[g] = "red" /\ c2[y] = "black"
      /\ \A n \in T \ {g, y} : c2[n] = c[n]
  BY <1>2, <1>3, <1>1, <1>5 DEF Colors, OutColors
<1>7. /\ h2 \in [T \cup {NULL} -> Nat] /\ h2[y] = h[g] /\ h2[g] = h[y] /\ h2[NULL] = 0
      /\ \A n \in (T \cup {NULL}) \ {g, y} : h2[n] = h[n]
  BY <1>1, <1>2, <1>3, <1>5
<1> HIDE DEF c2, h2
<1>8. c[g] = "black"
  BY <1>1, <1>2, <1>3, <1>5 DEF Reds, IsRed
<1>9. /\ h[g] = h[y] + 1 /\ h[g] = h[L[g][1 - d]] + 1
      /\ h[y] = h[L[y][d]] /\ h[y] = h[L[y][1 - d]]
      /\ h[g] \in Nat /\ h[y] \in Nat
  <2>1. Bk(c, g) = 1 /\ Bk(c, y) = 0
    BY <1>1, <1>8 DEF Bk
  <2>2. /\ h[g] = h[y] + 1 /\ h[g] = h[L[g][1 - d]] + 1
        /\ h[y] = h[L[y][d]] + 0 /\ h[y] = h[L[y][1 - d]] + 0
    BY <1>1, <1>2, <1>3, <2>1
  <2>3. QED
    BY <1>1, <1>2, <1>3, <2>2
<1>10. Fitting(L, T, g, d, y, c, h, c2, h2, NULL, 0)
  <2>1. /\ h2[L[y][d]] = h[L[y][d]] /\ h2[L[y][1 - d]] = h[L[y][1 - d]]
        /\ h2[L[g][1 - d]] = h[L[g][1 - d]]
    BY <1>1, <1>2, <1>3, <1>7
  <2>2. Bk(c2, g) = 0 /\ Bk(c2, y) = 1 /\ \A n \in T \ {g, y} : Bk(c2, n) = Bk(c, n)
    BY <1>6 DEF Bk
  <2>3. h2[y] = h2[g] + Bk(c2, y) /\ h2[y] = h2[L[y][d]] + Bk(c2, y)
    BY <1>7, <1>9, <2>1, <2>2
  <2>4. /\ h2[g] = h2[L[y][1 - d]] + (IF g = NULL /\ d = 0 THEN 1 ELSE 0) + Bk(c2, g)
        /\ h2[g] = h2[L[g][1 - d]] + (IF g = NULL /\ 1 - d = 0 THEN 1 ELSE 0) + Bk(c2, g)
    BY <1>1, <1>2, <1>7, <1>9, <2>1, <2>2, SMTT(30)
  <2>5. QED
    BY <1>7, <2>2, <2>3, <2>4 DEF Fitting
<1>11. Matching(L, T, g, d, y, c, c2, NULL, 0)
  <2>1. ~IsRed(c2, L[y][1 - d])
    <3>1. ~IsRed(c, L[y][1 - d])
      BY <1>1, <1>2, <1>3, <1>5 DEF Reds, IsRed
    <3>2. QED
      BY <1>1, <1>2, <1>3, <1>6, <3>1 DEF IsRed
  <2>2. ~IsRed(c2, L[g][1 - d])
    BY <1>1, <1>2, <1>3, <1>6 DEF IsRed
  <2>3. QED
    BY <1>6, <2>1, <2>2 DEF Matching, IsRed
<1>12. IsTree(Rotate(L, a, b, g, d), D, T, Rotated(L, T, sub, g, d, y))
  BY <1>4, RotateTree
<1>13. Heights(Rotate(L, a, b, g, d), T, c2, h2, NULL, 0)
  <2>1. StaysOut(NULL, d, NULL, 0, {NULL, g, y}) /\ NULL # y
    BY <1>1 DEF StaysOut
  <2>2. QED
    BY <1>4, <1>5, <1>10, <2>1, RotateHeights
<1>14. Reds(Rotate(L, a, b, g, d), T, c2, NULL, 0, NULL)
  <2>1. StaysOut(y, d, NULL, 0, {NULL, g, y}) /\ NULL \in T \cup {NULL} /\ ~IsRed(c, NULL)
    BY DEF StaysOut, IsRed
  <2>2. QED
    BY <1>4, <1>5, <1>11, <2>1, RotateReds
<1>15. Fit(Rotate(L, a, b, g, d), D, T, Rotated(L, T, sub, g, d, y), c2, h2,
           NULL, 0, NULL, NULL)
  BY <1>6, <1>12, <1>13, <1>14 DEF Fit
<1>16. QED
  BY <1>15 DEF c2

(* The sibling y of the node with the missing one is red.                  *)
SiblingColors(c, y, g) == [c EXCEPT ![y] = "black", ![g] = "red"]

CanTurnSibling(L, D, T, sub, c, h, g, d, y, a, b) ==
  /\ Fit(L, D, T, sub, c, h, g, 1 - d, L[g][1 - d], g)
  /\ g \in T /\ d \in Sides /\ y = L[g][d] /\ IsRed(c, y) /\ ~IsRed(c, L[g][1 - d])
  /\ a \in Above(T) /\ b \in Sides /\ L[a][b] = g

(* The rotation of a red sibling: the gap stays below the same node, whose *)
(* other child is black now.                                               *)
LEMMA TurnSibling ==
  ASSUME NEW L, NEW D, NEW T, NEW sub, NEW c, NEW h, NEW g, NEW d, NEW y, NEW a, NEW b,
         CanTurnSibling(L, D, T, sub, c, h, g, d, y, a, b)
  PROVE  \E sub2, h2 : Fit(Rotate(L, a, b, g, d), D, T, sub2,
                           SiblingColors(c, y, g), h2,
                           g, 1 - d, L[g][1 - d], g)
<1> DEFINE c2 == SiblingColors(c, y, g)
           h2 == [h EXCEPT ![y] = h[g], ![g] = h[y]]
<1>1. /\ Fit(L, D, T, sub, c, h, g, 1 - d, L[g][1 - d], g)
      /\ g \in T /\ d \in Sides /\ y = L[g][d]
      /\ 1 - d \in Sides /\ 1 - d # d /\ y # NULL /\ c[y] = "red"
      /\ ~IsRed(c, L[g][1 - d])
      /\ a \in Above(T) /\ b \in Sides /\ L[a][b] = g
  BY SideFacts DEF CanTurnSibling, IsRed
<1>2. /\ IsTree(L, D, T, sub) /\ T \subseteq D /\ NULL \notin T /\ h[NULL] = 0
      /\ NULL # Anchor /\ Anchor \notin T
      /\ \A n \in T : (c[n] = "red" \/ c[n] = "black") /\ h[n] \in Nat /\ n \in Above(T)
      /\ \A n \in Above(T), f \in Sides : L[n][f] \in T \cup {NULL} /\ h[L[n][f]] \in Nat
      /\ \A n \in T, f \in Sides : ~(n = g /\ f = 1 - d) => h[n] = h[L[n][f]] + Bk(c, n)
      /\ h[g] = h[L[g][1 - d]] + 1 + Bk(c, g)
  BY <1>1, FitFacts
<1>3. /\ y \in T /\ y # g
      /\ L[g][1 - d] # g /\ L[g][1 - d] # y
      /\ \A f \in Sides : L[y][f] # y /\ L[y][f] # g
  <2>1. y \in T /\ y # g /\ L[g][1 - d] # g /\ \A f \in Sides : L[y][f] # y
    BY <1>1, <1>2, ChildFacts
  <2>2. L[g][1 - d] # y
    BY <1>1, <1>2, TreeLinks
  <2>3. ASSUME NEW f \in Sides, L[y][f] = g PROVE FALSE
    <3>1. g \in sub[y]
      BY <1>1, <1>2, <2>1, <2>3, ChildFacts
    <3>2. g \notin sub[y]
      BY <1>1, <1>2, ChildFacts
    <3>3. QED
      BY <3>1, <3>2
  <2>4. QED
    BY <2>1, <2>2, <2>3
<1>4. CanRotate(L, D, T, sub, g, d, y, a, b)
  BY <1>1, <1>2, <1>3 DEF CanRotate
<1>5. /\ c \in [D -> Colors] /\ h \in [T \cup {NULL} -> Nat]
      /\ Reds(L, T, c, g, 1 - d, L[g][1 - d])
      /\ Heights(L, T, c, h, g, 1 - d)
  BY <1>1 DEF Fit, Heights
<1>6. /\ c2 \in [D -> Colors] /\ c2[g] = "red" /\ c2[y] = "black"
      /\ \A n \in T \ {g, y} : c2[n] = c[n]
  BY <1>2, <1>3, <1>1, <1>5 DEF Colors, SiblingColors
<1>7. /\ h2 \in [T \cup {NULL} -> Nat] /\ h2[y] = h[g] /\ h2[g] = h[y] /\ h2[NULL] = 0
      /\ \A n \in (T \cup {NULL}) \ {g, y} : h2[n] = h[n]
  BY <1>1, <1>2, <1>3, <1>5
<1> HIDE DEF c2, h2
<1>8. c[g] = "black"
  <2>1. g # L[g][1 - d]
    BY <1>3
  <2>2. QED
    BY <1>1, <1>2, <1>3, <1>5, <2>1 DEF Reds, IsRed
<1>9. /\ h[g] = h[y] + 1 /\ h[y] = h[L[g][1 - d]] + 1
      /\ h[y] = h[L[y][d]] /\ h[y] = h[L[y][1 - d]]
      /\ h[g] \in Nat /\ h[y] \in Nat
  <2>1. Bk(c, g) = 1 /\ Bk(c, y) = 0
    BY <1>1, <1>8 DEF Bk
  <2>2. /\ h[g] = h[y] + 1 /\ h[g] = h[L[g][1 - d]] + 1 + 1
        /\ h[y] = h[L[y][d]] + 0 /\ h[y] = h[L[y][1 - d]] + 0
    BY <1>1, <1>2, <1>3, <2>1
  <2>3. /\ h[L[g][1 - d]] \in Nat /\ h[L[y][d]] \in Nat /\ h[L[y][1 - d]] \in Nat
        /\ h[g] \in Nat /\ h[y] \in Nat
    BY <1>1, <1>2, <1>3
  <2>4. QED
    BY <2>2, <2>3
<1>10. Fitting(L, T, g, d, y, c, h, c2, h2, g, 1 - d)
  <2>1. /\ h2[L[y][d]] = h[L[y][d]] /\ h2[L[y][1 - d]] = h[L[y][1 - d]]
        /\ h2[L[g][1 - d]] = h[L[g][1 - d]]
    BY <1>1, <1>2, <1>3, <1>7
  <2>2. Bk(c2, g) = 0 /\ Bk(c2, y) = 1 /\ \A n \in T \ {g, y} : Bk(c2, n) = Bk(c, n)
    BY <1>6 DEF Bk
  <2>3. h2[y] = h2[g] + Bk(c2, y) /\ h2[y] = h2[L[y][d]] + Bk(c2, y)
    BY <1>7, <1>9, <2>1, <2>2
  <2>4. /\ h2[g] = h2[L[y][1 - d]] + (IF g = g /\ d = 1 - d THEN 1 ELSE 0) + Bk(c2, g)
        /\ h2[g] = h2[L[g][1 - d]] + (IF g = g /\ 1 - d = 1 - d THEN 1 ELSE 0) + Bk(c2, g)
    BY <1>1, <1>2, <1>7, <1>9, <2>1, <2>2
  <2>5. QED
    BY <1>7, <2>2, <2>3, <2>4 DEF Fitting
<1>11. Matching(L, T, g, d, y, c, c2, g, 1 - d)
  <2>1. ~IsRed(c2, L[y][1 - d])
    <3>1. ~IsRed(c, L[y][1 - d])
      BY <1>1, <1>2, <1>3, <1>5 DEF Reds, IsRed
    <3>2. QED
      BY <1>1, <1>2, <1>3, <1>6, <3>1 DEF IsRed
  <2>2. QED
    BY <1>6, <2>1 DEF Matching, IsRed
<1>12. IsTree(Rotate(L, a, b, g, d), D, T, Rotated(L, T, sub, g, d, y))
  BY <1>4, RotateTree
<1>13. Heights(Rotate(L, a, b, g, d), T, c2, h2, g, 1 - d)
  <2>1. StaysOut(g, 1 - d, g, 1 - d, {NULL, g, y}) /\ g # y
    BY <1>3 DEF StaysOut
  <2>2. QED
    BY <1>4, <1>5, <1>10, <2>1, RotateHeights
<1>14. Reds(Rotate(L, a, b, g, d), T, c2, g, 1 - d, L[g][1 - d])
  <2>1. StaysOut(g, 1 - d, g, 1 - d, {NULL, g, y})
        /\ L[g][1 - d] \in T \cup {NULL} /\ ~IsRed(c, L[g][1 - d])
    BY <1>1, <1>2 DEF StaysOut
  <2>2. QED
    BY <1>4, <1>5, <1>11, <2>1, RotateReds
<1>15. Fit(Rotate(L, a, b, g, d), D, T, Rotated(L, T, sub, g, d, y), c2, h2,
           g, 1 - d, L[g][1 - d], g)
  BY <1>6, <1>12, <1>13, <1>14 DEF Fit
<1>16. QED
  BY <1>15 DEF c2

(* Only the near child y of the sibling u is red: it becomes the sibling.  *)
CanTurnNephew(L, D, T, sub, c, h, p, d, u, y) ==
  /\ Fit(L, D, T, sub, c, h, p, d, L[p][d], p)
  /\ p \in T /\ d \in Sides /\ u = L[p][1 - d] /\ u # NULL /\ y = L[u][d]
  /\ ~IsRed(c, L[p][d]) /\ ~IsRed(c, u) /\ IsRed(c, y) /\ ~IsRed(c, L[u][1 - d])

(* The rotation of a red near child: the gap stays, and the sibling's far  *)
(* child is red.                                                           *)
LEMMA TurnNephew ==
  ASSUME NEW L, NEW D, NEW T, NEW sub, NEW c, NEW h, NEW p, NEW d, NEW u, NEW y,
         CanTurnNephew(L, D, T, sub, c, h, p, d, u, y)
  PROVE  \E sub2, h2 : Fit(Rotate(L, p, 1 - d, u, d), D, T, sub2,
                           SiblingColors(c, y, u), h2,
                           p, d, L[p][d], p)
<1> DEFINE c2 == SiblingColors(c, y, u)
           h2 == [h EXCEPT ![y] = h[u], ![u] = h[y]]
<1>1. /\ Fit(L, D, T, sub, c, h, p, d, L[p][d], p)
      /\ p \in T /\ d \in Sides /\ u = L[p][1 - d] /\ u # NULL /\ y = L[u][d]
      /\ 1 - d \in Sides /\ 1 - d # d /\ y # NULL /\ c[y] = "red"
      /\ ~IsRed(c, L[p][d]) /\ ~IsRed(c, u) /\ ~IsRed(c, L[u][1 - d])
  BY SideFacts DEF CanTurnNephew, IsRed
<1>2. /\ IsTree(L, D, T, sub) /\ T \subseteq D /\ NULL \notin T /\ h[NULL] = 0
      /\ NULL # Anchor /\ Anchor \notin T
      /\ \A n \in T : (c[n] = "red" \/ c[n] = "black") /\ h[n] \in Nat /\ n \in Above(T)
      /\ \A n \in Above(T), f \in Sides : L[n][f] \in T \cup {NULL} /\ h[L[n][f]] \in Nat
      /\ \A n \in T, f \in Sides : ~(n = p /\ f = d) => h[n] = h[L[n][f]] + Bk(c, n)
  BY <1>1, FitFacts
<1>3. /\ u \in T /\ y \in T /\ y # u /\ p # u /\ p # y /\ L[p][d] # y
      /\ L[u][1 - d] # u /\ L[u][1 - d] # y
      /\ \A f \in Sides : L[y][f] # y /\ L[y][f] # u
  <2>1. u \in T /\ p # u /\ y \in T /\ y # u /\ L[u][1 - d] # u /\ \A f \in Sides : L[y][f] # y
    BY <1>1, <1>2, ChildFacts, SMTT(30)
  <2>2. L[u][1 - d] # y /\ L[p][d] # y
    BY <1>1, <1>2, <2>1, TreeLinks
  <2>3. ASSUME NEW f \in Sides, L[y][f] = u PROVE FALSE
    <3>1. u \in sub[y]
      BY <1>1, <1>2, <2>1, <2>3, ChildFacts, SMTT(30)
    <3>2. u \notin sub[y]
      BY <1>1, <1>2, <2>1, ChildFacts
    <3>3. QED
      BY <3>1, <3>2, SMTT(30)
  <2>4. p # y
    <3>1. y \in sub[u]
      BY <1>1, <1>2, <2>1, ChildFacts
    <3>2. p \notin sub[u]
      BY <1>1, <1>2, ChildFacts, SMTT(30)
    <3>3. QED
      BY <3>1, <3>2
  <2>5. QED
    BY <2>1, <2>2, <2>3, <2>4
<1>4. CanRotate(L, D, T, sub, u, d, y, p, 1 - d)
  BY <1>1, <1>2, <1>3 DEF CanRotate
<1>5. /\ c \in [D -> Colors] /\ h \in [T \cup {NULL} -> Nat]
      /\ Reds(L, T, c, p, d, L[p][d])
      /\ Heights(L, T, c, h, p, d)
  BY <1>1, SMTT(30) DEF Fit, Heights
<1>6. /\ c2 \in [D -> Colors] /\ c2[u] = "red" /\ c2[y] = "black"
      /\ \A n \in T \ {u, y} : c2[n] = c[n]
  BY <1>2, <1>3, <1>1, <1>5, ZenonT(60) DEF Colors, SiblingColors
<1>7. /\ h2 \in [T \cup {NULL} -> Nat] /\ h2[y] = h[u] /\ h2[u] = h[y] /\ h2[NULL] = 0
      /\ \A n \in (T \cup {NULL}) \ {u, y} : h2[n] = h[n]
  BY <1>1, <1>2, <1>3, <1>5, ZenonT(60)
<1> HIDE DEF c2, h2
<1>8. c[u] = "black"
  BY <1>1, <1>2, <1>3 DEF IsRed
<1>9. /\ h[u] = h[y] + 1 /\ h[u] = h[L[u][1 - d]] + 1
      /\ h[y] = h[L[y][d]] /\ h[y] = h[L[y][1 - d]]
      /\ h[u] \in Nat /\ h[y] \in Nat
  <2>1. Bk(c, u) = 1 /\ Bk(c, y) = 0
    BY <1>1, <1>8 DEF Bk
  <2>2. \A f \in Sides :
          /\ h[u] = h[L[u][f]] + 1 /\ h[y] = h[L[y][f]] + 0
          /\ h[L[u][f]] \in Nat /\ h[L[y][f]] \in Nat
    BY <1>2, <1>3, <2>1, SMTT(30)
  <2>3. /\ h[u] = h[L[u][d]] + 1 /\ h[u] = h[L[u][1 - d]] + 1
        /\ h[y] = h[L[y][d]] + 0 /\ h[y] = h[L[y][1 - d]] + 0
        /\ h[L[y][d]] \in Nat /\ h[L[y][1 - d]] \in Nat
    BY <1>1, <2>2, ZenonT(60)
  <2>4. h[u] = h[y] + 1
    BY <1>1, <2>3
  <2>5. h[u] \in Nat /\ h[y] \in Nat
    BY <1>2, <1>3
  <2>6. QED
    BY <2>3, <2>4, <2>5
<1>10. Fitting(L, T, u, d, y, c, h, c2, h2, p, d)
  <2>1. /\ h2[L[y][d]] = h[L[y][d]] /\ h2[L[y][1 - d]] = h[L[y][1 - d]]
        /\ h2[L[u][1 - d]] = h[L[u][1 - d]]
    BY <1>1, <1>2, <1>3, <1>7
  <2>2. Bk(c2, u) = 0 /\ Bk(c2, y) = 1 /\ \A n \in T \ {u, y} : Bk(c2, n) = Bk(c, n)
    BY <1>6 DEF Bk
  <2>3. h2[y] = h2[u] + Bk(c2, y) /\ h2[y] = h2[L[y][d]] + Bk(c2, y)
    BY <1>7, <1>9, <2>1, <2>2
  <2>4. /\ h2[u] = h2[L[y][1 - d]] + (IF u = p /\ d = d THEN 1 ELSE 0) + Bk(c2, u)
        /\ h2[u] = h2[L[u][1 - d]] + (IF u = p /\ 1 - d = d THEN 1 ELSE 0) + Bk(c2, u)
    <3>1. h2[u] = h2[L[y][1 - d]] /\ h2[u] = h2[L[u][1 - d]] /\ h2[u] \in Nat
      <4>1. h[y] = h[L[u][1 - d]]
        <5>1. h[L[u][1 - d]] \in Nat
          BY <1>1, <1>2, <1>3
        <5>2. QED
          BY <1>9, <5>1, SMTT(30)
      <4>2. QED
        BY <1>7, <1>9, <2>1, <4>1
    <3>2. u # p
      BY <1>3
    <3>3. QED
      BY <2>2, <3>1, <3>2
  <2>5. QED
    BY <1>7, <2>2, <2>3, <2>4, SMTT(30) DEF Fitting
<1>11. Matching(L, T, u, d, y, c, c2, p, d)
  <2>a. \A n \in T \cup {NULL} : n # u /\ n # y /\ ~IsRed(c, n) => ~IsRed(c2, n)
    BY <1>6, SMTT(30) DEF IsRed
  <2>0. L[y][1 - d] \in T \cup {NULL} /\ L[u][1 - d] \in T \cup {NULL}
    BY <1>1, <1>2, <1>3, SMTT(30)
  <2>1. ~IsRed(c2, L[y][1 - d])
    <3>1. ~IsRed(c, L[y][1 - d])
      BY <1>1, <1>2, <1>3, <1>5, ZenonT(60) DEF Reds, IsRed
    <3>2. QED
      BY <1>1, <1>3, <2>a, <2>0, <3>1, ZenonT(60)
  <2>2. ~IsRed(c2, L[u][1 - d])
    BY <1>1, <1>3, <2>a, <2>0
  <2>3. QED
    BY <1>6, <2>1, <2>2 DEF Matching, IsRed
<1>12. IsTree(Rotate(L, p, 1 - d, u, d), D, T, Rotated(L, T, sub, u, d, y))
  BY <1>4, RotateTree
<1>13. Heights(Rotate(L, p, 1 - d, u, d), T, c2, h2, p, d)
  <2>1. StaysOut(p, d, p, d, {NULL, u, y}) /\ p # y
    BY <1>3 DEF StaysOut
  <2>2. QED
    BY <1>4, <1>5, <1>10, <2>1, RotateHeights
<1>14. Reds(Rotate(L, p, 1 - d, u, d), T, c2, p, d, L[p][d])
  <2>1. StaysOut(p, d, p, d, {NULL, u, y})
        /\ L[p][d] \in T \cup {NULL} /\ ~IsRed(c, L[p][d])
    BY <1>1, <1>2 DEF StaysOut
  <2>2. QED
    BY <1>4, <1>5, <1>11, <2>1, RotateReds
<1>15. Fit(Rotate(L, p, 1 - d, u, d), D, T, Rotated(L, T, sub, u, d, y), c2, h2,
           p, d, L[p][d], p)
  BY <1>6, <1>12, <1>13, <1>14 DEF Fit
<1>16. QED
  BY <1>15 DEF c2

(* The far child of the sibling y is red: it gives the missing black node. *)
FarColors(c, y, g, far) == [c EXCEPT ![y] = c[g], ![g] = "black", ![far] = "black"]

CanTurnFar(L, D, T, sub, c, h, g, d, y, far, a, b) ==
  /\ Fit(L, D, T, sub, c, h, g, 1 - d, L[g][1 - d], g)
  /\ g \in T /\ d \in Sides /\ y = L[g][d] /\ y # NULL /\ far = L[y][d]
  /\ ~IsRed(c, y) /\ IsRed(c, far) /\ ~IsRed(c, L[g][1 - d])
  /\ a \in Above(T) /\ b \in Sides /\ L[a][b] = g

(* The last rotation of rb_delete closes the gap and leaves no exception.  *)
LEMMA TurnFar ==
  ASSUME NEW L, NEW D, NEW T, NEW sub, NEW c, NEW h, NEW g, NEW d, NEW y, NEW far,
         NEW a, NEW b, CanTurnFar(L, D, T, sub, c, h, g, d, y, far, a, b)
  PROVE  \E sub2, h2 : Fit(Rotate(L, a, b, g, d), D, T, sub2,
                           FarColors(c, y, g, far), h2,
                           NULL, 0, NULL, NULL)
<1> DEFINE c2 == FarColors(c, y, g, far)
           h2 == [h EXCEPT ![y] = h[g], ![g] = h[y], ![far] = h[far] + 1]
<1>1. /\ Fit(L, D, T, sub, c, h, g, 1 - d, L[g][1 - d], g)
      /\ g \in T /\ d \in Sides /\ y = L[g][d] /\ far = L[y][d]
      /\ 1 - d \in Sides /\ 1 - d # d /\ y # NULL /\ far # NULL /\ c[far] = "red"
      /\ ~IsRed(c, L[g][1 - d]) /\ ~IsRed(c, y)
      /\ a \in Above(T) /\ b \in Sides /\ L[a][b] = g
  BY SideFacts DEF CanTurnFar, IsRed
<1>2. /\ IsTree(L, D, T, sub) /\ T \subseteq D /\ NULL \notin T /\ h[NULL] = 0
      /\ NULL # Anchor /\ Anchor \notin T
      /\ \A n \in T : (c[n] = "red" \/ c[n] = "black") /\ h[n] \in Nat /\ n \in Above(T)
      /\ \A n \in Above(T), f \in Sides : L[n][f] \in T \cup {NULL} /\ h[L[n][f]] \in Nat
      /\ \A n \in T, f \in Sides : ~(n = g /\ f = 1 - d) => h[n] = h[L[n][f]] + Bk(c, n)
      /\ h[g] = h[L[g][1 - d]] + 1 + Bk(c, g)
  BY <1>1, FitFacts
<1>3. /\ y \in T /\ far \in T /\ y # g /\ far # y /\ far # g
      /\ L[g][1 - d] # g /\ L[g][1 - d] # y /\ L[g][1 - d] # far
      /\ L[y][1 - d] # y /\ L[y][1 - d] # g /\ L[y][1 - d] # far
  <2>1. /\ y \in T /\ far \in T /\ y # g /\ far # y /\ L[g][1 - d] # g
        /\ L[y][1 - d] # y
    BY <1>1, <1>2, ChildFacts
  <2>2. /\ L[g][1 - d] # y /\ L[g][1 - d] # far /\ L[y][1 - d] # far
    BY <1>1, <1>2, <2>1, TreeLinks
  <2>3. g \notin sub[y]
    BY <1>1, <1>2, ChildFacts
  <2>4. far # g /\ L[y][1 - d] # g
    <3>1. /\ far \in sub[y]
          /\ L[y][1 - d] # NULL => L[y][1 - d] \in sub[y]
      BY <1>1, <1>2, <2>1, ChildFacts
    <3>2. QED
      BY <1>1, <1>2, <2>3, <3>1
  <2>5. QED
    BY <2>1, <2>2, <2>4
<1>4. CanRotate(L, D, T, sub, g, d, y, a, b)
  BY <1>1, <1>2, <1>3 DEF CanRotate
<1>5. /\ c \in [D -> Colors] /\ h \in [T \cup {NULL} -> Nat]
      /\ Reds(L, T, c, g, 1 - d, L[g][1 - d])
      /\ Heights(L, T, c, h, g, 1 - d)
  BY <1>1, SMTT(30) DEF Fit, Heights
<1>6. /\ c2 \in [D -> Colors] /\ c2[g] = "black" /\ c2[y] = c[g] /\ c2[far] = "black"
      /\ \A n \in T \ {g, y, far} : c2[n] = c[n]
  BY <1>2, <1>3, <1>1, <1>5, SMTT(30) DEF Colors, FarColors
<1>7. /\ h2 \in [T \cup {NULL} -> Nat] /\ h2[y] = h[g] /\ h2[g] = h[y]
      /\ h2[far] = h[far] + 1 /\ h2[NULL] = 0
      /\ \A n \in (T \cup {NULL}) \ {g, y, far} : h2[n] = h[n]
  <2>1. h[far] + 1 \in Nat /\ h[g] \in Nat /\ h[y] \in Nat
    BY <1>1, <1>2, <1>3
  <2>2. h2 \in [T \cup {NULL} -> Nat]
    BY <1>5, <2>1
  <2>3. QED
    BY <1>1, <1>2, <1>3, <1>5, <2>2
<1> HIDE DEF c2, h2
<1>8. c[y] = "black"
  BY <1>1, <1>2, <1>3 DEF IsRed
<1>9. /\ h[g] = h[y] + Bk(c, g) /\ h[y] = h[L[g][1 - d]] + 1
      /\ h[y] = h[far] + 1 /\ h[y] = h[L[y][1 - d]] + 1
      /\ h[g] \in Nat /\ h[y] \in Nat /\ h[far] \in Nat /\ Bk(c, g) \in Nat
  <2>1. Bk(c, y) = 1 /\ Bk(c, g) \in Nat
    BY <1>8 DEF Bk
  <2>2. /\ h[g] = h[y] + Bk(c, g) /\ h[g] = h[L[g][1 - d]] + 1 + Bk(c, g)
        /\ h[y] = h[far] + 1 /\ h[y] = h[L[y][1 - d]] + 1
    BY <1>1, <1>2, <1>3, <2>1
  <2>3. /\ h[L[g][1 - d]] \in Nat /\ h[far] \in Nat /\ h[g] \in Nat /\ h[y] \in Nat
    BY <1>1, <1>2, <1>3
  <2>4. h[y] = h[L[g][1 - d]] + 1
    BY <2>1, <2>2, <2>3
  <2>5. QED
    BY <2>1, <2>2, <2>3, <2>4
<1>10. Fitting(L, T, g, d, y, c, h, c2, h2, NULL, 0)
  <2>1. /\ h2[L[y][1 - d]] = h[L[y][1 - d]] /\ h2[L[g][1 - d]] = h[L[g][1 - d]]
        /\ h[L[y][1 - d]] \in Nat /\ h[L[g][1 - d]] \in Nat
    BY <1>1, <1>2, <1>3, <1>7
  <2>2. /\ Bk(c2, g) = 1 /\ Bk(c2, y) = Bk(c, g) /\ Bk(c2, far) = 1 /\ Bk(c, far) = 0
        /\ \A n \in T \ {g, y, far} : Bk(c2, n) = Bk(c, n)
    BY <1>1, <1>6, SMTT(30) DEF Bk
  <2>3. h2[y] = h2[g] + Bk(c2, y) /\ h2[y] = h2[L[y][d]] + Bk(c2, y)
    BY <1>1, <1>7, <1>9, <2>2
  <2>4. /\ h2[g] = h2[L[y][1 - d]] + (IF g = NULL /\ d = 0 THEN 1 ELSE 0) + Bk(c2, g)
        /\ h2[g] = h2[L[g][1 - d]] + (IF g = NULL /\ 1 - d = 0 THEN 1 ELSE 0) + Bk(c2, g)
    <3>1. g # NULL
      BY <1>1, <1>2
    <3>2. QED
      BY <1>7, <1>9, <2>1, <2>2, <3>1
  <2>5. h2[y] = h[g]
    BY <1>7
  <2>6. ASSUME NEW n \in T \ {g, y}
        PROVE  /\ n # L[y][d] => h2[n] = h[n]
               /\ h2[n] + Bk(c, n) = h[n] + Bk(c2, n)
    <3>1. CASE n = far
      BY <1>1, <1>7, <1>9, <2>2, <3>1
    <3>2. CASE n # far
      BY <1>7, <2>2, <3>2
    <3>3. QED
      BY <3>1, <3>2, SMTT(30)
  <2>7. QED
    BY <1>7, <2>3, <2>4, <2>5, <2>6, SMTT(30) DEF Fitting
<1>11. Matching(L, T, g, d, y, c, c2, NULL, 0)
  <2>1. /\ \A n \in T \ {g, y} : c2[n] = c[n] \/ c2[n] = "black"
        /\ ~IsRed(c2, g) /\ ~IsRed(c2, far)
        /\ IsRed(c2, y) => IsRed(c, g)
    BY <1>1, <1>2, <1>6 DEF IsRed
  <2>2. QED
    BY <1>1, <2>1 DEF Matching
<1>12. IsTree(Rotate(L, a, b, g, d), D, T, Rotated(L, T, sub, g, d, y))
  BY <1>4, RotateTree
<1>13. Heights(Rotate(L, a, b, g, d), T, c2, h2, NULL, 0)
  <2>1. StaysOut(g, 1 - d, NULL, 0, {NULL, g, y}) /\ NULL # y
    BY <1>1 DEF StaysOut
  <2>2. QED
    BY <1>4, <1>5, <1>10, <2>1, RotateHeights
<1>14. Reds(Rotate(L, a, b, g, d), T, c2, NULL, 0, NULL)
  <2>1. StaysOut(g, 1 - d, NULL, 0, {NULL, g, y})
        /\ L[g][1 - d] \in T \cup {NULL} /\ ~IsRed(c, L[g][1 - d])
    BY <1>1, <1>2 DEF StaysOut
  <2>2. QED
    BY <1>4, <1>5, <1>11, <2>1, RotateReds
<1>15. Fit(Rotate(L, a, b, g, d), D, T, Rotated(L, T, sub, g, d, y), c2, h2,
           NULL, 0, NULL, NULL)
  BY <1>6, <1>12, <1>13, <1>14 DEF Fit
<1>16. QED
  BY <1>15 DEF c2

(* The stack is a path from the root to where the work is.                 *)
LEMMA StackFacts ==
  ASSUME IInv, doing # "nothing"
  PROVE  /\ Len(stack) \in Nat /\ 1 <= Len(stack)
         /\ IsPath(link, Tree, stack) /\ stack[1] = RootLink
         /\ Spot \in Above(Tree) /\ Way \in Sides
         /\ Len(stack) = 1 => Spot = Anchor /\ Way = 0
         /\ 2 <= Len(stack) =>
              /\ Spot \in Tree
              /\ stack[Len(stack) - 1] = [node |-> pa(2), side |-> da(2)]
              /\ pa(2) \in Above(Tree) /\ da(2) \in Sides /\ link[pa(2)][da(2)] = Spot
         /\ 3 <= Len(stack) =>
              /\ pa(2) \in Tree
              /\ stack[Len(stack) - 2] = [node |-> pa(3), side |-> da(3)]
              /\ pa(3) \in Above(Tree) /\ da(3) \in Sides /\ link[pa(3)][da(3)] = pa(2)
<1> USE DEF IInv
<1> DEFINE N == Len(stack)
<1>1. /\ N \in Nat \ {0} /\ stack[N] = Last(stack)
      /\ Spot = Last(stack).node /\ Way = Last(stack).side
      /\ Spot \in DOMAIN link /\ Way \in Sides
  BY TopFacts
<1>2. /\ DOMAIN link = Above(DOMAIN data) /\ Tree \subseteq DOMAIN data
      /\ NULL \notin DOMAIN data /\ Anchor \notin DOMAIN data
  BY TreeFacts
<1>3. stack \in Seq([node : DOMAIN link, side : Sides])
  BY DEF TypeOK
<1>4. \A i \in 1 .. N : /\ stack[i] \in [node : DOMAIN link, side : Sides]
                        /\ stack[i].node \in Above(Tree)
  <2>1. \A i \in 1 .. N : stack[i] \in [node : DOMAIN link, side : Sides]
    BY <1>3, ElementOfSeq
  <2>2. \A i \in 1 .. N : stack[i].node \in Above(Tree)
    BY DEF Linked, StackIsPath, Above
  <2>3. QED
    BY <2>1, <2>2
<1>5. \A i \in 1 .. N : stack[i] \in Links(Tree)
  BY <1>4 DEF Links
<1>6. stack \in Seq(Links(Tree))
  <2>1. stack \in [1 .. N -> Links(Tree)]
    BY <1>3, <1>5, LenProperties
  <2>2. QED
    BY <1>1, <2>1, IsASeq
<1>7. ASSUME NEW i \in 1 .. N - 1
      PROVE  link[stack[i].node][stack[i].side] = stack[i + 1].node /\ stack[i + 1].node \in Tree
  <2>1. i \in 1 .. N /\ i + 1 \in 1 .. N
    BY <1>1
  <2>2. link[stack[i].node][stack[i].side] = stack[i + 1].node
    BY DEF Linked, StackIsPath
  <2>3. stack[i].node \in DOMAIN link /\ stack[i].side \in Sides
    BY <1>4, <2>1
  <2>4. stack[i + 1].node \in Tree \cup {NULL}
    BY <2>2, <2>3 DEF Linked, NoLinkToRemoved
  <2>5. stack[i + 1].node \in Above(Tree)
    BY <1>4, <2>1
  <2>6. NULL # Anchor
    BY NodeFacts
  <2>7. QED
    BY <1>2, <2>2, <2>4, <2>5, <2>6, AboveFacts
<1>8. IsPath(link, Tree, stack)
  BY <1>6, <1>7 DEF IsPath
<1>9. stack[1] = RootLink /\ RootLink.node = Anchor /\ RootLink.side = 0
  <2>1. stack # << >>
    BY DEF TypeOK
  <2>2. QED
    BY <2>1 DEF Linked, StackIsPath, RootLink
<1>10. Spot \in Above(Tree)
  <2>1. N \in 1 .. N
    BY <1>1
  <2>2. QED
    BY <1>1, <1>4, <2>1
<1>11. N = 1 => Spot = Anchor /\ Way = 0
  BY <1>1, <1>9
<1>12. ASSUME 2 <= N
       PROVE  /\ Spot \in Tree
              /\ stack[N - 1] = [node |-> pa(2), side |-> da(2)]
              /\ pa(2) \in Above(Tree) /\ da(2) \in Sides /\ link[pa(2)][da(2)] = Spot
  <2>1. N - 1 \in 1 .. N - 1 /\ N - 1 \in 1 .. N /\ (N - 1) + 1 = N /\ N + 1 - 2 = N - 1
    BY <1>1, <1>12
  <2>2. pa(2) = stack[N - 1].node /\ da(2) = stack[N - 1].side
    BY <2>1 DEF pa, da
  <2>3. stack[N - 1] \in [node : DOMAIN link, side : Sides] /\ stack[N - 1].node \in Above(Tree)
    BY <1>4, <2>1
  <2>4. link[stack[N - 1].node][stack[N - 1].side] = stack[N].node /\ stack[N].node \in Tree
    BY <1>7, <2>1
  <2>5. QED
    BY <1>1, <2>2, <2>3, <2>4
<1>13. ASSUME 3 <= N
       PROVE  /\ pa(2) \in Tree
              /\ stack[N - 2] = [node |-> pa(3), side |-> da(3)]
              /\ pa(3) \in Above(Tree) /\ da(3) \in Sides /\ link[pa(3)][da(3)] = pa(2)
  <2>1. N - 2 \in 1 .. N - 1 /\ N - 2 \in 1 .. N /\ (N - 2) + 1 = N - 1 /\ N + 1 - 3 = N - 2
        /\ N + 1 - 2 = N - 1
    BY <1>1, <1>13
  <2>2. pa(3) = stack[N - 2].node /\ da(3) = stack[N - 2].side /\ pa(2) = stack[N - 1].node
    BY <2>1 DEF pa, da
  <2>3. stack[N - 2] \in [node : DOMAIN link, side : Sides] /\ stack[N - 2].node \in Above(Tree)
    BY <1>4, <2>1
  <2>4. link[stack[N - 2].node][stack[N - 2].side] = stack[N - 1].node
        /\ stack[N - 1].node \in Tree
    BY <1>7, <2>1
  <2>5. QED
    BY <2>2, <2>3, <2>4
<1>14. QED
  BY <1>1, <1>8, <1>9, <1>10, <1>11, <1>12, <1>13

(* The beginning of a path is a path.                                      *)
LEMMA ShorterPath ==
  ASSUME NEW L, NEW T, NEW path, IsPath(L, T, path), NEW k \in 1 .. Len(path)
  PROVE  /\ IsPath(L, T, SubSeq(path, 1, k)) /\ Len(SubSeq(path, 1, k)) = k
         /\ SubSeq(path, 1, k)[1] = path[1] /\ Last(SubSeq(path, 1, k)) = path[k]
<1>1. path \in Seq(Links(T)) /\ Len(path) \in Nat /\ 1 \in 1 .. Len(path) + 1
  BY DEF IsPath
<1> DEFINE s == SubSeq(path, 1, k)
<1>2. /\ s \in Seq(Links(T)) /\ Len(s) = k
      /\ \A i \in 1 .. k : s[i] = path[i]
  BY <1>1, SubSeqProperties
<1> HIDE DEF s
<1>3. ASSUME NEW i \in 1 .. k - 1
      PROVE  L[s[i].node][s[i].side] = s[i + 1].node /\ s[i + 1].node \in T
  <2>1. i \in 1 .. Len(path) - 1 /\ i \in 1 .. k /\ i + 1 \in 1 .. k
    BY <1>1
  <2>2. s[i] = path[i] /\ s[i + 1] = path[i + 1]
    BY <1>2, <2>1
  <2>3. QED
    BY <2>1, <2>2 DEF IsPath
<1>4. IsPath(L, T, s)
  BY <1>2, <1>3 DEF IsPath
<1>5. 1 \in 1 .. k /\ k \in 1 .. k
  BY <1>1
<1>6. QED
  BY <1>2, <1>4, <1>5 DEF s, Last

(* The invariant again, as the steps below establish it.                   *)
Consistent ==
  /\ data \in [DOMAIN data -> Volumes]
  /\ DOMAIN data \subseteq Prices /\ IsFiniteSet(DOMAIN data)
  /\ \E sub, h : Fit(link, DOMAIN data, Tree, sub, color, h, Spot, Way, Odd, GapNode)
  /\ \/ doing = "nothing" /\ stack = << >> /\ removed = NULL
     \/ /\ IsPath(link, Tree, stack) /\ stack # << >> /\ stack[1] = RootLink
        /\ \/ doing = "probe" /\ removed = NULL /\ IsRed(color, Found(stack))
           \/ doing = "delete" /\ removed \in DOMAIN data

(* It is enough.                                                           *)
LEMMA ConsistentInv ==
  Consistent => IInv
<1> SUFFICES ASSUME Consistent PROVE IInv
  OBVIOUS
<1>1. PICK sub, h : Fit(link, DOMAIN data, Tree, sub, color, h, Spot, Way, Odd, GapNode)
  BY DEF Consistent
<1>2. DOMAIN data \subseteq Nat \ {0} /\ NULL \notin DOMAIN data
  <2>1. DOMAIN data \subseteq Nat \ {0}
    BY PricesAssumption DEF Consistent
  <2>2. QED
    BY <2>1, NodeFacts
<1>3. /\ link \in [Above(DOMAIN data) -> [Sides -> Tree \cup {NULL}]]
      /\ color \in [DOMAIN data -> {"red", "black"}]
  BY <1>1 DEF Fit, IsTree, Colors
<1>4. link \in [DOMAIN data \cup {Anchor} -> [Sides -> DOMAIN data \cup {NULL}]]
  <2>1. Tree \cup {NULL} \subseteq DOMAIN data \cup {NULL}
    BY DEF Tree
  <2>2. QED
    BY <1>3, <2>1 DEF Above
<1>5. /\ stack \in Seq(Links(Tree)) /\ doing \in {"nothing", "probe", "delete"}
      /\ stack = << >> <=> doing = "nothing"
      /\ removed \in DOMAIN data \cup {NULL}
      /\ removed = NULL <=> doing # "delete"
  <2>1. << >> \in Seq(Links(Tree))
    OBVIOUS
  <2>2. QED
    BY <1>2, <2>1 DEF Consistent, IsPath
<1>6. stack \in Seq([node : DOMAIN link, side : Sides])
  <2>1. Links(Tree) \subseteq [node : DOMAIN link, side : Sides]
    <3>1. Above(Tree) \subseteq DOMAIN link
      BY <1>3 DEF Tree, Above
    <3>2. QED
      BY <3>1 DEF Links
  <2>2. QED
    BY <1>5, <2>1, SeqMonotonic
<1>7. TypeOK
  BY <1>3, <1>4, <1>5, <1>6 DEF TypeOK, Consistent
<1>8. StackIsPath
  <2>1. stack # << >> => stack[1] = RootLink
    BY DEF Consistent
  <2>2. ASSUME NEW i \in 1 .. Len(stack) PROVE stack[i].node \in Tree \cup {Anchor}
    BY <1>5, LinkFacts DEF Above
  <2>3. ASSUME NEW i \in 1 .. Len(stack) - 1
        PROVE  link[stack[i].node][stack[i].side] = stack[i + 1].node
    <3>1. stack # << >>
      <4>1. Len(<< >>) = 0
        OBVIOUS
      <4>2. QED
        BY <2>3, <4>1
    <3>2. IsPath(link, Tree, stack)
      BY <3>1 DEF Consistent
    <3>3. QED
      BY <3>2 DEF IsPath
  <2>4. doing = "probe" => Found(stack) # NULL /\ Red(Found(stack))
    <3>1. doing = "probe" => IsRed(color, Found(stack))
      BY DEF Consistent
    <3>2. QED
      BY <3>1 DEF IsRed, Red
  <2>5. QED
    BY <1>5, <2>1, <2>2, <2>3, <2>4 DEF StackIsPath
<1>9. QED
  BY <1>1, <1>7, <1>8, FitsInv DEF Fits

(* And so it is after a step.                                              *)
LEMMA ConsistentAfter ==
  Consistent' => IInv'
<1>1. (Consistent => IInv)'
  BY ConsistentInv, PTL
<1>2. QED
  BY <1>1

(* What a step starts from.                                                *)
LEMMA Start ==
  ASSUME IInv
  PROVE  /\ TypeOK
         /\ \E sub, h : Fit(link, DOMAIN data, Tree, sub, color, h, Spot, Way, Odd, GapNode)
         /\ link \in [Above(DOMAIN data) -> [Sides -> Tree \cup {NULL}]]
         /\ doing # "delete" => Tree = DOMAIN data /\ removed = NULL
         /\ doing = "delete" => removed \in DOMAIN data /\ Tree = DOMAIN data \ {removed}
<1> USE DEF IInv
<1>1. PICK sub, h : Fit(link, DOMAIN data, Tree, sub, color, h, Spot, Way, Odd, GapNode)
  BY InvFits DEF Fits
<1>2. link \in [Above(DOMAIN data) -> [Sides -> Tree \cup {NULL}]]
  BY <1>1 DEF Fit, IsTree
<1>3. removed = NULL <=> doing # "delete"
  BY DEF Linked, StackIsPath
<1>4. removed \in DOMAIN data \cup {NULL} /\ NULL \notin DOMAIN data
  BY TreeFacts DEF TypeOK
<1>5. QED
  BY <1>1, <1>2, <1>3, <1>4 DEF Tree

-----------------------------------------------------------------------------
(* The rebalancing after an insertion.                                     *)
LEMMA ProbeRecolorKeeps ==
  ASSUME IInv, ProbeRecolor
  PROVE  IInv'
<1> DEFINE D == DOMAIN data
           p == pa(1)
           g == pa(2)
           d == da(2)
           u == Uncle
           N == Len(stack)
           c2 == UncleColors(color, p, u, g)
<1>1. /\ doing = "probe" /\ 3 <= N /\ IsRed(color, p) /\ IsRed(color, u)
      /\ color' = c2 /\ stack' = SubSeq(stack, 1, N - 2)
      /\ link' = link /\ data' = data /\ doing' = doing /\ removed' = removed
  BY DEF ProbeRecolor, ParentRed, Red, IsRed, UncleColors
<1>2. /\ TypeOK /\ Tree = D /\ removed = NULL
      /\ link \in [Above(D) -> [Sides -> Tree \cup {NULL}]]
  BY <1>1, Start
<1>3. PICK sub, h : Fit(link, D, Tree, sub, color, h, Spot, Way, Odd, GapNode)
  BY Start
<1>4. Odd = NULL /\ GapNode = NULL /\ p = Spot /\ u = link[g][1 - d]
  BY <1>1, <1>2, TopFacts DEF Odd, GapNode, Uncle
<1>5. /\ N \in Nat /\ IsPath(link, Tree, stack) /\ stack[1] = RootLink
      /\ p \in Tree /\ Way \in Sides /\ link[g][d] = p
      /\ g \in Tree /\ d \in Sides
      /\ stack[N - 2] = [node |-> pa(3), side |-> da(3)]
      /\ pa(3) \in Above(Tree) /\ da(3) \in Sides /\ link[pa(3)][da(3)] = g
  BY <1>1, <1>4, StackFacts
<1> HIDE DEF p, g, d, u
<1>6. CanRecolor(link, D, Tree, sub, color, h, p, Way, g, d, u, pa(3), da(3))
  <2>1. /\ IsTree(link, D, Tree, sub) /\ color \in [D -> Colors]
        /\ Heights(link, Tree, color, h, NULL, Way)
        /\ Reds(link, Tree, color, p, Way, NULL)
    BY <1>3, <1>4 DEF Fit
  <2>2. h \in [Tree \cup {NULL} -> Nat] /\ Heights(link, Tree, color, h, NULL, 0)
    BY <1>2, <2>1, TreeFacts DEF Heights
  <2>3. QED
    BY <1>1, <1>4, <1>5, <2>1, <2>2 DEF CanRecolor, Painted
<1>7. PICK h2 : /\ Heights(link, Tree, c2, h2, NULL, 0)
                /\ Reds(link, Tree, c2, pa(3), da(3), NULL)
  BY <1>6, RecolorUncle
<1>8. c2 \in [D -> Colors] /\ c2[g] = "red"
  BY <1>2, <1>5 DEF Colors, TypeOK, UncleColors
<1>9. Heights(link, Tree, c2, h2, NULL, da(3)) /\ IsTree(link, D, Tree, sub)
  BY <1>2, <1>3, <1>7, TreeFacts DEF Heights, Fit
<1>10. Fit(link, D, Tree, sub, c2, h2, pa(3), da(3), NULL, NULL)
  BY <1>7, <1>8, <1>9 DEF Fit
<1> HIDE DEF c2
<1>11. /\ IsPath(link, Tree, stack') /\ stack' # << >> /\ stack'[1] = RootLink
       /\ Last(stack') = [node |-> pa(3), side |-> da(3)]
  <2> HIDE DEF N
  <2>1. N - 2 \in 1 .. N /\ N - 2 # 0
    BY <1>1, <1>5
  <2>2. /\ IsPath(link, Tree, stack') /\ Len(stack') = N - 2
        /\ stack'[1] = stack[1] /\ Last(stack') = stack[N - 2]
    BY <1>1, <1>5, <2>1, ShorterPath DEF N
  <2>3. Len(<< >>) = 0
    OBVIOUS
  <2>4. QED
    BY <1>5, <2>1, <2>2, <2>3
<1>12. Consistent'
  <2>1. Tree' = Tree /\ (DOMAIN data)' = D
    BY <1>1 DEF Tree
  <2>2. Spot' = pa(3) /\ Way' = da(3) /\ Odd' = NULL /\ GapNode' = NULL
    BY <1>1, <1>11 DEF Spot, Way, Odd, GapNode
  <2>3. IsRed(color', Found(stack)')
    <3>1. Found(stack)' = g
      BY <1>1, <1>5, <1>11 DEF Found, To
    <3>2. QED
      BY <1>1, <1>2, <1>5, <1>8, <3>1, TreeFacts DEF IsRed
  <2>4. \E s, k : Fit(link', (DOMAIN data)', Tree', s, color', k, Spot', Way', Odd', GapNode')
    BY <1>1, <1>10, <2>1, <2>2
  <2>5. data' \in [(DOMAIN data)' -> Volumes] /\ (DOMAIN data)' \subseteq Prices
        /\ IsFiniteSet((DOMAIN data)')
    BY <1>1, <1>2 DEF TypeOK
  <2>6. IsPath(link', Tree', stack')
    BY <1>1, <1>11, <2>1
  <2>7. QED
    BY <1>1, <1>2, <1>11, <2>3, <2>4, <2>5, <2>6 DEF Consistent
<1>13. QED
  BY <1>12, ConsistentAfter

(* The end of an operation: the loop is left with everything in order.     *)
LEMMA AtRest ==
  ASSUME TypeOK, doing' = "nothing", stack' = << >>, removed' = NULL,
         NEW D2, DOMAIN data' = D2, D2 \subseteq DOMAIN data,
         data' \in [D2 -> Volumes],
         NEW sub, NEW h, Fit(link', D2, D2, sub, color', h, NULL, 0, NULL, NULL)
  PROVE  IInv'
<1>1. /\ D2 \subseteq Prices /\ IsFiniteSet(D2) /\ NULL \notin D2
  BY FS_Subset, TreeFacts DEF TypeOK
<1>2. Tree' = D2
  BY <1>1 DEF Tree
<1>3. Spot' = NULL /\ Way' = 0 /\ Odd' = NULL /\ GapNode' = NULL
  BY DEF Spot, Way, Odd, GapNode
<1>4. Fit(link', (DOMAIN data)', Tree', sub, color', h, Spot', Way', Odd', GapNode')
  BY <1>2, <1>3
<1>5. Consistent'
  BY <1>1, <1>4 DEF Consistent
<1>6. QED
  BY <1>5, ConsistentAfter

(* Weaker exceptions, and those that do not apply.                         *)
LEMMA NoException ==
  ASSUME NEW L, NEW D, NEW T, NEW sub, NEW c, NEW h, NEW spot, NEW way, NEW odd,
         NEW gapNode, Fit(L, D, T, sub, c, h, spot, way, odd, gapNode),
         gapNode \notin T, odd = NULL \/ ~IsRed(c, odd), odd # Anchor, way \in Sides,
         ~((spot = Anchor \/ IsRed(c, spot)) /\ IsRed(c, L[spot][way]))
  PROVE  Fit(L, D, T, sub, c, h, NULL, 0, NULL, NULL)
<1>1. NULL \notin T /\ Anchor \notin T /\ NULL # Anchor
  BY TreeLinks, NodeFacts DEF Fit
<1>2. Heights(L, T, c, h, NULL, 0)
  <2>1. h \in [T \cup {NULL} -> Nat] /\ h[NULL] = 0
    BY DEF Fit, Heights
  <2>2. ASSUME NEW n \in T, NEW d \in Sides
        PROVE  h[n] = h[L[n][d]] + (IF n = NULL /\ d = 0 THEN 1 ELSE 0) + Bk(c, n)
    <3>1. h[n] = h[L[n][d]] + (IF n = gapNode /\ d = way THEN 1 ELSE 0) + Bk(c, n)
      BY DEF Fit, Heights
    <3>2. n # gapNode /\ n # NULL
      BY <1>1
    <3>3. QED
      BY <3>1, <3>2
  <2>3. QED
    BY <2>1, <2>2 DEF Heights
<1>3. Reds(L, T, c, NULL, 0, NULL)
  <2> SUFFICES ASSUME NEW n \in Above(T), NEW d \in Sides,
                      n = Anchor \/ IsRed(c, n), IsRed(c, L[n][d])
               PROVE  FALSE
    BY DEF Reds
  <2>1. (n = spot /\ d = way) \/ n = odd
    BY DEF Fit, Reds
  <2>2. n # odd
    BY <1>1, AboveFacts
  <2>3. QED
    BY <2>1, <2>2
<1>4. QED
  BY <1>2, <1>3 DEF Fit

(* The end of the loop without a rotation: the parent is black or the      *)
(* root, so painting the root settles it.                                  *)
LEMMA ProbeDoneKeeps ==
  ASSUME IInv, ProbeDone
  PROVE  IInv'
<1> DEFINE D == DOMAIN data
           N == Len(stack)
           r == link[Anchor][0]
           c2 == Blackened(color, r)
<1>1. /\ doing = "probe" /\ ~(3 <= N /\ IsRed(color, pa(1)))
      /\ color' = c2 /\ stack' = << >>
      /\ link' = link /\ data' = data /\ doing' = "nothing" /\ removed' = removed
  BY StackFacts DEF ProbeDone, ParentRed, Red, IsRed, Blackened
<1>2. /\ TypeOK /\ Tree = D /\ removed = NULL
      /\ link \in [Above(D) -> [Sides -> Tree \cup {NULL}]]
  BY <1>1, Start
<1>3. PICK sub, h : Fit(link, D, Tree, sub, color, h, Spot, Way, Odd, GapNode)
  BY Start
<1>4. Odd = NULL /\ GapNode = NULL /\ pa(1) = Spot
  BY <1>1, <1>2, TopFacts DEF Odd, GapNode
<1>5. /\ N \in Nat /\ 1 <= N /\ Spot \in Above(Tree) /\ Way \in Sides
      /\ N = 1 => Spot = Anchor /\ Way = 0
      /\ 2 <= N => Spot \in Tree
      /\ stack[1] = RootLink /\ IsPath(link, Tree, stack)
  BY <1>1, StackFacts
<1>N. N = 1 \/ N = 2 \/ 3 <= N
  <2> HIDE DEF N
  <2>1. QED
    BY <1>5
<1>6. /\ Anchor \in Above(D) /\ 0 \in Sides /\ r \in D \cup {NULL} /\ NULL \notin D
      /\ Anchor \notin D /\ NULL # Anchor
  BY <1>2, AboveFacts, TreeFacts, NodeFacts DEF Sides
<1>7. IsRed(color, link[Spot][Way])
  <2>1. Found(stack) = x /\ x = link[Spot][Way]
    BY <1>1, <1>2, TopFacts
  <2>2. QED
    BY <1>1, <2>1 DEF IInv, Linked, StackIsPath, Red, IsRed
<1>8. \E h2 : Fit(link, D, D, sub, c2, h2, NULL, 0, NULL, NULL)
  <2>1. CASE N = 1
    <3>1. CanPaint(link, D, Tree, sub, color, h, Anchor, 0, NULL, 0, NULL)
      BY <1>2, <1>3, <1>4, <1>5, <1>6, <1>7, <2>1 DEF Fit, CanPaint, Painted, Heights
    <3>2. PICK h2 : Heights(link, Tree, c2, h2, NULL, 0) /\ Reds(link, Tree, c2, NULL, 0, NULL)
      BY <3>1, PaintBlack
    <3>3. c2 \in [D -> Colors] /\ IsTree(link, D, Tree, sub)
      BY <1>2, <1>3 DEF Fit, Colors, Blackened
    <3>4. QED
      BY <1>2, <3>2, <3>3 DEF Fit
  <2>2. CASE N = 2 \/ 3 <= N
    <3>0. 2 <= N
      <4> HIDE DEF N
      <4>1. QED
        BY <1>5, <2>2
    <3>1. Spot # Anchor
      BY <3>0, <1>2, <1>5, <1>6, <2>2
    <3>2. ~IsRed(color, r)
      BY <1>2, <1>3, <1>4, <1>6, <3>1 DEF Fit, Reds
    <3>3. ~IsRed(color, Spot)
      <4>1. CASE N = 2
        <5>1. 1 \in 1 .. N - 1 /\ stack[2] = Last(stack)
          BY <4>1 DEF Last
        <5>2. link[stack[1].node][stack[1].side] = stack[2].node
          BY <1>5, <5>1 DEF IsPath
        <5>3. Spot = r
          BY <1>1, <1>2, <1>5, <5>1, <5>2, TopFacts DEF RootLink
        <5>4. QED
          BY <3>2, <5>3
      <4>2. CASE 3 <= N
        BY <1>1, <1>4, <4>2
      <4>3. QED
        <5> HIDE DEF N
        <5>1. QED
          BY <2>2, <4>1, <4>2
    <3>4. Fit(link, D, Tree, sub, color, h, NULL, 0, NULL, NULL)
      BY <1>2, <1>3, <1>4, <1>5, <1>6, <3>1, <3>3, NoException
    <3>5. c2 = color
      BY <1>2, <1>6, <3>2 DEF Blackened, IsRed, TypeOK
    <3>6. QED
      BY <1>2, <3>4, <3>5
  <2>3. QED
    BY <1>N, <2>1, <2>2
<1>9. PICK h2 : Fit(link, D, D, sub, c2, h2, NULL, 0, NULL, NULL)
  BY <1>8
<1> HIDE DEF c2
<1>10. data' \in [D -> Volumes] /\ DOMAIN data' = D /\ removed' = NULL
  BY <1>1, <1>2 DEF TypeOK
<1>11. Fit(link', D, D, sub, color', h2, NULL, 0, NULL, NULL)
  BY <1>1, <1>9
<1> HIDE DEF D
<1>12. QED
  BY <1>1, <1>2, <1>10, <1>11, AtRest DEF D

(* A root that is black stays so when rb_probe paints it.                  *)
LEMMA RootIsBlack ==
  ASSUME NEW L, NEW D, NEW T, NEW sub, NEW c, NEW h,
         Fit(L, D, T, sub, c, h, NULL, 0, NULL, NULL)
  PROVE  Blackened(c, L[Anchor][0]) = c
<1> DEFINE r == L[Anchor][0]
<1>1. /\ IsTree(L, D, T, sub) /\ c \in [D -> Colors] /\ T \subseteq D
      /\ Anchor \in Above(T) /\ 0 \in Sides /\ NULL # Anchor
  BY AboveFacts, TreeLinks, NodeFacts DEF Fit, Sides
<1>2. r \in T \cup {NULL} /\ ~IsRed(c, r) /\ NULL \notin D
  <2>0. NULL \notin D
    <3>1. D \subseteq Nat \ {0}
      BY <1>1 DEF IsTree
    <3>2. QED
      BY <3>1, NodeFacts
  <2>1. r \in T \cup {NULL}
    BY <1>1, TreeLinks
  <2>2. Reds(L, T, c, NULL, 0, NULL)
    BY DEF Fit
  <2>3. ~IsRed(c, r)
    BY <1>1, <2>2 DEF Reds
  <2>4. QED
    BY <2>0, <2>1, <2>3
<1>3. r \in D => c[r] = "black"
  BY <1>1, <1>2 DEF IsRed, Colors
<1> HIDE DEF r
<1>4. [c EXCEPT ![r] = "black"] = c
  BY <1>1, <1>3
<1>5. QED
  BY <1>4 DEF Blackened, r

(* The turn with the one or two rotations ends in order.                   *)
LEMMA ProbeRotateKeeps ==
  ASSUME IInv, ProbeRotate
  PROVE  IInv'
<1> DEFINE D == DOMAIN data
           N == Len(stack)
           p == pa(1)
           g == pa(2)
           d == da(2)
           a == pa(3)
           b == da(3)
           straight == IF da(1) = d THEN link ELSE Rotate(link, g, d, p, 1 - d)
           y == straight[g][d]
           c2 == OutColors(color, g, y)
<1>1. /\ doing = "probe" /\ 3 <= N /\ IsRed(color, p) /\ ~IsRed(color, Uncle)
      /\ link' = Rotate(straight, a, b, g, d)
      /\ color' = Blackened(c2, link'[Anchor][0])
      /\ stack' = << >> /\ data' = data /\ doing' = "nothing" /\ removed' = removed
  BY DEF ProbeRotate, ParentRed, Red, IsRed, Blackened, OutColors
<1>2. /\ TypeOK /\ Tree = D /\ removed = NULL
      /\ link \in [Above(D) -> [Sides -> Tree \cup {NULL}]]
  BY <1>1, Start
<1>3. PICK sub, h : Fit(link, D, Tree, sub, color, h, Spot, Way, Odd, GapNode)
  BY Start
<1>4. Odd = NULL /\ GapNode = NULL /\ p = Spot /\ da(1) = Way /\ Uncle = link[g][1 - d]
  BY <1>1, <1>2, TopFacts DEF Odd, GapNode, Uncle
<1>5. /\ N \in Nat /\ p \in Tree /\ Way \in Sides /\ link[g][d] = p
      /\ g \in Tree /\ d \in Sides
      /\ a \in Above(Tree) /\ b \in Sides /\ link[a][b] = g
  BY <1>1, <1>4, StackFacts
<1>6. IsRed(color, link[p][Way])
  <2>1. Found(stack) = x /\ x = link[Spot][Way]
    BY <1>1, <1>2, TopFacts
  <2>2. QED
    BY <1>1, <1>4, <2>1 DEF IInv, Linked, StackIsPath, Red, IsRed
<1>7. \E s, k : CanTurnOut(straight, D, Tree, s, color, k, g, d, y, a, b)
  <2>1. CASE Way = d
    <3>1. straight = link /\ y = p
      BY <1>4, <1>5, <2>1
    <3>2. CanTurnOut(link, D, Tree, sub, color, h, g, d, p, a, b)
      BY <1>1, <1>3, <1>4, <1>5, <2>1 DEF CanTurnOut
    <3>3. QED
      BY <3>1, <3>2
  <2>2. CASE Way # d
    <3> DEFINE q == link[p][1 - d]
               L == Rotate(link, g, d, p, 1 - d)
    <3>1. straight = L /\ Way = 1 - d
      BY <1>4, <1>5, <2>2, SideFacts
    <3>2. CanTurnIn(link, D, Tree, sub, color, h, g, d, p, q)
      BY <1>1, <1>3, <1>4, <1>5, <1>6, <3>1 DEF CanTurnIn
    <3>3. PICK s, k : Fit(L, D, Tree, s, color, k, q, d, NULL, NULL)
      BY <3>2, TurnIn
    <3>4. IsTree(link, D, Tree, sub) /\ q \in Tree /\ q # NULL /\ 1 - d \in Sides
          /\ 1 - d # d
      <4>1. IsTree(link, D, Tree, sub) /\ 1 - d \in Sides /\ 1 - d # d
        BY <1>3, <1>5, SideFacts DEF Fit
      <4>2. QED
        BY <1>4, <1>5, <1>6, <3>1, <4>1, TreeLinks DEF IsRed
    <3>5. CanRotate(link, D, Tree, sub, p, 1 - d, q, g, d)
      BY <1>5, <3>4, TreeLinks DEF CanRotate
    <3>6. /\ q # p /\ g # p /\ g # q /\ LinksRotated(L, link, D, p, 1 - d, q, g, d)
      BY <3>5, RotateLinks
    <3>7. /\ L[g][d] = q
          /\ \A n \in Above(D), e \in Sides :
               (n = p => e # 1 - d) /\ (n = q => e # 1 - (1 - d)) /\ (n = g => e # d)
                 => L[n][e] = link[n][e]
      BY <3>6 DEF LinksRotated
    <3>8. L[g][1 - d] = link[g][1 - d]
      BY <1>2, <1>5, <3>4, <3>6, <3>7, AboveFacts
    <3>9. L[a][b] = g
      <4>1. a # p
        <5>1. a # g /\ (a = p => g \in sub[p] /\ p \in sub[g])
          BY <1>5, <3>4, ChildFacts, TreeLinks
        <5>2. a = p => p \notin sub[link[p][b]]
          BY <1>5, <3>4, ChildFacts
        <5>3. QED
          BY <1>5, <3>4, <5>1, <5>2, ChildFacts
      <4>2. a # g
        BY <1>5, <3>4, ChildFacts
      <4>3. a # q
        <5>1. ASSUME a = q PROVE g \in sub[q]
          <6>1. link[q][b] = g /\ g # NULL
            BY <1>5, <3>4, <5>1, TreeLinks
          <6>2. g \in sub[link[q][b]] /\ sub[link[q][b]] \subseteq sub[q]
            BY <1>5, <3>4, <6>1, ChildFacts
          <6>3. QED
            BY <6>2
        <5>2. sub[q] \subseteq sub[p] /\ g \notin sub[p]
          BY <1>5, <3>4, ChildFacts
        <5>3. QED
          BY <5>1, <5>2
      <4>4. a \in Above(D)
        BY <1>2, <1>5
      <4>5. QED
        BY <1>5, <3>7, <4>1, <4>2, <4>3, <4>4
    <3> HIDE DEF L, q
    <3>10. CanTurnOut(L, D, Tree, s, color, k, g, d, q, a, b)
      BY <1>1, <1>4, <1>5, <1>6, <3>1, <3>3, <3>7, <3>8, <3>9 DEF CanTurnOut, q
    <3>11. QED
      BY <3>1, <3>7, <3>10
  <2>3. QED
    BY <2>1, <2>2
<1> HIDE DEF straight, y
<1>8. PICK s, k : Fit(link', D, Tree, s, c2, k, NULL, 0, NULL, NULL)
  BY <1>1, <1>7, TurnOut
<1>9. color' = c2
  BY <1>1, <1>8, RootIsBlack
<1> HIDE DEF c2
<1>10. data' \in [D -> Volumes] /\ DOMAIN data' = D /\ removed' = NULL
  BY <1>1, <1>2 DEF TypeOK
<1>11. Fit(link', D, D, s, color', k, NULL, 0, NULL, NULL)
  BY <1>2, <1>8, <1>9
<1> HIDE DEF D
<1>12. QED
  BY <1>1, <1>2, <1>10, <1>11, AtRest DEF D

(* Freeing the node that a deletion has taken out disturbs nothing.        *)
LEMMA FreedFit ==
  ASSUME NEW L, NEW D, NEW p \in D, NEW sub, NEW c, NEW h,
         Fit(L, D, D \ {p}, sub, c, h, NULL, 0, NULL, NULL)
  PROVE  Fit(Freed(L, p), D \ {p}, D \ {p}, sub, Freed(c, p), h, NULL, 0, NULL, NULL)
<1> DEFINE T == D \ {p}
           L2 == Freed(L, p)
           c2 == Freed(c, p)
<1>1. /\ IsTree(L, D, T, sub) /\ c \in [D -> Colors]
      /\ Heights(L, T, c, h, NULL, 0) /\ Reds(L, T, c, NULL, 0, NULL)
  BY DEF Fit
<1>2. /\ IsTree(L2, T, T, sub)
      /\ \A n \in Above(T) : L2[n] = L[n]
  BY <1>1, FreedTree
<1>3. c2 \in [T -> Colors] /\ \A n \in T : c2[n] = c[n]
  BY <1>1 DEF Freed, Restrict
<1> HIDE DEF T, L2, c2
<1>4. SameColors(L, T, c, L2, c2)
  BY <1>2, <1>3 DEF SameColors
<1>5. Heights(L2, T, c2, h, NULL, 0) /\ Reds(L2, T, c2, NULL, 0, NULL)
  BY <1>1, <1>4, SameColorsFit
<1>6. Fit(L2, T, T, sub, c2, h, NULL, 0, NULL, NULL)
  BY <1>2, <1>3, <1>5 DEF Fit
<1>7. QED
  BY <1>6 DEF T, L2, c2

(* The end of a deletion.                                                  *)
LEMMA FinishKeeps ==
  ASSUME IInv, doing = "delete", NEW L, NEW c, Finish(L, c),
         NEW sub, NEW h, Fit(L, DOMAIN data, Tree, sub, c, h, NULL, 0, NULL, NULL)
  PROVE  IInv'
<1> DEFINE D == DOMAIN data
           D2 == D \ {removed}
<1>1. /\ link' = Freed(L, removed) /\ color' = Freed(c, removed)
      /\ data' = Freed(data, removed)
      /\ doing' = "nothing" /\ stack' = << >> /\ removed' = NULL
  BY DEF Finish
<1>2. TypeOK /\ removed \in D /\ Tree = D2
  BY Start
<1>3. Fit(link', D2, D2, sub, color', h, NULL, 0, NULL, NULL)
  BY <1>1, <1>2, FreedFit
<1>4. data' \in [D2 -> Volumes] /\ DOMAIN data' = D2 /\ D2 \subseteq D
  BY <1>1, <1>2 DEF TypeOK, Freed, Restrict
<1> HIDE DEF D, D2
<1>5. QED
  BY <1>1, <1>2, <1>3, <1>4, AtRest DEF D

(* Where a deletion's loop is.                                             *)
LEMMA AtGap ==
  ASSUME IInv, doing = "delete"
  PROVE  /\ TypeOK /\ removed \in DOMAIN data /\ Tree = DOMAIN data \ {removed}
         /\ Tree \subseteq DOMAIN data /\ NULL \notin DOMAIN data
         /\ link \in [Above(DOMAIN data) -> [Sides -> Tree \cup {NULL}]]
         /\ pa(1) = Spot /\ da(1) = Way /\ x = link[Spot][Way] /\ w = link[Spot][1 - Way]
         /\ Spot \in Above(Tree) /\ Way \in Sides
         /\ Len(stack) = 1 => Spot = Anchor /\ Way = 0
         /\ 2 <= Len(stack) =>
              /\ Spot \in Tree
              /\ pa(2) \in Above(Tree) /\ da(2) \in Sides /\ link[pa(2)][da(2)] = Spot
         /\ Len(stack) \in Nat /\ 1 <= Len(stack)
         /\ IsPath(link, Tree, stack) /\ stack[1] = RootLink
         /\ \E sub, h : Fit(link, DOMAIN data, Tree, sub, color, h, Spot, Way, x, Spot)
<1>1. /\ TypeOK /\ removed \in DOMAIN data /\ Tree = DOMAIN data \ {removed}
      /\ link \in [Above(DOMAIN data) -> [Sides -> Tree \cup {NULL}]]
  BY Start
<1>2. Odd = x /\ GapNode = Spot
  BY DEF Odd, GapNode, Spot
<1>3. \E sub, h : Fit(link, DOMAIN data, Tree, sub, color, h, Spot, Way, x, Spot)
  BY <1>2, Start
<1>4. /\ pa(1) = Spot /\ da(1) = Way /\ x = link[Spot][Way] /\ w = link[Spot][1 - Way]
  BY <1>1, TopFacts
<1>5. NULL \notin DOMAIN data
  BY <1>1, TreeFacts
<1>6. QED
  BY <1>1, <1>3, <1>4, <1>5, StackFacts

(* The loop of the deletion ends at the root or at a red node, which is    *)
(* painted black.                                                          *)
LEMMA DeleteDoneKeeps ==
  ASSUME IInv, DeleteDone
  PROVE  IInv'
<1> DEFINE D == DOMAIN data
           c2 == IF Red(x) THEN Blackened(color, x) ELSE color
<1>1. /\ doing = "delete" /\ (IsRed(color, x) \/ ~(2 <= Len(stack)))
      /\ Finish(link, c2)
  BY AtGap DEF DeleteDone, Missing, Red, IsRed, Blackened
<1>2. /\ Tree \subseteq D /\ NULL \notin D /\ x = link[Spot][Way]
      /\ Spot \in Above(Tree) /\ Way \in Sides
      /\ Len(stack) = 1 => Spot = Anchor /\ Way = 0
      /\ Len(stack) \in Nat /\ 1 <= Len(stack)
  BY <1>1, AtGap
<1>3. PICK sub, h : Fit(link, D, Tree, sub, color, h, Spot, Way, x, Spot)
  BY <1>1, AtGap
<1>4. CASE IsRed(color, x)
  <2>1. c2 = Blackened(color, x)
    BY <1>4 DEF Red, IsRed
  <2>2. CanPaint(link, D, Tree, sub, color, h, Spot, Way, Spot, Way, x)
    BY <1>2, <1>3, <1>4 DEF Fit, CanPaint, Painted, Heights
  <2>3. PICK h2 : /\ Heights(link, Tree, Blackened(color, x), h2, NULL, 0)
                  /\ Reds(link, Tree, Blackened(color, x), NULL, 0, NULL)
    BY <1>2, <2>2, PaintBlack
  <2>4. Blackened(color, x) \in [D -> Colors] /\ IsTree(link, D, Tree, sub)
    BY <1>3 DEF Fit, Colors, Blackened
  <2>5. Fit(link, D, Tree, sub, c2, h2, NULL, 0, NULL, NULL)
    BY <2>1, <2>3, <2>4 DEF Fit
  <2> HIDE DEF c2
  <2>6. QED
    BY <1>1, <2>5, FinishKeeps
<1>5. CASE ~IsRed(color, x)
  <2>1. c2 = color /\ Spot = Anchor
    BY <1>1, <1>2, <1>5 DEF Red, IsRed
  <2>2. Anchor \notin Tree /\ x # Anchor
    <3>1. IsTree(link, D, Tree, sub)
      BY <1>3 DEF Fit
    <3>2. Anchor \notin Tree /\ x \in Tree \cup {NULL}
      BY <1>2, <3>1, TreeLinks
    <3>3. QED
      BY <3>2, NodeFacts
  <2>3. Fit(link, D, Tree, sub, color, h, NULL, 0, NULL, NULL)
    BY <1>2, <1>3, <1>5, <2>1, <2>2, NoException
  <2> HIDE DEF c2
  <2>4. QED
    BY <1>1, <2>1, <2>3, FinishKeeps
<1>6. QED
  BY <1>4, <1>5

(* The node below the last link of the stack.                              *)
LEMMA LinkOfTop ==
  Len(stack) \in Nat => x = link[Last(stack).node][Last(stack).side]
<1> SUFFICES ASSUME Len(stack) \in Nat
             PROVE  x = link[Last(stack).node][Last(stack).side]
  OBVIOUS
<1>1. Len(stack) + 1 - 1 = Len(stack)
  OBVIOUS
<1>2. QED
  BY <1>1 DEF x, pa, da, Last

(* A turn of a deletion's loop that is not its last.                       *)
LEMMA DeleteGoesOn ==
  ASSUME IInv, doing = "delete", data' = data, doing' = "delete", removed' = removed,
         stack' # << >>, stack'[1] = RootLink, IsPath(link', Tree, stack'),
         NEW g, NEW d, Last(stack') = [node |-> g, side |-> d],
         NEW sub, NEW h,
         Fit(link', DOMAIN data, Tree, sub, color', h, g, d, link'[g][d], g)
  PROVE  IInv'
<1>1. TypeOK /\ removed \in DOMAIN data
  BY Start
<1>2. Tree' = Tree /\ DOMAIN data' = DOMAIN data
  BY DEF Tree
<1>3. Spot' = g /\ Way' = d /\ GapNode' = g
  BY DEF Spot, Way, GapNode
<1>4. Odd' = link'[g][d]
  <2>1. (Len(stack) \in Nat => x = link[Last(stack).node][Last(stack).side])'
    BY LinkOfTop, PTL
  <2>2. Len(stack') \in Nat
    BY LenProperties DEF IsPath
  <2>3. QED
    BY <2>1, <2>2 DEF Odd
<1>5. Fit(link', (DOMAIN data)', Tree', sub, color', h, Spot', Way', Odd', GapNode')
  BY <1>2, <1>3, <1>4
<1>6. IsPath(link', Tree', stack') /\ removed' \in DOMAIN data'
  BY <1>1, <1>2
<1>7. data' \in [DOMAIN data' -> Volumes] /\ DOMAIN data' \subseteq Prices
      /\ IsFiniteSet(DOMAIN data')
  BY <1>1 DEF TypeOK
<1>8. Consistent'
  BY <1>5, <1>6, <1>7 DEF Consistent
<1>9. QED
  BY <1>8, ConsistentAfter

(* A node that is not above the end of a path is not on it.                *)
LEMMA OffPath ==
  ASSUME NEW L, NEW D, NEW T, NEW sub, IsTree(L, D, T, sub),
         NEW path, IsPath(L, T, path), NEW m \in T, path[Len(path)].node \notin sub[m]
  PROVE  \A i \in 1 .. Len(path) : path[i].node # m
<1> SUFFICES ASSUME NEW i \in 1 .. Len(path), path[i].node = m PROVE FALSE
  OBVIOUS
<1>1. path \in Seq(Links(T)) /\ Len(path) \in Nat
  BY LenProperties DEF IsPath
<1>2. path[i].side \in Sides
  BY <1>1, LinkFacts
<1>3. CASE i = Len(path)
  BY <1>3, ChildFacts
<1>4. CASE i # Len(path)
  <2>1. Len(path) \in 1 .. Len(path) /\ i < Len(path)
    BY <1>1, <1>4
  <2>2. path[Len(path)].node \in sub[L[m][path[i].side]]
    BY <2>1, PathBelow
  <2>3. QED
    BY <1>2, <2>2, ChildFacts
<1>5. QED
  BY <1>3, <1>4

(* The gap moves one level up, with the stack.                             *)
LEMMA DeleteRecolorKeeps ==
  ASSUME IInv, DeleteRecolor
  PROVE  IInv'
<1> DEFINE D == DOMAIN data
           N == Len(stack)
           a == pa(2)
           b == da(2)
<1>1. /\ doing = "delete" /\ ~IsRed(color, x) /\ 2 <= N /\ w # NULL /\ ~IsRed(color, w)
      /\ \A d \in Sides : ~IsRed(color, link[w][d])
      /\ color' = Reddened(color, w) /\ stack' = SubSeq(stack, 1, N - 1)
      /\ link' = link /\ data' = data /\ doing' = "delete" /\ removed' = removed
  BY DEF DeleteRecolor, Turn, Missing, Red, IsRed, Reddened, Front
<1>2. /\ x = link[Spot][Way] /\ w = link[Spot][1 - Way]
      /\ Spot \in Tree /\ Way \in Sides
      /\ a \in Above(Tree) /\ b \in Sides /\ link[a][b] = Spot
      /\ N \in Nat /\ IsPath(link, Tree, stack) /\ stack[1] = RootLink
  BY <1>1, AtGap
<1>3. PICK sub, h : Fit(link, D, Tree, sub, color, h, Spot, Way, x, Spot)
  BY <1>1, AtGap
<1>4. CanGiveUp(link, D, Tree, sub, color, h, Spot, Way, w, a, b)
  BY <1>1, <1>2, <1>3 DEF Fit, CanGiveUp, Painted, Heights
<1>5. PICK h2 : /\ Heights(link, Tree, Reddened(color, w), h2, a, b)
                /\ Reds(link, Tree, Reddened(color, w), a, b, Spot)
  BY <1>4, GiveUpColor
<1>6. Reddened(color, w) \in [D -> Colors] /\ IsTree(link, D, Tree, sub)
  BY <1>3 DEF Fit, Colors, Reddened
<1>7. Fit(link', D, Tree, sub, color', h2, a, b, link'[a][b], a)
  BY <1>1, <1>2, <1>5, <1>6 DEF Fit
<1>8. stack[N - 1] = [node |-> a, side |-> b] /\ N - 1 \in 1 .. N
  <2>1. N - 1 \in 1 .. N
    <3> HIDE DEF N
    <3>1. QED
      BY <1>1, <1>2
  <2>2. QED
    BY <1>1, <2>1, StackFacts
<1>9. /\ IsPath(link', Tree, stack') /\ Len(stack') = N - 1
      /\ stack'[1] = RootLink /\ Last(stack') = [node |-> a, side |-> b]
  BY <1>1, <1>2, <1>8, ShorterPath
<1>10. stack' # << >>
  <2>1. N - 1 # 0
    <3> HIDE DEF N
    <3>1. QED
      BY <1>1, <1>2
  <2>2. Len(stack') # 0
    BY <1>9, <2>1
  <2>3. Len(<< >>) = 0
    OBVIOUS
  <2>4. QED
    BY <2>2, <2>3
<1> HIDE DEF D, N, a, b
<1>11. QED
  BY <1>1, <1>7, <1>9, <1>10, DeleteGoesOn DEF D

(* The sibling is exchanged for its red child, below the end of the stack. *)
LEMMA DeleteRedNephewKeeps ==
  ASSUME IInv, DeleteRedNephew
  PROVE  IInv'
<1> DEFINE D == DOMAIN data
           N == Len(stack)
           y == link[w][Way]
<1>0. doing = "delete"
  BY DEF DeleteRedNephew, Turn, Missing
<1>2. /\ x = link[Spot][Way] /\ w = link[Spot][1 - Way] /\ pa(1) = Spot /\ da(1) = Way
      /\ Spot \in Above(Tree) /\ (2 <= N => Spot \in Tree) /\ Way \in Sides
      /\ N \in Nat /\ 1 <= N /\ IsPath(link, Tree, stack) /\ stack[1] = RootLink
      /\ Tree \subseteq D
  BY <1>0, AtGap
<1>1. /\ ~IsRed(color, x) /\ 2 <= N /\ w # NULL /\ ~IsRed(color, w)
      /\ IsRed(color, y) /\ ~IsRed(color, link[w][1 - Way])
      /\ color' = SiblingColors(color, y, w)
      /\ link' = Rotate(link, Spot, 1 - Way, w, Way)
      /\ stack' = stack /\ data' = data /\ doing' = "delete" /\ removed' = removed
  BY <1>0, <1>2 DEF DeleteRedNephew, Turn, Missing, Red, IsRed, SiblingColors
<1>3. PICK sub, h : Fit(link, D, Tree, sub, color, h, Spot, Way, x, Spot)
  BY <1>0, AtGap
<1>4. Spot \in Tree
  BY <1>1, <1>2
<1>5. CanTurnNephew(link, D, Tree, sub, color, h, Spot, Way, w, y)
  BY <1>1, <1>2, <1>3, <1>4 DEF CanTurnNephew
<1>6. PICK sub2, h2 : Fit(link', D, Tree, sub2, color', h2, Spot, Way, x, Spot)
  BY <1>1, <1>2, <1>5, TurnNephew
<1>7. /\ IsTree(link, D, Tree, sub) /\ 1 - Way \in Sides /\ 1 - Way # Way
      /\ Spot # NULL
  BY <1>2, <1>3, <1>4, SideFacts, TreeLinks DEF Fit
<1>8. w \in Tree /\ y \in Tree /\ y # NULL
  BY <1>1, <1>2, <1>4, <1>7, ChildFacts DEF IsRed
<1>9. CanRotate(link, D, Tree, sub, w, Way, y, Spot, 1 - Way)
  BY <1>2, <1>4, <1>7, <1>8, TreeLinks DEF CanRotate
<1>10. \A n \in Above(D), e \in Sides :
         n # w /\ n # y /\ (n = Spot => e # 1 - Way) => link'[n][e] = link[n][e]
  <2>1. LinksRotated(Rotate(link, Spot, 1 - Way, w, Way), link, D, w, Way, y, Spot, 1 - Way)
    BY <1>9, RotateLinks
  <2> HIDE DEF y, D
  <2>2. QED
    BY <1>1, <2>1 DEF LinksRotated
<1>11. Spot \notin sub[w] /\ Spot \notin sub[y]
  <2>1. Spot \notin sub[w] /\ sub[y] \subseteq sub[w]
    BY <1>2, <1>4, <1>7, <1>8, ChildFacts
  <2>2. QED
    BY <2>1
<1>12. stack[N] = Last(stack) /\ Last(stack) = [node |-> Spot, side |-> Way]
  BY <1>0, TopFacts, Start
<1>13. \A i \in 1 .. N : stack[i].node # w /\ stack[i].node # y
  BY <1>2, <1>7, <1>8, <1>11, <1>12, OffPath
<1>14. IsPath(link', Tree, stack')
  <2>1. ASSUME NEW i \in 1 .. N - 1
        PROVE  link'[stack[i].node][stack[i].side] = stack[i + 1].node
    <3>1. i \in 1 .. N /\ N \in 1 .. N /\ i < N
      <4> HIDE DEF N
      <4>1. QED
        BY <1>2
    <3>2. stack[i].node \in Above(Tree) /\ stack[i].side \in Sides
      BY <1>2, <3>1, LinkFacts DEF IsPath
    <3>3. stack[i].node # Spot
      BY <1>2, <1>7, <1>12, <3>1, PathBelow
    <3>4. link[stack[i].node][stack[i].side] = stack[i + 1].node
      BY <1>2 DEF IsPath
    <3>5. stack[i].node \in Above(D)
      BY <1>2, <3>2 DEF Above
    <3>6. QED
      BY <1>10, <1>13, <3>1, <3>2, <3>3, <3>4, <3>5
  <2>2. QED
    BY <1>1, <1>2, <2>1 DEF IsPath
<1>15. link'[Spot][Way] = x
  <2>1. Spot # w /\ Spot # y /\ Spot \in Above(D)
    BY <1>2, <1>4, <1>7, <1>8, <1>11, ChildFacts DEF Above
  <2>2. QED
    BY <1>2, <1>7, <1>10, <2>1
<1>16. stack' # << >> /\ stack'[1] = RootLink /\ Last(stack') = [node |-> Spot, side |-> Way]
  BY <1>1, <1>2, <1>12 DEF IsPath
<1> HIDE DEF D, N, y
<1>17. QED
  BY <1>0, <1>1, <1>6, <1>14, <1>15, <1>16, DeleteGoesOn DEF D

(* The turn that closes the gap, and frees the node.                       *)
LEMMA DeleteRotateKeeps ==
  ASSUME IInv, DeleteRotate
  PROVE  IInv'
<1> DEFINE D == DOMAIN data
           N == Len(stack)
           a == pa(2)
           b == da(2)
<1>0. doing = "delete"
  BY DEF DeleteRotate, Turn, Missing
<1>1. /\ x = link[Spot][Way] /\ w = link[Spot][1 - Way] /\ pa(1) = Spot /\ da(1) = Way
      /\ Way \in Sides
      /\ 2 <= N => Spot \in Tree /\ a \in Above(Tree) /\ b \in Sides /\ link[a][b] = Spot
  BY <1>0, AtGap
<1>2. PICK e \in Sides : e = 1 - Way /\ 1 - e = Way
  BY <1>1, SideFacts
<1> DEFINE far == link[w][e]
<1>3. /\ ~IsRed(color, x) /\ 2 <= N /\ w # NULL /\ ~IsRed(color, w) /\ IsRed(color, far)
      /\ Finish(Rotate(link, a, b, Spot, e), FarColors(color, w, Spot, far))
  BY <1>0, <1>1, <1>2 DEF DeleteRotate, Turn, Missing, Red, IsRed, FarColors
<1>4. PICK sub, h : Fit(link, D, Tree, sub, color, h, Spot, Way, x, Spot)
  BY <1>0, AtGap
<1>5. CanTurnFar(link, D, Tree, sub, color, h, Spot, e, w, far, a, b)
  BY <1>1, <1>2, <1>3, <1>4 DEF CanTurnFar
<1>6. PICK sub2, h2 : Fit(Rotate(link, a, b, Spot, e), D, Tree, sub2,
                          FarColors(color, w, Spot, far), h2, NULL, 0, NULL, NULL)
  BY <1>5, TurnFar
<1> HIDE DEF D, N, a, b, far
<1>7. QED
  BY <1>0, <1>3, <1>6, FinishKeeps DEF D

(* The facts of the library about a concatenation, for a name of it.       *)
LEMMA JoinFacts ==
  ASSUME NEW S, NEW s1 \in Seq(S), NEW s2 \in Seq(S), NEW s, s = s1 \o s2
  PROVE  /\ s \in Seq(S) /\ Len(s) = Len(s1) + Len(s2)
         /\ \A i \in 1 .. Len(s1) : s[i] = s1[i]
         /\ \A i \in 1 .. Len(s2) : s[Len(s1) + i] = s2[i]
<1>1. Len(s1) \in Nat /\ Len(s2) \in Nat
  OBVIOUS
<1>2. s \in Seq(S) /\ Len(s) = Len(s1) + Len(s2)
  OBVIOUS
<1>3. ASSUME NEW i \in 1 .. Len(s1) PROVE s[i] = s1[i]
  OBVIOUS
<1>4. ASSUME NEW i \in 1 .. Len(s2) PROVE s[Len(s1) + i] = s2[i]
  OBVIOUS
<1>5. QED
  BY <1>2, <1>3, <1>4

(* The path after a red sibling rose above the node the path ends at.      *)
Longer(path, l) == Front(path) \o <<l, Last(path)>>

(* Its entries.                                                            *)
LEMMA LongerPathIs ==
  ASSUME NEW S, NEW path \in Seq(S), 2 <= Len(path), NEW l \in S
  PROVE  /\ Longer(path, l) \in Seq(S) /\ Len(Longer(path, l)) = Len(path) + 1
         /\ Longer(path, l) # << >>
         /\ \A i \in 1 .. Len(path) - 1 : Longer(path, l)[i] = path[i]
         /\ Longer(path, l)[Len(path)] = l /\ Longer(path, l)[Len(path) + 1] = Last(path)
         /\ Last(Longer(path, l)) = Last(path)
<1> DEFINE N == Len(path)
           front == SubSeq(path, 1, N - 1)
           end == <<l, path[N]>>
           longer == Longer(path, l)
<1>1. N \in Nat /\ 2 <= N
  OBVIOUS
<1>2. /\ N \in 1 .. N /\ 1 \in 1 .. N + 1 /\ N - 1 \in 0 .. N
      /\ 1 .. N - 1 \subseteq 1 .. N
  <2> HIDE DEF N
  <2>1. QED
    BY <1>1
<1>3. path[N] \in S
  BY <1>2, ElementOfSeq
<1>4. front \in Seq(S) /\ Len(front) = N - 1 /\ \A i \in 1 .. N - 1 : front[i] = path[i]
  BY <1>1, <1>2, SubSeqProperties
<1>5. end \in Seq(S) /\ Len(end) = 2 /\ end[1] = l /\ end[2] = path[N]
  BY <1>3
<1>6. longer = front \o end
  BY DEF Front, Last, Longer
<1> HIDE DEF front, end, longer
<1>7. /\ longer \in Seq(S) /\ Len(longer) = Len(front) + Len(end)
      /\ \A i \in 1 .. Len(front) : longer[i] = front[i]
      /\ \A i \in 1 .. Len(end) : longer[Len(front) + i] = end[i]
  <2>1. front \in Seq(S) /\ end \in Seq(S) /\ longer = front \o end
    BY <1>4, <1>5, <1>6
  <2>2. QED
    BY <2>1, JoinFacts
<1> HIDE DEF N
<1>8. /\ Len(front) + Len(end) = N + 1 /\ Len(front) + 1 = N /\ Len(front) + 2 = N + 1
      /\ 1 \in 1 .. Len(end) /\ 2 \in 1 .. Len(end)
  BY <1>1, <1>4, <1>5
<1>10. longer[N] = l /\ longer[N + 1] = path[N]
  BY <1>5, <1>7, <1>8
<1>11. \A i \in 1 .. N - 1 : longer[i] = path[i]
  BY <1>4, <1>7
<1>12. Len(longer) = N + 1 /\ N + 1 # 0
  BY <1>1, <1>7, <1>8
<1>13. longer # << >>
  <2>1. Len(<< >>) = 0
    OBVIOUS
  <2>2. QED
    BY <1>12, <2>1
<1>14. QED
  BY <1>7, <1>10, <1>11, <1>12, <1>13 DEF N, Last, longer

(* The red sibling goes on the stack, above the node it rose above.        *)
LEMMA DeleteRedSiblingKeeps ==
  ASSUME IInv, DeleteRedSibling
  PROVE  IInv'
<1> DEFINE D == DOMAIN data
           N == Len(stack)
           a == pa(2)
           b == da(2)
<1>0. doing = "delete"
  BY DEF DeleteRedSibling, Turn, Missing
<1>1. /\ x = link[Spot][Way] /\ w = link[Spot][1 - Way] /\ pa(1) = Spot /\ da(1) = Way
      /\ Way \in Sides /\ Tree \subseteq D
      /\ 2 <= N => Spot \in Tree /\ a \in Above(Tree) /\ b \in Sides /\ link[a][b] = Spot
      /\ N \in Nat /\ IsPath(link, Tree, stack) /\ stack[1] = RootLink
  BY <1>0, AtGap
<1>2. PICK e \in Sides : e = 1 - Way /\ 1 - e = Way /\ e # Way
  BY <1>1, SideFacts
<1> DEFINE l == [node |-> w, side |-> Way]
<1>3. /\ ~IsRed(color, x) /\ 2 <= N /\ w # NULL /\ IsRed(color, w)
      /\ color' = SiblingColors(color, w, Spot)
      /\ link' = Rotate(link, a, b, Spot, e)
      /\ stack' = Longer(stack, l)
      /\ data' = data /\ doing' = "delete" /\ removed' = removed
  BY <1>0, <1>1, <1>2
     DEF DeleteRedSibling, Turn, Missing, Red, IsRed, SiblingColors, Longer
<1>4. PICK sub, h : Fit(link, D, Tree, sub, color, h, Spot, Way, x, Spot)
  BY <1>0, AtGap
<1>5. CanTurnSibling(link, D, Tree, sub, color, h, Spot, e, w, a, b)
  BY <1>1, <1>2, <1>3, <1>4 DEF CanTurnSibling
<1>6. PICK sub2, h2 : Fit(link', D, Tree, sub2, color', h2, Spot, Way, x, Spot)
  BY <1>1, <1>2, <1>3, <1>5, TurnSibling
<1>7. /\ IsTree(link, D, Tree, sub) /\ Spot \in Tree /\ Spot # NULL
      /\ a \in Above(Tree) /\ b \in Sides /\ link[a][b] = Spot
      /\ w \in Tree /\ w = link[Spot][e]
  <2>1. IsTree(link, D, Tree, sub) /\ Spot \in Tree
    BY <1>1, <1>3, <1>4 DEF Fit
  <2>2. QED
    BY <1>1, <1>2, <1>3, <2>1, ChildFacts
<1>8. CanRotate(link, D, Tree, sub, Spot, e, w, a, b)
  BY <1>3, <1>7 DEF CanRotate
<1>9. /\ link'[w][Way] = Spot /\ link'[a][b] = w
      /\ \A n \in Above(D), f \in Sides :
           n # w /\ (n = Spot => f # e) /\ n # a => link'[n][f] = link[n][f]
  <2>1. LinksRotated(link', link, D, Spot, e, w, a, b)
    BY <1>3, <1>8, RotateLinks
  <2> HIDE DEF D
  <2>2. QED
    BY <1>2, <2>1 DEF LinksRotated
<1>10. Spot \notin sub[w] /\ Spot # w /\ Spot # a
  <2>1. Spot \notin sub[w] /\ Spot # w
    BY <1>7, ChildFacts
  <2>2. Spot # a
    BY <1>8, RotateLinks
  <2>3. QED
    BY <2>1, <2>2
<1>11. /\ stack[N] = Last(stack) /\ Last(stack) = [node |-> Spot, side |-> Way]
       /\ stack[N - 1] = [node |-> a, side |-> b]
  BY <1>0, <1>3, TopFacts, StackFacts, Start
<1>12. \A i \in 1 .. N : stack[i].node # w
  BY <1>1, <1>7, <1>10, <1>11, OffPath
<1>13. l \in Links(Tree) /\ stack \in Seq(Links(Tree))
  BY <1>1, <1>7 DEF Links, IsPath, Above
<1> HIDE DEF l
<1>14. /\ stack' \in Seq(Links(Tree)) /\ Len(stack') = N + 1 /\ stack' # << >>
       /\ \A i \in 1 .. N - 1 : stack'[i] = stack[i]
       /\ stack'[N] = l /\ stack'[N + 1] = Last(stack) /\ Last(stack') = Last(stack)
  BY <1>3, <1>13, LongerPathIs
<1>15. l.node = w /\ l.side = Way
  BY DEF l
<1>16. IsPath(link', Tree, stack')
  <2>1. ASSUME NEW i \in 1 .. N - 2
        PROVE  /\ link'[stack'[i].node][stack'[i].side] = stack'[i + 1].node
               /\ stack'[i + 1].node \in Tree
    <3>1. /\ i \in 1 .. N - 1 /\ i + 1 \in 1 .. N - 1 /\ i \in 1 .. N /\ i < N
          /\ N - 1 \in 1 .. N /\ N \in 1 .. N /\ i < N - 1
      <4> HIDE DEF N
      <4>1. QED
        BY <1>1, <1>3
    <3>2. stack'[i] = stack[i] /\ stack'[i + 1] = stack[i + 1]
      BY <1>14, <3>1
    <3>3. stack[i].node \in Above(D) /\ stack[i].side \in Sides
      <4>1. stack[i].node \in Above(Tree) /\ stack[i].side \in Sides
        BY <1>13, <3>1, LinkFacts
      <4>2. QED
        BY <1>1, <4>1 DEF Above
    <3>4. stack[i].node # Spot
      BY <1>1, <1>7, <1>11, <3>1, PathBelow
    <3>5. stack[i].node # a
      BY <1>1, <1>7, <1>11, <3>1, PathBelow
    <3>6. link'[stack[i].node][stack[i].side] = link[stack[i].node][stack[i].side]
      BY <1>9, <1>12, <3>1, <3>3, <3>4, <3>5
    <3>7. link[stack[i].node][stack[i].side] = stack[i + 1].node /\ stack[i + 1].node \in Tree
      BY <1>1, <3>1 DEF IsPath
    <3>8. QED
      BY <3>2, <3>6, <3>7
  <2>2. /\ link'[stack'[N - 1].node][stack'[N - 1].side] = stack'[N].node
        /\ stack'[N].node \in Tree
    <3>1. N - 1 \in 1 .. N - 1
      <4> HIDE DEF N
      <4>1. QED
        BY <1>1, <1>3
    <3>2. stack'[N - 1] = [node |-> a, side |-> b]
      BY <1>11, <1>14, <3>1
    <3>3. QED
      BY <1>7, <1>9, <1>14, <1>15, <3>2
  <2>3. /\ link'[stack'[N].node][stack'[N].side] = stack'[N + 1].node
        /\ stack'[N + 1].node \in Tree
    BY <1>7, <1>9, <1>11, <1>14, <1>15
  <2>4. ASSUME NEW i \in 1 .. Len(stack') - 1
        PROVE  i \in 1 .. N - 2 \/ (i = N - 1 /\ i + 1 = N) \/ i = N
    <3> HIDE DEF N
    <3>1. QED
      BY <1>1, <1>3, <1>14
  <2> HIDE DEF N
  <2>5. QED
    BY <1>14, <2>1, <2>2, <2>3, <2>4 DEF IsPath
<1>17. link'[Spot][Way] = x
  BY <1>1, <1>2, <1>7, <1>9, <1>10 DEF Above
<1>18. stack'[1] = RootLink
  <2>1. 1 \in 1 .. N - 1
    <3> HIDE DEF N
    <3>1. QED
      BY <1>1, <1>3
  <2>2. QED
    BY <1>1, <1>14, <2>1
<1> HIDE DEF D, N, a, b
<1>19. QED
  BY <1>0, <1>3, <1>6, <1>11, <1>14, <1>16, <1>17, <1>18, DeleteGoesOn DEF D

(* A sequence over a set is one over any larger set.                       *)
LEMMA SeqIn ==
  ASSUME NEW S, NEW T, S \subseteq T, NEW s \in Seq(S)
  PROVE  s \in Seq(T)
<1>1. PICK n \in Nat : s \in [1 .. n -> S]
  BY SeqDef
<1>2. s \in [1 .. n -> T]
  BY <1>1
<1>3. QED
  BY <1>2, SeqDef

(* rb_compare and the test of rb.c:105 choose the side a price is on.      *)
LEMMA DirectionIs ==
  ASSUME NEW price \in Nat, NEW n \in Nat, price # n
  PROVE  Direction(price, n) \in Sides /\ Beside(price, Direction(price, n), n)
<1>1. CASE price > n
  BY <1>1 DEF Direction, Beside, Sides
<1>2. CASE ~(price > n)
  <2>1. price < n
    BY <1>2
  <2>2. QED
    BY <1>2, <2>1 DEF Direction, Beside, Sides
<1>3. QED
  BY <1>1, <1>2

(* A search that fails ends at the place of the price.                     *)
LEMMA SearchPlace ==
  ASSUME NEW sub, IsTree(link, DOMAIN data, Tree, sub), Tree = DOMAIN data,
         NEW price \in Nat \ {0}, price \notin DOMAIN data
  PROVE  CanInsert(link, DOMAIN data, sub, price, Last(Search(price)).node,
                   Last(Search(price)).side)
<1> DEFINE D == DOMAIN data
           path == Search(price)
           z == Last(path).node
           side == Last(path).side
<1>1. SearchFound(path, price, sub) /\ D \subseteq Nat
  BY SearchIs DEF IsTree
<1> HIDE DEF path
<1>2. Len(path) \in 1 .. Len(path) /\ Last(path) = path[Len(path)] /\ path \in Seq(Links(D))
  BY <1>1 DEF SearchFound, Last
<1>3. z \in Above(D) /\ side \in Sides
  BY <1>2, LinkFacts
<1>4. link[z][side] = NULL
  BY <1>1 DEF SearchFound, Found, To
<1>5. \A n \in D, d \in Sides : z \in sub[link[n][d]] => Beside(price, d, n)
  <2> SUFFICES ASSUME NEW n \in D, NEW d \in Sides, z \in sub[link[n][d]]
               PROVE  Beside(price, d, n)
    OBVIOUS
  <2>1. d = Direction(price, n)
    BY <1>1 DEF SearchFound
  <2>2. price # n /\ n \in Nat
    BY <1>1
  <2>3. QED
    BY <2>1, <2>2, DirectionIs
<1>6. z \in D => Beside(price, side, z)
  <2> SUFFICES ASSUME z \in D PROVE Beside(price, side, z)
    OBVIOUS
  <2>1. side = Direction(price, z)
    BY <1>1 DEF SearchFound
  <2>2. price # z /\ z \in Nat
    BY <1>1
  <2>3. QED
    BY <2>1, <2>2, DirectionIs
<1>7. z = Anchor => side = 0
  BY <1>1 DEF SearchFound
<1> HIDE DEF z, side
<1>8. CanInsert(link, D, sub, price, z, side)
  BY <1>3, <1>4, <1>5, <1>6, <1>7 DEF CanInsert
<1>9. QED
  BY <1>8 DEF z, side, path

(* A price in the tree: only the item is exchanged.                        *)
LEMMA ReplaceKeeps ==
  ASSUME IInv, NEW price \in Prices, NEW volume \in Volumes, Replace(price, volume)
  PROVE  IInv'
<1> DEFINE D == DOMAIN data
<1>1. /\ doing = "nothing" /\ data' = [data EXCEPT ![price] = volume]
      /\ link' = link /\ color' = color /\ doing' = "nothing" /\ stack' = stack
      /\ removed' = removed
  BY DEF Replace
<1>2. TypeOK /\ Tree = D /\ removed = NULL /\ stack = << >>
  BY <1>1, Start DEF TypeOK
<1>3. PICK sub, h : Fit(link, D, Tree, sub, color, h, Spot, Way, Odd, GapNode)
  BY Start
<1>4. Spot = NULL /\ Way = 0 /\ Odd = NULL /\ GapNode = NULL
  BY <1>1 DEF Spot, Way, Odd, GapNode
<1>5. data' \in [D -> Volumes] /\ DOMAIN data' = D
  BY <1>1, <1>2 DEF TypeOK
<1>6. Fit(link', D, D, sub, color', h, NULL, 0, NULL, NULL)
  BY <1>1, <1>2, <1>3, <1>4
<1>7. stack' = << >> /\ removed' = NULL
  BY <1>1, <1>2
<1> HIDE DEF D
<1>8. QED
  BY <1>1, <1>2, <1>5, <1>6, <1>7, AtRest DEF D

(* A new price: the leaf is where the search ended, and only it and its    *)
(* parent may both be red.                                                 *)
LEMMA ProbeKeeps ==
  ASSUME IInv, NEW price \in Prices, NEW volume \in Volumes, Probe(price, volume)
  PROVE  IInv'
<1> DEFINE D == DOMAIN data
           D2 == D \cup {price}
           path == Search(price)
           N == Len(path)
           z == Last(path).node
           side == Last(path).side
<1>1. /\ doing = "nothing" /\ Found(path) = NULL
      /\ link' = [n \in DOMAIN link \cup {price} |->
           IF n = price THEN Nil
           ELSE IF n = z THEN [link[n] EXCEPT ![side] = price]
           ELSE link[n]]
      /\ color' = [n \in DOMAIN color \cup {price} |->
           IF n = price THEN "red" ELSE color[n]]
      /\ data' = [n \in DOMAIN data \cup {price} |->
           IF n = price THEN volume ELSE data[n]]
      /\ doing' = "probe" /\ stack' = path /\ removed' = removed
  BY DEF Probe
<1>2. /\ TypeOK /\ Tree = D /\ removed = NULL /\ price \in Nat \ {0}
      /\ link \in [Above(D) -> [Sides -> D \cup {NULL}]] /\ DOMAIN link = Above(D)
      /\ NULL \notin D
  BY <1>1, Start, TreeFacts, PricesAssumption
<1>3. PICK sub, h : Fit(link, D, D, sub, color, h, NULL, 0, NULL, NULL)
  <2>1. Spot = NULL /\ Way = 0 /\ Odd = NULL /\ GapNode = NULL
    BY <1>1 DEF Spot, Way, Odd, GapNode
  <2>2. QED
    BY <1>2, <2>1, Start
<1>4. IsTree(link, D, D, sub) /\ SearchFound(path, price, sub)
  BY <1>2, <1>3, SearchIs DEF Fit
<1>5. price \notin D
  <2> HIDE DEF path
  <2>1. price \in D => Found(path) = price
    BY <1>2, <1>4 DEF SearchFound
  <2>2. QED
    BY <1>1, <1>2, <2>1
<1>6. CanInsert(link, D, sub, price, z, side)
  BY <1>2, <1>4, <1>5, SearchPlace
<1> HIDE DEF path
<1>7. /\ path \in Seq(Links(D)) /\ N \in Nat \ {0} /\ IsPath(link, D, path)
      /\ path[1] = RootLink /\ Last(path) = path[N]
  BY <1>2, <1>4 DEF SearchFound, Last
<1>8. /\ Anchor \in Above(D) /\ Above(D2) = Above(D) \cup {price} /\ price \notin Above(D)
      /\ z \in Above(D) /\ side \in Sides
  <2>1. price # Anchor
    BY <1>2 DEF Anchor
  <2>2. QED
    BY <1>5, <1>6, <2>1 DEF Above, CanInsert
<1>9. LinksInserted(link', link, D, price, z, side)
  <2>1. link' \in [Above(D2) -> [Sides -> D2 \cup {NULL}]]
    <3>1. Nil \in [Sides -> D2 \cup {NULL}]
      BY DEF Nil
    <3>2. ASSUME NEW n \in Above(D)
          PROVE  /\ link[n] \in [Sides -> D2 \cup {NULL}]
                 /\ [link[n] EXCEPT ![side] = price] \in [Sides -> D2 \cup {NULL}]
      BY <1>2
    <3> HIDE DEF D2, z, side
    <3>3. QED
      BY <1>1, <1>2, <1>8, <3>1, <3>2
  <2>2. link'[price] = Nil
    BY <1>1
  <2>3. \A n \in Above(D) : n # z => link'[n] = link[n]
    BY <1>1, <1>2, <1>8
  <2>4. link'[z] = [link[z] EXCEPT ![side] = price] /\ link[z] \in [Sides -> D \cup {NULL}]
    BY <1>1, <1>2, <1>8
  <2>5. link'[z][side] = price /\ \A e \in Sides : e # side => link'[z][e] = link[z][e]
    BY <1>8, <2>4
  <2>6. D2 \cup {NULL} = D \cup {price, NULL}
    OBVIOUS
  <2> HIDE DEF z, side
  <2>7. QED
    BY <2>1, <2>2, <2>3, <2>5, <2>6 DEF LinksInserted
<1>10. /\ color' \in [D2 -> Colors] /\ color'[price] = "red"
       /\ \A n \in D : color'[n] = color[n]
  BY <1>1, <1>2, <1>5 DEF TypeOK, Colors
<1>11. IsTree(link', D2, D2, Inserted(D, sub, price, z))
  BY <1>6, <1>9, InsertTree
<1>12. PICK h2 : /\ Heights(link', D2, color', h2, NULL, 0)
                 /\ Reds(link', D2, color', z, side, NULL)
  <2>1. Heights(link, D, color, h, NULL, 0) /\ Reds(link, D, color, NULL, 0, NULL)
    BY <1>3 DEF Fit
  <2> HIDE DEF D, z, side
  <2>2. QED
    BY <1>6, <1>9, <1>10, <2>1, InsertColors
<1>13. \E s, k : Fit(link', D2, D2, s, color', k, z, side, NULL, NULL)
  <2>1. Heights(link', D2, color', h2, NULL, side)
    <3>1. NULL \notin D2
      BY <1>2 DEF NULL
    <3> HIDE DEF D2
    <3>2. QED
      BY <1>12, <3>1 DEF Heights
  <2>2. QED
    BY <1>10, <1>11, <1>12, <2>1 DEF Fit
<1>14. data' \in [D2 -> Volumes] /\ DOMAIN data' = D2
  BY <1>1, <1>2 DEF TypeOK
<1>15. D2 \subseteq Prices /\ IsFiniteSet(D2)
  BY <1>2, FS_AddElement DEF TypeOK
<1>16. IsPath(link', D2, path)
  <2>1. path \in Seq(Links(D2))
    <3>1. Links(D) \subseteq Links(D2)
      BY DEF Links, Above
    <3>2. QED
      BY <1>7, <3>1, SeqIn
  <2>2. ASSUME NEW i \in 1 .. N - 1
        PROVE  link'[path[i].node][path[i].side] = path[i + 1].node /\ path[i + 1].node \in D2
    <3>1. i \in 1 .. N /\ N \in 1 .. N /\ i < N
      <4> HIDE DEF N
      <4>1. QED
        BY <1>7
    <3>2. path[i].node \in Above(D) /\ path[i].side \in Sides
      BY <1>7, <3>1, LinkFacts
    <3>3. path[i].node # z
      BY <1>4, <1>7, <3>1, PathBelow
    <3>4. link[path[i].node][path[i].side] = path[i + 1].node /\ path[i + 1].node \in D
      BY <1>7 DEF IsPath
    <3> HIDE DEF z, side
    <3>5. QED
      BY <1>9, <3>2, <3>3, <3>4 DEF LinksInserted
  <2>3. QED
    BY <2>1, <2>2 DEF IsPath
<1>17. Consistent'
  <2>1. /\ DOMAIN data' = D2 /\ removed' = NULL /\ doing' = "probe" /\ stack' = path
        /\ NULL \notin D2
    BY <1>1, <1>2, <1>14 DEF NULL
  <2>2. Tree' = D2
    BY <2>1 DEF Tree
  <2>3. Spot' = z /\ Way' = side /\ Odd' = NULL /\ GapNode' = NULL
    BY <2>1 DEF Spot, Way, Odd, GapNode
  <2>4. Found(stack)' = price
    <3>1. link'[z][side] = price
      BY <1>9 DEF LinksInserted
    <3>2. QED
      BY <2>1, <3>1 DEF Found, To
  <2>5. IsRed(color', Found(stack)')
    BY <1>2, <1>10, <2>4 DEF IsRed, NULL
  <2>6. \E s, k : Fit(link', (DOMAIN data)', Tree', s, color', k, Spot', Way', Odd', GapNode')
    BY <1>13, <2>1, <2>2, <2>3
  <2>7. stack' # << >> /\ stack'[1] = RootLink /\ IsPath(link', Tree', stack')
    <3>1. Len(path) # 0 /\ Len(<< >>) = 0
      BY <1>7
    <3>2. QED
      BY <1>7, <1>16, <2>1, <2>2, <3>1
  <2>8. data' \in [(DOMAIN data)' -> Volumes] /\ (DOMAIN data)' \subseteq Prices
        /\ IsFiniteSet((DOMAIN data)')
    BY <1>14, <1>15, <2>1
  <2> HIDE DEF D, D2, N, z, side
  <2>9. QED
    BY <2>1, <2>5, <2>6, <2>7, <2>8 DEF Consistent
<1>18. QED
  BY <1>17, ConsistentAfter

(* The node p is to be unlinked; the link side of parent leads to it.      *)
CanUnlink(p, sub, h, parent, side) ==
  /\ Fit(link, DOMAIN data, DOMAIN data, sub, color, h, NULL, 0, NULL, NULL)
  /\ Tree = DOMAIN data /\ IsFiniteSet(DOMAIN data) /\ p \in DOMAIN data
  /\ parent \in Above(DOMAIN data) /\ side \in Sides /\ link[parent][side] = p

(* The way down to the successor s of p: its last link but one is the link *)
(* way of r, and leads to s.                                               *)
Descended(descent, p, sub, s, r, way) ==
  /\ descent \in Seq(Links(DOMAIN data)) /\ IsPath(link, DOMAIN data, descent)
  /\ Len(descent) \in Nat /\ 2 <= Len(descent)
  /\ descent[1] = [node |-> p, side |-> 1]
  /\ \A i \in 2 .. Len(descent) :
       /\ descent[i].node \in sub[link[p][1]] /\ descent[i].node # p
       /\ descent[i].side = 0
  /\ Last(descent) = descent[Len(descent)] /\ Last(descent).node = s
  /\ descent[Len(descent) - 1] = [node |-> r, side |-> way]
  /\ s \in DOMAIN data /\ s \in sub[link[p][1]] /\ s # p /\ link[s][0] = NULL
  /\ \A m \in sub[link[p][1]] : m = s \/ s < m
  /\ r \in DOMAIN data /\ r \in sub[p] /\ r # s /\ way \in Sides /\ link[r][way] = s
  /\ Len(descent) = 2 => r = p /\ way = 1
  /\ Len(descent) # 2 => r # p /\ way = 0

(* The loop of rb.c:273 finds such a way.                                  *)
LEMMA DescentIs ==
  ASSUME NEW p, NEW sub, NEW h, NEW parent, NEW side,
         CanUnlink(p, sub, h, parent, side), link[p][1] # NULL
  PROVE  \E r, way : Descended(Descent(p), p, sub, Last(Descent(p)).node, r, way)
<1> DEFINE D == DOMAIN data
           descent == Descent(p)
           K == Len(descent)
           c == link[p][1]
           s == Last(descent).node
           from == [node |-> p, side |-> 1]
           r == descent[K - 1].node
           way == descent[K - 1].side
<1>1. /\ IsTree(link, D, D, sub) /\ Tree = D /\ IsFiniteSet(D) /\ p \in D
      /\ D \subseteq Nat
  BY DEF CanUnlink, Fit, IsTree
<1>2. 1 \in Sides /\ 0 \in Sides /\ 1 - 0 = 1 /\ 1 - 1 = 0
  BY DEF Sides
<1>3. from \in Links(D) /\ To(from) = c
  BY <1>1, <1>2, AboveFacts DEF Links, To
<1>4. OutermostBelow(descent, from, 0, sub)
  BY <1>1, <1>2, <1>3, OuterWalk DEF Descent
<1> HIDE DEF descent
<1>5. /\ descent \in Seq(Links(D)) /\ IsPath(link, D, descent) /\ K \in Nat /\ 2 <= K
      /\ descent[1] = from
      /\ \A i \in 2 .. K : descent[i].node \in D /\ descent[i].side = 0
      /\ s \in sub[c] /\ link[s][0] = NULL
      /\ \A m \in sub[c] : m = s \/ Beside(m, 1, s)
  BY <1>1, <1>2, <1>3, <1>4 DEF OutermostBelow
<1>6. Last(descent) = descent[K] /\ Last(descent).node = s
  BY DEF Last
<1>7. /\ K \in 2 .. K /\ K \in 1 .. K /\ K - 1 \in 1 .. K - 1 /\ K - 1 \in 1 .. K
      /\ K - 1 < K /\ 1 \in 1 .. K /\ (K - 1) + 1 = K
      /\ K = 2 => K - 1 = 1
      /\ K # 2 => K - 1 \in 2 .. K
      /\ \A i \in 2 .. K : i \in 1 .. K /\ 1 < i
  <2> HIDE DEF K
  <2>1. QED
    BY <1>5
<1>8. c \in D /\ sub[c] \subseteq D /\ p \notin sub[c] /\ sub[c] \subseteq sub[p]
  BY <1>1, <1>2, ChildFacts
<1>9. \A i \in 2 .. K : descent[i].node \in sub[c] /\ descent[i].node # p
  <2> SUFFICES ASSUME NEW i \in 2 .. K
               PROVE  descent[i].node \in sub[c] /\ descent[i].node # p
    OBVIOUS
  <2>1. i \in 1 .. K /\ 1 \in 1 .. K /\ 1 < i
    BY <1>7
  <2>2. descent[i].node \in sub[link[descent[1].node][descent[1].side]]
    BY <1>1, <1>5, <2>1, PathBelow
  <2>3. descent[1].node = p /\ descent[1].side = 1
    BY <1>5
  <2>4. QED
    BY <1>8, <2>2, <2>3
<1>10. /\ link[r][way] = s /\ way \in Sides /\ r # s /\ r \in D
       /\ descent[K - 1] = [node |-> r, side |-> way]
  <2>1. link[r][way] = s
    BY <1>5, <1>6, <1>7 DEF IsPath
  <2>2. r # s
    <3>1. K - 1 \in 1 .. K /\ K \in 1 .. K /\ K - 1 < K
      BY <1>7
    <3>2. descent[K].node # descent[K - 1].node
      BY <1>1, <1>5, <3>1, PathBelow
    <3>3. QED
      BY <1>6, <3>2
  <2>3. descent[K - 1] \in Links(D) /\ way \in Sides
    BY <1>5, <1>7, LinkFacts
  <2>4. r \in D
    BY <1>1, <1>5, <1>7
  <2>5. QED
    BY <2>1, <2>2, <2>3, <2>4 DEF Links
<1>11. K = 2 => r = p /\ way = 1
  BY <1>5, <1>7
<1>12. K # 2 => r # p /\ way = 0 /\ r \in sub[c]
  BY <1>5, <1>7, <1>9
<1>13. r \in sub[p]
  BY <1>1, <1>8, <1>11, <1>12, ChildFacts
<1>14. \A m \in sub[c] : m = s \/ s < m
  BY <1>5 DEF Beside
<1>15. s \in D /\ s # p
  BY <1>5, <1>8
<1> HIDE DEF D, K, s, c, r, way, from
<1>16. descent[1] = [node |-> p, side |-> 1]
  BY <1>5 DEF from
<1>17. Descended(descent, p, sub, s, r, way)
  BY <1>5, <1>6, <1>9, <1>10, <1>11, <1>12, <1>13, <1>14, <1>15, <1>16
     DEF Descended, D, K, c
<1>18. QED
  BY <1>17 DEF descent, s

(* What a deletion needs to know about the links it changes.               *)
LEMMA UnlinkFacts ==
  ASSUME NEW p, NEW sub, NEW h, NEW parent, NEW side,
         CanUnlink(p, sub, h, parent, side), link[p][1] # NULL,
         NEW s, NEW r, NEW way, Descended(Descent(p), p, sub, s, r, way)
  PROVE  /\ IsTree(link, DOMAIN data, DOMAIN data, sub)
         /\ parent \notin sub[p] /\ parent # s /\ parent # r /\ parent # p
         /\ s \in sub[p] /\ p \notin sub[s] /\ p < s
         /\ CanSplice(link, DOMAIN data, sub, s, 0, r, way)
<1> DEFINE D == DOMAIN data
<1>1. /\ IsTree(link, D, D, sub) /\ p \in D /\ D \subseteq Nat
      /\ parent \in Above(D) /\ side \in Sides /\ link[parent][side] = p
  BY DEF CanUnlink, Fit, IsTree
<1>2. /\ s \in sub[link[p][1]] /\ s \in D /\ r \in D /\ r \in sub[p] /\ way \in Sides
      /\ link[r][way] = s /\ link[s][0] = NULL
  BY DEF Descended
<1>3. 1 \in Sides /\ 0 \in Sides /\ p # NULL
  BY <1>1, ChildFacts DEF Sides
<1>4. parent \notin sub[p]
  BY <1>1, <1>3, ParentAbove
<1>5. sub[link[p][1]] \subseteq sub[p] /\ p \in sub[p] /\ p \notin sub[link[p][1]]
  BY <1>1, <1>3, ChildFacts
<1>6. p \notin sub[s] /\ p < s
  <2>1. link[p][1] \in D
    BY <1>1, <1>3, ChildFacts
  <2>2. sub[s] \subseteq sub[link[p][1]]
    BY <1>1, <1>2, <2>1, Nested
  <2>3. Beside(s, 1, p)
    BY <1>1, <1>2, <1>3 DEF IsTree
  <2>4. QED
    BY <1>5, <2>2, <2>3 DEF Beside
<1>7. CanSplice(link, D, sub, s, 0, r, way)
  BY <1>1, <1>2, <1>3, AboveFacts DEF CanSplice
<1>8. QED
  BY <1>1, <1>2, <1>4, <1>5, <1>6, <1>7

(* So after s has left its own place, it can take that of p.               *)
LEMMA CanReplaceBySuccessor ==
  ASSUME NEW p, NEW sub, NEW h, NEW parent, NEW side,
         CanUnlink(p, sub, h, parent, side), link[p][1] # NULL,
         NEW s, NEW r, NEW way, Descended(Descent(p), p, sub, s, r, way)
  PROVE  CanReplace(LinksSpliced(link, s, 0, r, way), DOMAIN data, DOMAIN data \ {s},
                    Spliced(DOMAIN data, sub, s), p, s, parent, side)
<1> DEFINE D == DOMAIN data
           T == D \ {s}
           L == LinksSpliced(link, s, 0, r, way)
           less == Spliced(D, sub, s)
<1>1. /\ IsTree(link, D, D, sub) /\ p \in D /\ D \subseteq Nat
      /\ parent \in Above(D) /\ side \in Sides /\ link[parent][side] = p
      /\ link \in [Above(D) -> [Sides -> D \cup {NULL}]]
  BY DEF CanUnlink, Fit, IsTree
<1>2. /\ s \in sub[link[p][1]] /\ s \in D /\ r \in D /\ way \in Sides
      /\ link[r][way] = s /\ s # p
      /\ \A m \in sub[link[p][1]] : m = s \/ s < m
  BY DEF Descended
<1>3. /\ parent # s /\ parent # r /\ s \in sub[p] /\ p \notin sub[s] /\ p < s
      /\ CanSplice(link, D, sub, s, 0, r, way)
  BY UnlinkFacts
<1>4. 1 \in Sides /\ 0 \in Sides /\ p # NULL /\ s # NULL /\ NULL \notin D
  BY <1>1, <1>2, ChildFacts, TreeLinks DEF Sides
<1>5. IsTree(L, D, T, less)
  BY <1>3, SpliceTree
<1>6. \A n \in Above(D), d \in Sides : ~(n = r /\ d = way) => L[n][d] = link[n][d]
  BY <1>1 DEF LinksSpliced
<1>7. L[r][way] = link[s][1]
  BY <1>1, <1>2, AboveFacts DEF LinksSpliced
<1>8. \A n \in T \cup {NULL} : less[n] = sub[n] \ {s}
  BY DEF Spliced
<1> HIDE DEF L, less
<1>9. L[parent][side] = p
  BY <1>1, <1>3, <1>6
<1>10. parent \in Above(T) /\ p \in T /\ s \in D \ T
  BY <1>1, <1>2, <1>3 DEF Above
<1>11. ASSUME NEW d \in Sides, NEW m \in less[L[p][d]] PROVE Beside(m, d, s)
  <2>1. /\ Beside(m, d, p) /\ L[p][d] \in T \cup {NULL} /\ less[L[p][d]] \subseteq less[p]
        /\ m \in T
    <3>1. Beside(m, d, p)
      BY <1>5, <1>10, <1>11 DEF IsTree
    <3>2. /\ L[p][d] \in T \cup {NULL} /\ less[L[p][d]] \subseteq less[p]
          /\ less[p] \subseteq T
      BY <1>5, <1>10, ChildFacts
    <3>3. QED
      BY <1>11, <3>1, <3>2
  <2>2. m \in sub[p] /\ m # s /\ m \in Nat /\ s \in Nat /\ p \in Nat
    BY <1>1, <1>2, <1>8, <1>10, <1>11, <2>1
  <2>3. CASE d = 0
    <3>1. m < p
      BY <2>1, <2>3 DEF Beside
    <3>2. m < s
      BY <1>3, <2>2, <3>1
    <3>3. QED
      BY <2>3, <3>2 DEF Beside
  <2>4. CASE d = 1
    <3>1. p < m
      BY <2>1, <2>4 DEF Beside
    <3>2. sub[p] = {p} \cup sub[link[p][1]] \cup sub[link[p][0]]
      BY <1>1, <1>4, ChildFacts DEF IsTree
    <3>3. m \notin sub[link[p][0]]
      <4>1. \A k \in sub[link[p][0]] : Beside(k, 0, p)
        BY <1>1, <1>4 DEF IsTree
      <4>2. QED
        BY <2>2, <3>1, <4>1 DEF Beside
    <3>4. m \in sub[link[p][1]]
      BY <2>2, <3>1, <3>2, <3>3
    <3>5. s < m
      BY <1>2, <2>2, <3>4
    <3>6. QED
      BY <2>4, <3>5 DEF Beside
  <2>5. QED
    BY <2>3, <2>4 DEF Sides
<1>12. ASSUME NEW n \in T, NEW d \in Sides, p \in less[L[n][d]] PROVE Beside(s, d, n)
  <2>1. L[n][d] \in T \cup {NULL} /\ n \in D /\ n \in Above(D)
    BY <1>5, ChildFacts DEF Above
  <2>2. p \in sub[L[n][d]]
    BY <1>8, <1>12, <2>1
  <2>3. ~(n = r /\ d = way)
    <3>1. ASSUME n = r, d = way PROVE FALSE
      <4>1. sub[link[s][1]] \subseteq sub[s]
        BY <1>1, <1>2, <1>4, ChildFacts
      <4>2. QED
        BY <1>3, <1>7, <2>2, <3>1, <4>1
    <3>2. QED
      BY <3>1
  <2>4. p \in sub[link[n][d]]
    BY <1>6, <2>1, <2>2, <2>3
  <2>5. s \in sub[link[n][d]]
    <3>1. link[n][d] \in D \cup {NULL} /\ sub[NULL] = {}
      BY <1>1, <2>1, ChildFacts, TreeLinks
    <3>2. link[n][d] \in D
      BY <2>4, <3>1
    <3>3. sub[p] \subseteq sub[link[n][d]]
      BY <1>1, <2>4, <3>2, Nested
    <3>4. QED
      BY <1>3, <3>3
  <2>6. QED
    BY <1>1, <2>1, <2>5 DEF IsTree
<1> HIDE DEF T
<1>13. CanReplace(L, D, T, less, p, s, parent, side)
  BY <1>1, <1>5, <1>9, <1>10, <1>11, <1>12 DEF CanReplace
<1>14. QED
  BY <1>13 DEF L, less, T

(* The links after the deletion of a node with two subtrees.               *)
Unlinked(p, s, parent, side) == [Successor(p) EXCEPT ![parent][side] = s]

(* They are those of a tree that s has left and in which it then took the  *)
(* place of p, in both of the code's cases.                                *)
LEMMA UnlinkedLinks ==
  ASSUME NEW p, NEW sub, NEW h, NEW parent, NEW side,
         CanUnlink(p, sub, h, parent, side), link[p][1] # NULL,
         NEW s, NEW r, NEW way, Descended(Descent(p), p, sub, s, r, way)
  PROVE  LinksReplaced(Unlinked(p, s, parent, side), LinksSpliced(link, s, 0, r, way),
                       DOMAIN data, DOMAIN data \ {s}, p, s, parent, side)
<1> DEFINE D == DOMAIN data
           T == D \ {s}
           U == (T \ {p}) \cup {s}
           L == LinksSpliced(link, s, 0, r, way)
           M == Successor(p)
           R == Unlinked(p, s, parent, side)
           descent == Descent(p)
<1>1. /\ IsTree(link, D, D, sub) /\ p \in D
      /\ parent \in Above(D) /\ side \in Sides /\ link[parent][side] = p
      /\ link \in [Above(D) -> [Sides -> D \cup {NULL}]]
  BY DEF CanUnlink, Fit, IsTree
<1>2. /\ s \in D /\ r \in D /\ way \in Sides /\ link[r][way] = s /\ s # p /\ r # s
      /\ link[s][0] = NULL /\ s = Last(descent).node
      /\ descent[Len(descent) - 1].node = r
      /\ Len(descent) = 2 => r = p /\ way = 1
      /\ Len(descent) # 2 => r # p /\ way = 0
  BY DEF Descended
<1>3. parent # s /\ parent # r /\ parent # p
  BY UnlinkFacts
<1>4. /\ 1 \in Sides /\ 0 \in Sides /\ p # NULL /\ s # NULL
      /\ p \in Above(D) /\ s \in Above(D) /\ r \in Above(D)
      /\ \A n \in Above(D), m \in Above(D), d \in Sides, e \in Sides :
           link[n][d] = link[m][e] /\ link[n][d] # NULL => n = m /\ d = e
  BY <1>1, <1>2, ChildFacts, TreeLinks DEF Sides
<1>5. /\ L[r][way] = link[s][1]
      /\ \A n \in Above(D), d \in Sides : ~(n = r /\ d = way) => L[n][d] = link[n][d]
  BY <1>1, <1>2, <1>4 DEF LinksSpliced
<1> HIDE DEF L
<1>6. /\ M \in [Above(D) -> [Sides -> D \cup {NULL}]]
      /\ \A n \in Above(D), d \in Sides :
           n # s /\ n # p /\ ~(n = r /\ d = way) => M[n][d] = link[n][d]
      /\ M[s][0] = L[p][0] /\ M[s][1] = L[p][1]
      /\ r # p => M[r][way] = link[s][1]
      /\ \A d \in Sides : M[p][d] = link[p][d]
  <2>1. CASE Len(descent) = 2
    <3>1. M = [link EXCEPT ![s][0] = link[p][0]] /\ r = p /\ way = 1
      BY <1>2, <2>1 DEF Successor
    <3>2. M[s][0] = link[p][0] /\ M[s][1] = link[s][1] /\ M[p] = link[p]
      BY <1>1, <1>2, <1>4, <3>1
    <3>3. L[p][0] = link[p][0] /\ L[p][1] = link[s][1]
      BY <1>4, <1>5, <3>1
    <3>4. /\ M \in [Above(D) -> [Sides -> D \cup {NULL}]]
          /\ \A n \in Above(D), d \in Sides : n # s => M[n][d] = link[n][d]
      BY <1>1, <1>2, <1>4, <3>1
    <3> HIDE DEF M
    <3>5. QED
      BY <3>1, <3>2, <3>3, <3>4
  <2>2. CASE Len(descent) # 2
    <3>1. M = [link EXCEPT ![s] = link[p], ![r][0] = link[s][1]] /\ r # p /\ way = 0
      BY <1>2, <2>2 DEF Successor
    <3>2. M[s] = link[p] /\ M[r][0] = link[s][1] /\ M[p] = link[p]
      BY <1>1, <1>2, <1>4, <3>1
    <3>3. L[p][0] = link[p][0] /\ L[p][1] = link[p][1]
      BY <1>4, <1>5, <3>1
    <3>4. /\ M \in [Above(D) -> [Sides -> D \cup {NULL}]]
          /\ \A n \in Above(D), d \in Sides :
               n # s /\ ~(n = r /\ d = 0) => M[n][d] = link[n][d]
      BY <1>1, <1>2, <1>4, <3>1
    <3> HIDE DEF M
    <3>5. QED
      BY <3>1, <3>2, <3>3, <3>4
  <2>3. QED
    BY <2>1, <2>2
<1> HIDE DEF M
<1>7. /\ R[parent][side] = s
      /\ \A n \in Above(D), d \in Sides :
           (n = parent => d # side) => R[n][d] = M[n][d]
      /\ R \in [Above(D) -> [Sides -> D \cup {NULL}]]
  BY <1>1, <1>2, <1>6 DEF Unlinked, M
<1> HIDE DEF R, descent
<1>8. \A d \in Sides : R[s][d] = L[p][d]
  BY <1>3, <1>4, <1>6, <1>7 DEF Sides
<1>9. \A n \in Above(D), d \in Sides :
        n # s /\ n # p /\ (n = parent => d # side) => R[n][d] = L[n][d]
  <2> SUFFICES ASSUME NEW n \in Above(D), NEW d \in Sides,
                      n # s, n # p, n = parent => d # side
               PROVE  R[n][d] = L[n][d]
    OBVIOUS
  <2>1. R[n][d] = M[n][d]
    BY <1>7
  <2>2. CASE n = r /\ d = way
    BY <1>5, <1>6, <2>1, <2>2
  <2>3. CASE ~(n = r /\ d = way)
    BY <1>5, <1>6, <2>1, <2>3
  <2>4. QED
    BY <2>2, <2>3
<1>10. \A d \in Sides : R[p][d] = link[p][d]
  BY <1>3, <1>4, <1>6, <1>7
<1>11. ASSUME NEW n \in Above(D), NEW d \in Sides PROVE R[n][d] # p
  <2>1. \A m \in Above(D), e \in Sides : (m = parent => e # side) => link[m][e] # p
    BY <1>1, <1>4
  <2>2. link[s][1] # p
    BY <1>3, <1>4, <2>1
  <2>3. \A m \in Above(D), e \in Sides : (m = parent => e # side) => L[m][e] # p
    BY <1>5, <2>1, <2>2
  <2>4. CASE n = parent /\ d = side
    BY <1>2, <1>7, <2>4
  <2>5. CASE ~(n = parent /\ d = side)
    <3>1. CASE n = s
      BY <1>3, <1>4, <1>8, <2>3, <3>1
    <3>2. CASE n = p
      BY <1>3, <1>4, <1>10, <2>1, <3>2
    <3>3. CASE n # s /\ n # p
      BY <1>9, <2>3, <2>5, <3>3
    <3>4. QED
      BY <3>1, <3>2, <3>3
  <2>6. QED
    BY <2>4, <2>5
<1>12. R \in [Above(D) -> [Sides -> U \cup {NULL}]]
  <2>1. \A n \in Above(D), d \in Sides : R[n][d] \in U \cup {NULL}
    BY <1>7, <1>11
  <2> HIDE DEF U
  <2>2. QED
    BY <1>7, <2>1
<1>13. \A n \in Above(T), d \in Sides :
         n # p /\ (n = parent => d # side) => R[n][d] = L[n][d]
  <2>1. Above(T) \subseteq Above(D) /\ s \notin Above(T)
    BY <1>1, <1>2, TreeLinks DEF Above
  <2>2. QED
    BY <1>9, <2>1
<1>14. LinksReplaced(R, L, D, T, p, s, parent, side)
  BY <1>7, <1>8, <1>12, <1>13 DEF LinksReplaced
<1>15. QED
  BY <1>14 DEF R, L

(* A deletion starts from a tree, with p's colour missing where a node     *)
(* has left.                                                               *)
LEMMA SuccessorFit ==
  ASSUME NEW p, NEW sub, NEW h, NEW parent, NEW side,
         CanUnlink(p, sub, h, parent, side), link[p][1] # NULL,
         NEW s, NEW r, NEW way, Descended(Descent(p), p, sub, s, r, way),
         NEW g, g = Instead(SplicedGap(color, s, r), p, s)
  PROVE  \E sub2, h2 : Fit(Unlinked(p, s, parent, side), DOMAIN data, DOMAIN data \ {p},
                           sub2, Swapped(p, s), h2, g, way, NULL, g)
<1> DEFINE D == DOMAIN data
           T == D \ {s}
           L == LinksSpliced(link, s, 0, r, way)
           R == Unlinked(p, s, parent, side)
           less == Spliced(D, sub, s)
           c2 == Swapped(p, s)
           spot == SplicedGap(color, s, r)
<1>1. /\ color \in [D -> Colors] /\ p \in D
      /\ Heights(link, D, color, h, NULL, 0) /\ Reds(link, D, color, NULL, 0, NULL)
  BY DEF CanUnlink, Fit
<1>2. /\ CanReplace(L, D, T, less, p, s, parent, side)
      /\ LinksReplaced(R, L, D, T, p, s, parent, side)
      /\ CanSplice(link, D, sub, s, 0, r, way)
  BY CanReplaceBySuccessor, UnlinkedLinks, UnlinkFacts
<1>3. s \in D /\ s # p /\ r # s
  BY DEF Descended
<1>4. PICK h1 : /\ Heights(L, T, color, h1, spot, way)
                /\ Reds(L, T, color, spot, way, NULL)
  BY <1>1, <1>2, SpliceColors
<1>5. spot # s
  <2>1. s # NULL
    BY <1>2, <1>3, ChildFacts DEF CanSplice
  <2>2. QED
    BY <1>3, <2>1 DEF SplicedGap
<1>6. c2 \in [D -> Colors] /\ c2[s] = color[p] /\ \A n \in T \ {p} : c2[n] = color[n]
  BY <1>1, <1>3 DEF Swapped
<1>7. (T \ {p}) \cup {s} = D \ {p}
  BY <1>3
<1> HIDE DEF T, D, L, R, less, c2, spot
<1>8. PICK h2 : /\ Heights(R, (T \ {p}) \cup {s}, c2, h2, Instead(spot, p, s), way)
                /\ Reds(R, (T \ {p}) \cup {s}, c2, Instead(spot, p, s), way, NULL)
  BY <1>2, <1>4, <1>5, <1>6, ReplaceColors
<1>9. IsTree(R, D, (T \ {p}) \cup {s}, Replaced(T, less, p, s))
  BY <1>2, ReplaceTree
<1>10. g = Instead(spot, p, s)
  BY DEF spot
<1>11. Fit(R, D, D \ {p}, Replaced(T, less, p, s), c2, h2, g, way, NULL, g)
  BY <1>6, <1>7, <1>8, <1>9, <1>10 DEF Fit
<1>12. QED
  BY <1>11 DEF R, D, c2

(* The same for a node without a right subtree.                            *)
LEMMA AloneFit ==
  ASSUME NEW p, NEW sub, NEW h, NEW parent, NEW side,
         CanUnlink(p, sub, h, parent, side), link[p][1] = NULL,
         NEW g, g = SplicedGap(color, p, parent)
  PROVE  \E sub2, h2 : Fit(LinksSpliced(link, p, 1, parent, side), DOMAIN data,
                           DOMAIN data \ {p}, sub2, color, h2, g, side, NULL, g)
<1> DEFINE D == DOMAIN data
           L == LinksSpliced(link, p, 1, parent, side)
<1>1. /\ color \in [D -> Colors] /\ 1 \in Sides
      /\ Heights(link, D, color, h, NULL, 0) /\ Reds(link, D, color, NULL, 0, NULL)
  BY DEF CanUnlink, Fit, Sides
<1>2. CanSplice(link, D, sub, p, 1, parent, side)
  BY <1>1 DEF CanUnlink, Fit, CanSplice
<1>3. IsTree(L, D, D \ {p}, Spliced(D, sub, p))
  BY <1>2, SpliceTree
<1>4. PICK h2 : /\ Heights(L, D \ {p}, color, h2, g, side)
                /\ Reds(L, D \ {p}, color, g, side, NULL)
  BY <1>1, <1>2, SpliceColors
<1> HIDE DEF L, D
<1>5. Fit(L, D, D \ {p}, Spliced(D, sub, p), color, h2, g, side, NULL, g)
  BY <1>1, <1>3, <1>4 DEF Fit
<1>6. QED
  BY <1>5 DEF L, D

(* A sequence whose entries are in a set is a sequence over it.            *)
LEMMA SeqInto ==
  ASSUME NEW S, NEW T, NEW s \in Seq(S), \A i \in 1 .. Len(s) : s[i] \in T
  PROVE  s \in Seq(T)
<1>1. PICK n \in Nat : s \in [1 .. n -> S]
  BY SeqDef
<1>2. Len(s) = n /\ s = [i \in 1 .. n |-> s[i]]
  BY <1>1
<1>3. s \in [1 .. n -> T]
  BY <1>1, <1>2
<1>4. QED
  BY <1>3, SeqDef

(* One path after another.                                                 *)
Joined(above, below) == above \o below

(* It is a path, if the first leads to the start of the second.            *)
LEMMA JoinPaths ==
  ASSUME NEW L, NEW T, NEW above, NEW below, IsPath(L, T, above), IsPath(L, T, below),
         above # << >>, below # << >>,
         L[Last(above).node][Last(above).side] = below[1].node, below[1].node \in T
  PROVE  /\ IsPath(L, T, Joined(above, below)) /\ Joined(above, below) # << >>
         /\ Joined(above, below)[1] = above[1] /\ Last(Joined(above, below)) = Last(below)
<1> DEFINE N == Len(above)
           K == Len(below)
           path == Joined(above, below)
<1>1. /\ above \in Seq(Links(T)) /\ below \in Seq(Links(T)) /\ path = above \o below
      /\ N \in Nat /\ K \in Nat
  BY LenProperties DEF IsPath, Joined
<1> HIDE DEF path
<1>2. N # 0 /\ K # 0
  BY <1>1, EmptySeq
<1>3. /\ path \in Seq(Links(T)) /\ Len(path) = N + K
      /\ \A i \in 1 .. N : path[i] = above[i]
      /\ \A i \in 1 .. K : path[N + i] = below[i]
  BY <1>1, JoinFacts
<1>4. Last(above) = above[N] /\ Last(below) = below[K] /\ Last(path) = path[N + K]
  BY <1>3 DEF Last
<1> HIDE DEF N, K
<1>5. 1 \in 1 .. N /\ N \in 1 .. N /\ 1 \in 1 .. K /\ K \in 1 .. K /\ N + K # 0
  BY <1>1, <1>2
<1>6. ASSUME NEW i \in 1 .. Len(path) - 1
      PROVE  L[path[i].node][path[i].side] = path[i + 1].node /\ path[i + 1].node \in T
  <2>1. i \in 1 .. N + K - 1
    <3>1. Len(path) = N + K
      BY <1>3
    <3>2. QED
      BY <1>1, <3>1
  <2>2. CASE i \in 1 .. N - 1
    <3>1. i \in 1 .. N /\ i + 1 \in 1 .. N
      BY <1>1, <2>2
    <3>2. path[i] = above[i] /\ path[i + 1] = above[i + 1]
      BY <1>3, <3>1
    <3>3. QED
      BY <2>2, <3>2 DEF IsPath, N
  <2>3. CASE i = N
    <3>1. path[i] = Last(above) /\ path[i + 1] = below[1]
      BY <1>3, <1>4, <1>5, <2>3
    <3>2. QED
      BY <3>1
  <2>4. CASE i - N \in 1 .. K - 1
    <3>1. PICK j \in 1 .. K - 1 : i = N + j /\ i + 1 = N + (j + 1)
      BY <1>1, <2>1, <2>4
    <3>2. j \in 1 .. K /\ j + 1 \in 1 .. K
      BY <1>1
    <3>3. path[i] = below[j] /\ path[i + 1] = below[j + 1]
      BY <1>3, <3>1, <3>2
    <3>4. QED
      BY <3>3 DEF IsPath, K
  <2>5. i \in 1 .. N - 1 \/ i = N \/ i - N \in 1 .. K - 1
    BY <1>1, <2>1
  <2>6. QED
    BY <2>2, <2>3, <2>4, <2>5
<1>7. path # << >>
  <2>1. Len(<< >>) = 0
    OBVIOUS
  <2>2. QED
    BY <1>3, <1>5, <2>1
<1>8. path[1] = above[1] /\ path[N + K] = below[K]
  BY <1>3, <1>5
<1>9. IsPath(L, T, path)
  BY <1>3, <1>6 DEF IsPath
<1>10. QED
  BY <1>4, <1>7, <1>8, <1>9 DEF path

(* The links from the root to p stay, but for the last.                    *)
KeptAbove(R, p, sub, parent) ==
  \A n \in Above(DOMAIN data), d \in Sides :
    n \notin sub[p] /\ n # parent => R[n][d] = link[n][d]

(* So the path of the search is still a path after the deletion.           *)
LEMMA PathAbove ==
  ASSUME NEW p, NEW sub, NEW h, NEW parent, NEW side,
         CanUnlink(p, sub, h, parent, side),
         NEW path, IsPath(link, DOMAIN data, path), path # << >>,
         Last(path) = [node |-> parent, side |-> side],
         NEW R, KeptAbove(R, p, sub, parent)
  PROVE  IsPath(R, DOMAIN data \ {p}, path)
<1> DEFINE D == DOMAIN data
           T == D \ {p}
           N == Len(path)
<1>1. /\ IsTree(link, D, D, sub) /\ p \in D
      /\ parent \in Above(D) /\ side \in Sides /\ link[parent][side] = p
  BY DEF CanUnlink, Fit
<1>2. /\ path \in Seq(Links(D)) /\ N \in Nat /\ path[N] = Last(path)
      /\ \A i \in 1 .. N - 1 :
           link[path[i].node][path[i].side] = path[i + 1].node /\ path[i + 1].node \in D
  BY LenProperties DEF IsPath, Last
<1>3. parent \notin sub[p] /\ p \in sub[p] /\ p # NULL
  BY <1>1, ChildFacts, ParentAbove
<1>4. \A i \in 1 .. N : path[i].node \notin sub[p]
  <2> SUFFICES ASSUME NEW i \in 1 .. N, path[i].node \in sub[p] PROVE FALSE
    OBVIOUS
  <2> DEFINE m == path[i].node
  <2>1. m \in D /\ sub[m] \subseteq sub[p]
    BY <1>1, Nested
  <2>2. path[N].node \notin sub[m]
    BY <1>2, <1>3, <2>1
  <2> HIDE DEF m
  <2>3. path[i].node # m
    BY <1>1, <2>1, <2>2, OffPath
  <2>4. QED
    BY <2>3 DEF m
<1>5. \A i \in 1 .. N :
        path[i].node \in Above(D) /\ path[i].side \in Sides /\ path[i] \in Links(D)
        /\ path[i].node # p
  BY <1>2, <1>3, <1>4, LinkFacts
<1>6. path \in Seq(Links(T))
  <2>1. \A i \in 1 .. N : path[i] \in Links(T)
    BY <1>5 DEF Links, Above
  <2> HIDE DEF T
  <2>2. QED
    BY <1>2, <2>1, SeqInto
<1>7. ASSUME NEW i \in 1 .. N - 1
      PROVE  R[path[i].node][path[i].side] = path[i + 1].node /\ path[i + 1].node \in T
  <2>1. i \in 1 .. N /\ i + 1 \in 1 .. N /\ N \in 1 .. N /\ i < N
    <3> HIDE DEF N
    <3>1. QED
      BY <1>2
  <2>2. path[N].node # path[i].node
    BY <1>1, <2>1, PathBelow
  <2>3. path[i].node # parent
    BY <1>2, <2>2
  <2>4. R[path[i].node][path[i].side] = link[path[i].node][path[i].side]
    BY <1>4, <1>5, <2>1, <2>3 DEF KeptAbove
  <2>5. QED
    BY <1>2, <1>5, <2>1, <2>4
<1> HIDE DEF T
<1>8. IsPath(R, T, path)
  BY <1>6, <1>7 DEF IsPath
<1>9. QED
  BY <1>8 DEF T

(* The way down after s took the place of p.                               *)
Lower(descent, l) == <<l>> \o SubSeq(descent, 2, Len(descent) - 1)

(* Its entries.                                                            *)
LEMMA LowerIs ==
  ASSUME NEW S, NEW descent \in Seq(S), 2 <= Len(descent), NEW l \in S
  PROVE  /\ Lower(descent, l) \in Seq(S) /\ Len(Lower(descent, l)) = Len(descent) - 1
         /\ Lower(descent, l)[1] = l /\ Lower(descent, l) # << >>
         /\ \A i \in 2 .. Len(descent) - 1 : Lower(descent, l)[i] = descent[i]
<1> DEFINE K == Len(descent)
           first == <<l>>
           end == SubSeq(descent, 2, K - 1)
           lower == Lower(descent, l)
<1>1. K \in Nat /\ 2 <= K
  OBVIOUS
<1>2. 2 \in 1 .. K + 1 /\ K - 1 \in (2 - 1) .. K
  <2> HIDE DEF K
  <2>1. QED
    BY <1>1
<1>3. /\ end \in Seq(S) /\ Len(end) = K - 2
      /\ \A i \in 1 .. K - 2 : end[i] = descent[i + 1]
  <2>1. \A i \in 2 .. K - 1 : descent[i] \in S
    <3>1. \A i \in 2 .. K - 1 : i \in 1 .. K
      <4> HIDE DEF K
      <4>1. QED
        BY <1>1
    <3>2. QED
      BY <3>1, ElementOfSeq
  <2>2. 2 \in Int /\ K - 1 \in Int
    BY <1>1
  <2>3. /\ end \in Seq(S) /\ Len(end) = IF 2 <= K - 1 THEN K - 1 - 2 + 1 ELSE 0
        /\ \A i \in 1 .. K - 1 - 2 + 1 : end[i] = descent[2 + i - 1]
    BY <2>1, <2>2, SubSeqProperties
  <2> HIDE DEF K, end
  <2>4. Len(end) = K - 2
    <3>1. (IF 2 <= K - 1 THEN K - 1 - 2 + 1 ELSE 0) = K - 2
      BY <1>1
    <3>2. QED
      BY <2>3, <3>1
  <2>5. ASSUME NEW i \in 1 .. K - 2 PROVE end[i] = descent[i + 1]
    <3>1. i \in 1 .. K - 1 - 2 + 1 /\ 2 + i - 1 = i + 1
      BY <1>1
    <3>2. end[i] = descent[2 + i - 1]
      BY <2>3, <3>1
    <3>3. QED
      BY <3>1, <3>2
  <2>6. QED
    BY <2>3, <2>4, <2>5
<1>4. first \in Seq(S) /\ Len(first) = 1 /\ first[1] = l
  OBVIOUS
<1>5. lower = first \o end
  BY DEF Lower
<1> HIDE DEF first, end, lower
<1>6. /\ lower \in Seq(S) /\ Len(lower) = Len(first) + Len(end)
      /\ \A i \in 1 .. Len(first) : lower[i] = first[i]
      /\ \A i \in 1 .. Len(end) : lower[Len(first) + i] = end[i]
  <2>1. first \in Seq(S) /\ end \in Seq(S) /\ lower = first \o end
    BY <1>3, <1>4, <1>5
  <2>2. QED
    BY <2>1, JoinFacts
<1> HIDE DEF K
<1>7. Len(lower) = K - 1 /\ Len(lower) # 0 /\ lower[1] = l
  BY <1>1, <1>3, <1>4, <1>6
<1>8. ASSUME NEW i \in 2 .. K - 1 PROVE lower[i] = descent[i]
  <2>1. PICK j \in 1 .. K - 2 : i = 1 + j /\ j + 1 = i
    BY <1>1
  <2>2. lower[1 + j] = end[j]
    BY <1>3, <1>4, <1>6
  <2>3. QED
    BY <1>3, <2>1, <2>2
<1>9. lower # << >>
  <2>1. Len(<< >>) = 0
    OBVIOUS
  <2>2. QED
    BY <1>7, <2>1
<1>10. QED
  BY <1>6, <1>7, <1>8, <1>9 DEF K, lower

(* It is a path in the new links, from s to where a node has left.         *)
LEMMA PathToSuccessor ==
  ASSUME NEW p, NEW sub, NEW h, NEW parent, NEW side,
         CanUnlink(p, sub, h, parent, side), link[p][1] # NULL,
         NEW s, NEW r, NEW way, Descended(Descent(p), p, sub, s, r, way),
         NEW lower, lower = Lower(Descent(p), [node |-> s, side |-> 1])
  PROVE  /\ KeptAbove(Unlinked(p, s, parent, side), p, sub, parent)
         /\ Unlinked(p, s, parent, side)[parent][side] = s
         /\ IsPath(Unlinked(p, s, parent, side), DOMAIN data \ {p}, lower)
         /\ lower # << >> /\ lower[1].node = s /\ s \in DOMAIN data \ {p}
         /\ Last(lower) = [node |-> Instead(r, p, s), side |-> way]
<1> DEFINE D == DOMAIN data
           T == D \ {p}
           L == LinksSpliced(link, s, 0, r, way)
           R == Unlinked(p, s, parent, side)
           descent == Descent(p)
           K == Len(descent)
<1>1. /\ IsTree(link, D, D, sub) /\ p \in D /\ 1 \in Sides /\ 0 \in Sides
      /\ link \in [Above(D) -> [Sides -> D \cup {NULL}]]
  BY DEF CanUnlink, Fit, Sides, IsTree
<1>2. /\ parent \notin sub[p] /\ parent # s /\ parent # p /\ s \in sub[p] /\ p \in sub[p]
      /\ sub[link[p][1]] \subseteq sub[p] /\ sub[p] \subseteq D
  BY <1>1, UnlinkFacts, ChildFacts
<1>3. /\ descent \in Seq(Links(D)) /\ IsPath(link, D, descent)
      /\ K \in Nat /\ 2 <= K
      /\ descent[1] = [node |-> p, side |-> 1]
      /\ \A i \in 2 .. K :
           /\ descent[i].node \in sub[link[p][1]] /\ descent[i].node # p
           /\ descent[i].side = 0
      /\ Last(descent) = descent[K] /\ Last(descent).node = s
      /\ descent[K - 1] = [node |-> r, side |-> way]
      /\ s \in D /\ s # p /\ r \in D /\ r \in sub[p] /\ r # s /\ way \in Sides
      /\ K = 2 => r = p /\ way = 1
      /\ K # 2 => r # p /\ way = 0
  BY DEF Descended
<1> HIDE DEF descent
<1>4. LinksReplaced(R, L, D, D \ {s}, p, s, parent, side)
  BY UnlinkedLinks
<1>5. /\ R[parent][side] = s /\ \A d \in Sides : R[s][d] = L[p][d]
      /\ \A n \in Above(D \ {s}), d \in Sides :
           n # p /\ (n = parent => d # side) => R[n][d] = L[n][d]
  BY <1>4 DEF LinksReplaced
<1>6. \A n \in Above(D), d \in Sides : ~(n = r /\ d = way) => L[n][d] = link[n][d]
  BY <1>1 DEF LinksSpliced
<1> HIDE DEF R, L
<1>7. \A n \in Above(D), d \in Sides :
        n # s /\ n # p /\ n # parent /\ n # r => R[n][d] = link[n][d]
  BY <1>5, <1>6 DEF Above
<1>8. KeptAbove(R, p, sub, parent)
  BY <1>2, <1>3, <1>7 DEF KeptAbove
<1> DEFINE l == [node |-> s, side |-> 1]
<1>9. l \in Links(D) /\ l.node = s /\ l.side = 1
  BY <1>1, <1>3 DEF Links, Above
<1>10. lower = Lower(descent, l)
  BY DEF descent
<1> HIDE DEF l
<1>11. /\ lower \in Seq(Links(D)) /\ Len(lower) = K - 1 /\ lower[1] = l /\ lower # << >>
       /\ \A i \in 2 .. K - 1 : lower[i] = descent[i]
  <2>1. descent \in Seq(Links(D)) /\ 2 <= Len(descent) /\ l \in Links(D)
    BY <1>3, <1>9
  <2>2. /\ Lower(descent, l) \in Seq(Links(D)) /\ Len(Lower(descent, l)) = Len(descent) - 1
        /\ Lower(descent, l)[1] = l /\ Lower(descent, l) # << >>
        /\ \A i \in 2 .. Len(descent) - 1 : Lower(descent, l)[i] = descent[i]
    BY <2>1, LowerIs
  <2>3. QED
    BY <1>10, <2>2
<1> HIDE DEF K
<1>12. \A i \in 1 .. K - 1 : i = 1 \/ i \in 2 .. K - 1
  BY <1>3
<1>13. \A i \in 2 .. K - 1 : i \in 2 .. K /\ i \in 1 .. K /\ i < K /\ K \in 1 .. K
  BY <1>3
<1>14. \A i \in 1 .. K - 1 : lower[i].node \in T
  <2>1. lower[1].node \in T
    BY <1>3, <1>9, <1>11
  <2>2. \A i \in 2 .. K - 1 : lower[i].node \in T
    BY <1>2, <1>3, <1>11, <1>13
  <2>3. QED
    BY <1>12, <2>1, <2>2
<1>15. lower \in Seq(Links(T))
  <2>1. \A i \in 1 .. Len(lower) : lower[i] \in Links(D)
    BY <1>11, LinkFacts
  <2>2. \A i \in 1 .. Len(lower) : lower[i] \in Links(T)
    BY <1>11, <1>14, <2>1 DEF Links, Above
  <2> HIDE DEF T
  <2>3. QED
    BY <1>11, <2>2, SeqInto
<1>16. ASSUME NEW i \in 1 .. Len(lower) - 1
       PROVE  R[lower[i].node][lower[i].side] = lower[i + 1].node /\ lower[i + 1].node \in T
  <2>1. /\ i \in 1 .. K - 2 /\ i + 1 \in 2 .. K - 1 /\ i + 1 \in 1 .. K - 1 /\ K # 2
        /\ i \in 1 .. K - 1 /\ i \in 1 .. K /\ K - 1 \in 1 .. K /\ i < K - 1
    BY <1>3, <1>11
  <2>2. lower[i + 1] = descent[i + 1] /\ lower[i + 1].node \in T
    BY <1>11, <1>14, <2>1
  <2>3. link[descent[i].node][descent[i].side] = descent[i + 1].node
    BY <1>3, <2>1 DEF IsPath, K
  <2>4. CASE i = 1
    <3>1. R[s][1] = L[p][1] /\ L[p][1] = link[p][1]
      BY <1>1, <1>3, <1>5, <1>6, <2>1 DEF Above
    <3>2. link[p][1] = descent[i + 1].node
      BY <1>3, <2>3, <2>4
    <3>3. QED
      BY <1>9, <1>11, <2>2, <2>4, <3>1, <3>2
  <2>5. CASE i \in 2 .. K - 1
    <3>1. lower[i] = descent[i] /\ i \in 2 .. K /\ i < K /\ K \in 1 .. K
      BY <1>11, <1>13, <2>5
    <3>2. /\ descent[i].node \in sub[p] /\ descent[i].node # p /\ descent[i].side \in Sides
          /\ descent[i].node \in Above(D)
      BY <1>1, <1>2, <1>3, <3>1 DEF Above
    <3>3. descent[K].node # descent[i].node
      BY <1>1, <1>3, <2>1, <3>1, PathBelow DEF K
    <3>4. descent[K - 1].node # descent[i].node
      BY <1>1, <1>3, <2>1, PathBelow DEF K
    <3>5. descent[i].node # s /\ descent[i].node # r /\ descent[i].node # parent
      BY <1>2, <1>3, <3>2, <3>3, <3>4
    <3>6. R[descent[i].node][descent[i].side] = link[descent[i].node][descent[i].side]
      BY <1>7, <3>2, <3>5
    <3>7. QED
      BY <2>2, <2>3, <3>1, <3>6
  <2>6. QED
    BY <1>12, <2>1, <2>4, <2>5
<1>17. IsPath(R, T, lower)
  <2> HIDE DEF T
  <2>1. QED
    BY <1>15, <1>16 DEF IsPath
<1>18. Last(lower) = [node |-> Instead(r, p, s), side |-> way]
  <2>1. Last(lower) = lower[K - 1]
    BY <1>11 DEF Last
  <2>2. CASE K = 2
    <3>1. K - 1 = 1
      BY <2>2
    <3>2. Last(lower) = [node |-> s, side |-> 1]
      BY <1>11, <2>1, <3>1 DEF l
    <3>3. QED
      BY <1>3, <2>2, <3>2 DEF Instead
  <2>3. CASE K # 2
    <3>1. K - 1 \in 2 .. K - 1
      BY <1>3, <2>3
    <3>2. Last(lower) = [node |-> r, side |-> way]
      BY <1>3, <1>11, <2>1, <3>1
    <3>3. QED
      BY <1>3, <2>3, <3>2 DEF Instead
  <2>4. QED
    BY <2>2, <2>3
<1>19. lower[1].node = s /\ s \in T
  BY <1>3, <1>9, <1>11
<1>20. QED
  BY <1>5, <1>8, <1>11, <1>17, <1>18, <1>19 DEF R

(* What a deletion does with the links L, the colours c and the stack path *)
(* that it has put together.                                               *)
UnlinkStep(L, c, p, path) ==
  \/ /\ c[p] = "red"
     /\ link' = Freed(L, p) /\ color' = Freed(c, p) /\ data' = Freed(data, p)
     /\ doing' = doing /\ stack' = stack /\ removed' = removed
  \/ /\ c[p] # "red"
     /\ link' = L /\ color' = c /\ data' = data
     /\ doing' = "delete" /\ stack' = path /\ removed' = p

(* A deletion that is done when the node is out of the tree.               *)
LEMMA UnlinkRed ==
  ASSUME IInv, doing = "nothing", NEW p \in DOMAIN data, NEW L, NEW c, NEW path,
         UnlinkStep(L, c, p, path), c[p] = "red",
         NEW sub, NEW h, NEW way \in Sides,
         Fit(L, DOMAIN data, DOMAIN data \ {p}, sub, c, h, NULL, way, NULL, NULL)
  PROVE  IInv'
<1> DEFINE D == DOMAIN data
           D2 == D \ {p}
<1>1. TypeOK /\ removed = NULL /\ stack = << >> /\ NULL \notin D
  BY Start, TreeFacts DEF TypeOK
<1>2. /\ link' = Freed(L, p) /\ color' = Freed(c, p) /\ data' = Freed(data, p)
      /\ doing' = "nothing" /\ stack' = << >> /\ removed' = NULL
  BY <1>1 DEF UnlinkStep
<1>3. Fit(L, D, D2, sub, c, h, NULL, 0, NULL, NULL)
  <2>1. NULL \notin D2 /\ ~IsRed(c, NULL) /\ NULL # Anchor
    BY <1>1, NodeFacts DEF IsRed
  <2> HIDE DEF D, D2
  <2>2. QED
    BY <2>1, NoException DEF D, D2
<1>4. Fit(link', D2, D2, sub, color', h, NULL, 0, NULL, NULL)
  BY <1>2, <1>3, FreedFit
<1>5. data' \in [D2 -> Volumes] /\ DOMAIN data' = D2 /\ D2 \subseteq D
  BY <1>1, <1>2 DEF TypeOK, Freed, Restrict
<1> HIDE DEF D, D2
<1>6. QED
  BY <1>1, <1>2, <1>4, <1>5, AtRest DEF D

(* A deletion that leaves a black node missing, at the end of its stack.   *)
LEMMA UnlinkBlack ==
  ASSUME IInv, doing = "nothing", NEW p \in DOMAIN data, NEW L, NEW c, NEW path,
         UnlinkStep(L, c, p, path), c[p] # "red",
         path # << >>, path[1] = RootLink, IsPath(L, DOMAIN data \ {p}, path),
         NEW g, NEW d, Last(path) = [node |-> g, side |-> d],
         NEW sub, NEW h,
         Fit(L, DOMAIN data, DOMAIN data \ {p}, sub, c, h, g, d, NULL, g)
  PROVE  IInv'
<1> DEFINE T == DOMAIN data \ {p}
<1>1. /\ link' = L /\ color' = c /\ data' = data
      /\ doing' = "delete" /\ stack' = path /\ removed' = p
  BY DEF UnlinkStep
<1>2. TypeOK /\ Tree' = T
  BY <1>1, Start DEF Tree
<1>3. Spot' = g /\ Way' = d /\ GapNode' = g
  BY <1>1 DEF Spot, Way, GapNode
<1>4. Fit(link', DOMAIN data', T, sub, color', h, g, d, Odd', g)
  <2>1. Reds(L, T, c, g, d, Odd')
    <3>1. Reds(L, T, c, g, d, NULL)
      BY DEF Fit
    <3>2. NULL \notin Above(T)
      BY <1>2, TreeFacts, NodeFacts DEF Above
    <3>3. QED
      BY <3>1, <3>2 DEF Reds
  <2> HIDE DEF T
  <2>2. QED
    BY <1>1, <2>1 DEF Fit, T
<1>5. Fit(link', (DOMAIN data)', Tree', sub, color', h, Spot', Way', Odd', GapNode')
  BY <1>2, <1>3, <1>4
<1>6. /\ IsPath(link', Tree', stack') /\ stack' # << >> /\ stack'[1] = RootLink
      /\ removed' \in DOMAIN data'
  BY <1>1, <1>2
<1>7. data' \in [DOMAIN data' -> Volumes] /\ DOMAIN data' \subseteq Prices
      /\ IsFiniteSet(DOMAIN data')
  BY <1>1, <1>2 DEF TypeOK
<1>8. Consistent'
  BY <1>1, <1>5, <1>6, <1>7 DEF Consistent
<1>9. QED
  BY <1>8, ConsistentAfter

(* Unlink is such a step, in both of the code's cases.                     *)
LEMMA UnlinkIs ==
  ASSUME NEW p, Unlink(p)
  PROVE  /\ doing = "nothing" /\ p \in DOMAIN data
         /\ link[p][1] = NULL =>
              UnlinkStep(LinksSpliced(link, p, 1, Last(Search(p)).node, Last(Search(p)).side),
                         color, p, Search(p) \o << >>)
         /\ link[p][1] # NULL =>
              UnlinkStep(Unlinked(p, Last(Descent(p)).node, Last(Search(p)).node,
                                  Last(Search(p)).side),
                         Swapped(p, Last(Descent(p)).node), p,
                         Joined(Search(p), Lower(Descent(p),
                                [node |-> Last(Descent(p)).node, side |-> 1])))
<1>1. 1 - 1 = 0
  OBVIOUS
<1>2. doing = "nothing" /\ p \in DOMAIN data
  BY DEF Unlink, ToDelete
<1>3. CASE link[p][1] = NULL
  <2>1. QED
    BY <1>1, <1>2, <1>3 DEF Unlink, UnlinkStep, LinksSpliced
<1>4. CASE link[p][1] # NULL
  <2>1. QED
    BY <1>2, <1>4 DEF Unlink, UnlinkStep, Unlinked, Joined, Lower
<1>5. QED
  BY <1>3, <1>4

(* rb_delete up to its loop keeps the invariant, in all cases.             *)
LEMMA UnlinkKeeps ==
  ASSUME IInv, NEW p \in ToDelete, Unlink(p)
  PROVE  IInv'
<1> DEFINE D == DOMAIN data
           path == Search(p)
           a == Last(path).node
           b == Last(path).side
           s == Last(Descent(p)).node
<1>1. doing = "nothing" /\ p \in D
  BY UnlinkIs
<1>2. /\ TypeOK /\ Tree = D /\ removed = NULL /\ p \in Nat /\ IsFiniteSet(D)
  BY <1>1, Start, TreeFacts
<1>3. PICK sub, h : Fit(link, D, D, sub, color, h, NULL, 0, NULL, NULL)
  <2>1. Spot = NULL /\ Way = 0 /\ Odd = NULL /\ GapNode = NULL
    BY <1>1 DEF Spot, Way, Odd, GapNode
  <2>2. QED
    BY <1>2, <2>1, Start
<1>4. SearchFound(path, p, sub)
  BY <1>2, <1>3, SearchIs DEF Fit
<1>5. /\ path \in Seq(Links(D)) /\ IsPath(link, D, path) /\ path[1] = RootLink
      /\ path # << >> /\ Last(path) = [node |-> a, side |-> b]
      /\ a \in Above(D) /\ b \in Sides /\ link[a][b] = p
  <2> HIDE DEF path
  <2>1. /\ path \in Seq(Links(D)) /\ Len(path) \in Nat \ {0} /\ IsPath(link, D, path)
        /\ path[1] = RootLink /\ Found(path) = p
    BY <1>1, <1>2, <1>4 DEF SearchFound
  <2>2. Len(path) \in 1 .. Len(path) /\ Last(path) = path[Len(path)]
    BY <2>1 DEF Last
  <2>3. Last(path) \in Links(D) /\ a \in Above(D) /\ b \in Sides
    BY <2>1, <2>2, LinkFacts
  <2>4. Last(path) = [node |-> a, side |-> b]
    BY <2>3 DEF Links
  <2>5. path # << >>
    BY <2>1
  <2>6. QED
    BY <2>1, <2>3, <2>4, <2>5 DEF Found, To
<1>6. CanUnlink(p, sub, h, a, b)
  BY <1>1, <1>2, <1>3, <1>5 DEF CanUnlink
<1>7. /\ link[p][1] = NULL => UnlinkStep(LinksSpliced(link, p, 1, a, b), color, p, path)
      /\ link[p][1] # NULL =>
           UnlinkStep(Unlinked(p, s, a, b), Swapped(p, s), p,
                      Joined(path, Lower(Descent(p), [node |-> s, side |-> 1])))
  <2>1. path \o << >> = path
    BY <1>5, ConcatEmptySeq
  <2>2. QED
    BY <2>1, UnlinkIs
<1> HIDE DEF path, a, b, s
<1>8. CASE link[p][1] = NULL
  <2> DEFINE L == LinksSpliced(link, p, 1, a, b)
             g == SplicedGap(color, p, a)
  <2>1. PICK sub2, h2 : Fit(L, D, D \ {p}, sub2, color, h2, g, b, NULL, g)
    BY <1>6, <1>8, AloneFit
  <2>2. UnlinkStep(L, color, p, path)
    BY <1>7, <1>8
  <2>3. CASE color[p] = "red"
    <3>1. g = NULL
      BY <2>3 DEF SplicedGap
    <3> HIDE DEF L, g
    <3>2. QED
      BY <1>1, <1>5, <2>1, <2>2, <2>3, <3>1, UnlinkRed
  <2>4. CASE color[p] # "red"
    <3>1. g = a
      BY <2>4 DEF SplicedGap
    <3>2. KeptAbove(L, p, sub, a)
      <4>1. link \in [Above(D) -> [Sides -> D \cup {NULL}]]
        BY <1>3 DEF Fit, IsTree
      <4>2. QED
        BY <1>5, <4>1 DEF KeptAbove, LinksSpliced
    <3> HIDE DEF L, g
    <3>3. IsPath(L, D \ {p}, path)
      BY <1>5, <1>6, <3>2, PathAbove
    <3>4. QED
      BY <1>1, <1>5, <2>1, <2>2, <2>4, <3>1, <3>3, UnlinkBlack
  <2>5. QED
    BY <2>3, <2>4
<1>9. CASE link[p][1] # NULL
  <2>1. PICK r, way : Descended(Descent(p), p, sub, s, r, way)
    BY <1>6, <1>9, DescentIs DEF s
  <2> DEFINE L == Unlinked(p, s, a, b)
             c2 == Swapped(p, s)
             lower == Lower(Descent(p), [node |-> s, side |-> 1])
             g == Instead(SplicedGap(color, s, r), p, s)
  <2>2. PICK sub2, h2 : Fit(L, D, D \ {p}, sub2, c2, h2, g, way, NULL, g)
    BY <1>6, <1>9, <2>1, SuccessorFit
  <2>3. UnlinkStep(L, c2, p, Joined(path, lower))
    BY <1>7, <1>9
  <2>4. c2[p] = color[s] /\ way \in Sides /\ p # NULL
    <3>1. color \in [D -> Colors] /\ s \in D /\ s # p /\ way \in Sides /\ NULL \notin D
      BY <1>2, <1>3, <2>1, TreeFacts DEF Fit, Descended
    <3>2. QED
      BY <1>1, <3>1 DEF Swapped
  <2>5. CASE color[s] = "red"
    <3>1. g = NULL
      BY <2>4, <2>5 DEF SplicedGap, Instead
    <3> HIDE DEF L, c2, g
    <3>2. c2[p] = "red"
      BY <2>4, <2>5
    <3>3. QED
      BY <1>1, <2>2, <2>3, <2>4, <3>1, <3>2, UnlinkRed
  <2>6. CASE color[s] # "red"
    <3>1. g = Instead(r, p, s)
      BY <2>6 DEF SplicedGap
    <3>2. /\ KeptAbove(L, p, sub, a) /\ L[a][b] = s /\ IsPath(L, D \ {p}, lower)
          /\ lower # << >> /\ lower[1].node = s /\ s \in D \ {p}
          /\ Last(lower) = [node |-> Instead(r, p, s), side |-> way]
      BY <1>6, <1>9, <2>1, PathToSuccessor
    <3> HIDE DEF L, c2, g, lower
    <3>3. IsPath(L, D \ {p}, path)
      BY <1>5, <1>6, <3>2, PathAbove
    <3>4. L[Last(path).node][Last(path).side] = lower[1].node /\ lower[1].node \in D \ {p}
      BY <1>5, <3>2
    <3>5. /\ IsPath(L, D \ {p}, Joined(path, lower)) /\ Joined(path, lower) # << >>
          /\ Joined(path, lower)[1] = RootLink
          /\ Last(Joined(path, lower)) = [node |-> g, side |-> way]
      <4>1. path # << >> /\ lower # << >>
        BY <1>5, <3>2
      <4>2. IsPath(L, D \ {p}, lower)
        BY <3>2
      <4> DEFINE T == D \ {p}
      <4> HIDE DEF T, D
      <4>3. /\ IsPath(L, T, Joined(path, lower)) /\ Joined(path, lower) # << >>
            /\ Joined(path, lower)[1] = path[1] /\ Last(Joined(path, lower)) = Last(lower)
        BY <3>3, <3>4, <4>1, <4>2, JoinPaths DEF T
      <4>4. QED
        BY <1>5, <3>1, <3>2, <4>3 DEF T
    <3>6. c2[p] # "red"
      BY <2>4, <2>6
    <3>7. QED
      BY <1>1, <2>2, <2>3, <3>5, <3>6, UnlinkBlack
  <2>7. QED
    BY <2>5, <2>6
<1>10. QED
  BY <1>8, <1>9

(* The empty tree is in order.                                             *)
LEMMA StartsInOrder ==
  Init => IInv
<1> SUFFICES ASSUME Init PROVE IInv
  OBVIOUS
<1> DEFINE sub == [n \in {NULL} |-> {}]
           h == [n \in {NULL} |-> 0]
<1>1. /\ link = [n \in {Anchor} |-> Nil] /\ color = << >> /\ data = << >>
      /\ doing = "nothing" /\ stack = << >> /\ removed = NULL
  BY DEF Init
<1>2. DOMAIN data = {} /\ color \in [{} -> Colors] /\ data \in [{} -> Volumes]
  BY <1>1
<1>3. Tree = {} /\ Above({}) = {Anchor}
  BY <1>2 DEF Tree, Above
<1>4. Spot = NULL /\ Way = 0 /\ Odd = NULL /\ GapNode = NULL
  BY <1>1 DEF Spot, Way, Odd, GapNode
<1>5. \A n \in {Anchor}, d \in Sides : link[n][d] = NULL
  BY <1>1 DEF Nil
<1>6. IsTree(link, {}, {}, sub)
  <2>1. link \in [{Anchor} -> [Sides -> {NULL}]]
    BY <1>1 DEF Nil
  <2>2. sub \in [{NULL} -> SUBSET {}] /\ sub[NULL] = {}
    OBVIOUS
  <2>3. IsFiniteSet({}) /\ 0 \in Sides /\ 1 \in Sides
    BY FS_EmptySet DEF Sides
  <2>4. {} \cup {NULL} = {NULL}
    OBVIOUS
  <2> HIDE DEF sub
  <2>5. QED
    BY <1>3, <1>5, <2>1, <2>2, <2>3, <2>4 DEF IsTree
<1>7. Heights(link, {}, color, h, NULL, 0) /\ Reds(link, {}, color, NULL, 0, NULL)
  <2>1. Heights(link, {}, color, h, NULL, 0)
    BY DEF Heights
  <2>2. Reds(link, {}, color, NULL, 0, NULL)
    BY <1>3, <1>5 DEF Reds, IsRed
  <2>3. QED
    BY <2>1, <2>2
<1>8. Fit(link, DOMAIN data, Tree, sub, color, h, Spot, Way, Odd, GapNode)
  <2> HIDE DEF sub, h
  <2>1. QED
    BY <1>2, <1>3, <1>4, <1>6, <1>7 DEF Fit
<1>9. Consistent
  <2>1. data \in [DOMAIN data -> Volumes] /\ DOMAIN data \subseteq Prices
        /\ IsFiniteSet(DOMAIN data)
    BY <1>2, FS_EmptySet
  <2> HIDE DEF sub, h
  <2>2. QED
    BY <1>1, <1>8, <2>1 DEF Consistent
<1>10. QED
  BY <1>9, ConsistentInv

(* A step that changes nothing changes nothing.                            *)
LEMMA StutterKeeps ==
  ASSUME IInv, UNCHANGED vars
  PROVE  IInv'
<1>1. /\ link' = link /\ color' = color /\ data' = data
      /\ doing' = doing /\ stack' = stack /\ removed' = removed
  BY DEF vars
<1>2. TypeOK
  BY DEF IInv
<1>3. PICK sub, h : Fit(link, DOMAIN data, Tree, sub, color, h, Spot, Way, Odd, GapNode)
  BY Start
<1>4. /\ Tree' = Tree /\ Spot' = Spot /\ Way' = Way /\ GapNode' = GapNode
      /\ Found(stack)' = Found(stack)
  BY <1>1 DEF Tree, Spot, Way, GapNode, Found, To
<1>5. Odd' = Odd
  BY <1>1 DEF Odd, x, pa, da
<1>6. Fit(link', (DOMAIN data)', Tree', sub, color', h, Spot', Way', Odd', GapNode')
  BY <1>1, <1>3, <1>4, <1>5
<1>7. \/ doing = "nothing" /\ stack = << >> /\ removed = NULL
      \/ /\ IsPath(link, Tree, stack) /\ stack # << >> /\ stack[1] = RootLink
         /\ \/ doing = "probe" /\ removed = NULL /\ IsRed(color, Found(stack))
            \/ doing = "delete" /\ removed \in DOMAIN data
  <2>1. CASE doing = "nothing"
    BY <1>2, <2>1, Start DEF TypeOK
  <2>2. CASE doing # "nothing"
    <3>1. IsPath(link, Tree, stack) /\ stack[1] = RootLink
      BY <2>2, StackFacts
    <3>2. stack # << >> /\ doing \in {"probe", "delete"}
      BY <1>2, <2>2 DEF TypeOK
    <3>3. doing = "probe" => removed = NULL /\ IsRed(color, Found(stack))
      BY Start DEF IInv, Linked, StackIsPath, Red, IsRed
    <3>4. doing = "delete" => removed \in DOMAIN data
      BY Start
    <3>5. QED
      BY <3>1, <3>2, <3>3, <3>4
  <2>3. QED
    BY <2>1, <2>2
<1>8. /\ data' \in [(DOMAIN data)' -> Volumes] /\ (DOMAIN data)' \subseteq Prices
      /\ IsFiniteSet((DOMAIN data)')
  BY <1>1, <1>2 DEF TypeOK
<1>9. Consistent'
  BY <1>1, <1>4, <1>6, <1>7, <1>8 DEF Consistent
<1>10. QED
  BY <1>9, ConsistentAfter

(* Every step of rb_replace and rb_delete, with any turn of either loop,   *)
(* keeps the invariant: the links, the order, the colours and the stack of *)
(* the code fit together after it if they did before.                      *)
THEOREM StepsKeepOrder ==
  IInv /\ [Next]_vars => IInv'
<1> SUFFICES ASSUME IInv, [Next]_vars PROVE IInv'
  OBVIOUS
<1>1. ASSUME NEW p \in Prices, NEW v \in Volumes, Replace(p, v) PROVE IInv'
  BY <1>1, ReplaceKeeps
<1>2. ASSUME NEW p \in Prices, NEW v \in Volumes, Probe(p, v) PROVE IInv'
  BY <1>2, ProbeKeeps
<1>3. ASSUME NEW p \in ToDelete, Unlink(p) PROVE IInv'
  BY <1>3, UnlinkKeeps
<1>4. CASE Rebalance
  BY <1>4, ProbeRecolorKeeps, ProbeRotateKeeps, ProbeDoneKeeps, DeleteDoneKeeps,
     DeleteRedSiblingKeeps, DeleteRecolorKeeps, DeleteRedNephewKeeps, DeleteRotateKeeps
     DEF Rebalance
<1>5. CASE UNCHANGED vars
  BY <1>5, StutterKeeps
<1>6. QED
  BY <1>1, <1>2, <1>3, <1>4, <1>5 DEF Next

(* In every behaviour, for every set of prices and volumes, they fit       *)
(* together at every step.                                                 *)
THEOREM AlwaysInOrder ==
  Spec => []IInv
<1>1. Init => IInv
  BY StartsInOrder
<1>2. IInv /\ [Next]_vars => IInv'
  BY StepsKeepOrder
<1>3. QED
  BY <1>1, <1>2, PTL DEF Spec

(* All variables stay in their ranges: a link of a node in memory leads to *)
(* a node in memory, or nowhere.                                           *)
THEOREM TreeTypeCorrect == Spec => []TypeOK
<1>1. IInv => TypeOK
  BY DEF IInv
<1>2. QED
  BY <1>1, AlwaysInOrder, PTL

(* No node has two parents or is linked after its deletion, and the stack  *)
(* of rb_probe's and rb_delete's loops is the path from the root to where  *)
(* the work is.                                                            *)
THEOREM TreeLinked == Spec => []Linked
<1>1. IInv => Linked
  BY DEF IInv
<1>2. QED
  BY <1>1, AlwaysInOrder, PTL

(* Every search of rb.c goes the right way: the nodes are in the order of  *)
(* the prices at every step of a rebalancing, and none is lost.            *)
THEOREM TreeSorted == Spec => []Sorted
<1>1. IInv => Sorted
  BY DEF IInv
<1>2. QED
  BY <1>1, AlwaysInOrder, PTL

(* A red node has black children and the root is black, at every step but  *)
(* for the one pair that the loops of rb.c:124 and rb.c:310 work on.       *)
THEOREM TreeRedRule == Spec => []RedRule
<1>1. IInv => RedRule
  BY DEF IInv
<1>2. QED
  BY <1>1, AlwaysInOrder, PTL

(* Every path from the root down has the same number of black nodes at     *)
(* every step, but for the one that a running deletion is about.           *)
THEOREM TreeBlackRule == Spec => []BlackRule
<1>1. IInv => BlackRule
  BY DEF IInv
<1>2. QED
  BY <1>1, AlwaysInOrder, PTL

(* The sibling that rb_delete's loop follows without a test (rb.c:320, 374)*)
(* is never NULL.                                                          *)
THEOREM TreeSiblingExists == Spec => []SiblingExists
<1>1. ASSUME IInv, Missing PROVE w # NULL
  <2> DEFINE T == Tree
  <2>1. /\ doing = "delete" /\ 2 <= Len(stack)
    BY <1>1 DEF Missing
  <2>2. /\ Spot \in T /\ Way \in Sides /\ x = link[Spot][Way] /\ w = link[Spot][1 - Way]
    BY <1>1, <2>1, AtGap
  <2>3. PICK sub, h : Fit(link, DOMAIN data, T, sub, color, h, Spot, Way, x, Spot)
    BY <1>1, <2>1, AtGap
  <2>4. 1 - Way \in Sides /\ 1 - Way # Way
    BY <2>2, SideFacts
  <2> HIDE DEF T
  <2>5. /\ h[Spot] = h[x] + 1 + Bk(color, Spot) /\ h[Spot] = h[w] + Bk(color, Spot)
        /\ h[x] \in Nat /\ h[w] \in Nat /\ h[NULL] = 0
    <3>1. /\ h[NULL] = 0
          /\ \A n \in Above(T), f \in Sides : h[link[n][f]] \in Nat
          /\ \A n \in T, f \in Sides :
               /\ ~(n = Spot /\ f = Way) => h[n] = h[link[n][f]] + Bk(color, n)
               /\ n = Spot /\ f = Way => h[n] = h[link[n][f]] + 1 + Bk(color, n)
          /\ \A n \in T : n \in Above(T)
      BY <2>3, FitFacts
    <3>2. QED
      BY <2>2, <2>4, <3>1
  <2>6. Bk(color, Spot) \in {0, 1}
    BY DEF Bk
  <2>7. h[w] # 0
    <3>1. h[x] + 1 = h[w]
      BY <2>5, <2>6
    <3>2. QED
      BY <2>5, <3>1
  <2>8. QED
    BY <2>5, <2>7
<1>2. IInv => SiblingExists
  BY <1>1 DEF SiblingExists
<1>3. QED
  BY <1>2, AlwaysInOrder, PTL

(* What the tree holds.                                                    *)
Held == [n \in Tree |-> data[n]]

(* What lies furthest on side d below n.                                   *)
Extreme(m, sub, n, d) ==
  m \in sub[n] /\ \A k \in sub[n] : k = m \/ Beside(k, 1 - d, m)

(* It is the node itself or what is furthest below its child on that side, *)
(* and there is only one.                                                  *)
LEMMA ExtremeFacts ==
  ASSUME NEW L, NEW D, NEW T, NEW sub, IsTree(L, D, T, sub), NEW n \in T, NEW d \in Sides
  PROVE  /\ L[n][d] = NULL => Extreme(n, sub, n, d)
         /\ \A m \in T : L[n][d] \in T /\ Extreme(m, sub, L[n][d], d) => Extreme(m, sub, n, d)
         /\ \A m, k : Extreme(m, sub, n, d) /\ Extreme(k, sub, n, d) => m = k
<1> DEFINE c == L[n][d]
           o == L[n][1 - d]
<1>1. /\ d \in Sides /\ 1 - d \in Sides /\ 1 - (1 - d) = d
  BY SideFacts
<1>2. /\ T \subseteq Nat /\ n \in Nat /\ sub[n] \subseteq T /\ n \in sub[n]
      /\ sub[n] = {n} \cup sub[c] \cup sub[o]
      /\ sub[NULL] = {}
  BY ChildFacts, TreeLinks
<1>3. /\ \A m \in sub[c] : Beside(m, d, n)
      /\ \A m \in sub[o] : Beside(m, 1 - d, n)
  BY <1>1 DEF IsTree
<1> HIDE DEF c, o
<1>4. c = NULL => Extreme(n, sub, n, d)
  BY <1>2, <1>3 DEF Extreme
<1>5. ASSUME NEW m \in T, Extreme(m, sub, c, d) PROVE Extreme(m, sub, n, d)
  <2>1. m \in Nat /\ m \in sub[c] /\ m \in sub[n]
    BY <1>2, <1>5 DEF Extreme
  <2>2. Beside(n, 1 - d, m)
    BY <1>2, <1>3, <2>1, BesideFacts
  <2>3. ASSUME NEW k \in sub[o] PROVE Beside(k, 1 - d, m)
    <3>1. k \in Nat /\ Beside(k, 1 - d, n)
      BY <1>2, <1>3, <2>3
    <3>2. QED
      BY <1>1, <1>2, <2>1, <2>2, <3>1, BesideFacts
  <2>4. QED
    BY <1>2, <1>5, <2>1, <2>2, <2>3 DEF Extreme
<1>6. ASSUME NEW m, NEW k, Extreme(m, sub, n, d), Extreme(k, sub, n, d) PROVE m = k
  <2>1. m \in Nat /\ k \in Nat /\ (k = m \/ Beside(k, 1 - d, m)) /\ (m = k \/ Beside(m, 1 - d, k))
    BY <1>2, <1>6 DEF Extreme
  <2>2. QED
    BY <2>1 DEF Beside
<1>7. QED
  BY <1>4, <1>5, <1>6 DEF c

(* rb_t_first and rb_t_last end at the lowest and the highest price.       *)
LEMMA EndIs ==
  ASSUME IInv, Root # NULL, NEW d \in Sides
  PROVE  /\ Outermost(d) \in Tree /\ Tree \subseteq Nat
         /\ \A m \in Tree : m = Outermost(d) \/ Beside(m, 1 - d, Outermost(d))
<1>1. PICK sub, h : Fit(link, DOMAIN data, Tree, sub, color, h, Spot, Way, Odd, GapNode)
  BY Start
<1>2. IsTree(link, DOMAIN data, Tree, sub) /\ removed \in DOMAIN data \cup {NULL}
  BY <1>1 DEF Fit, IInv, TypeOK
<1>3. /\ Tree \subseteq Nat /\ Tree \subseteq DOMAIN data /\ NULL \notin Tree
      /\ Root \in Tree /\ sub[Root] = Tree
      /\ \A n \in Tree : link[n][d] \in Tree \cup {NULL} /\ sub[n] \subseteq Tree
  <2>1. Root \in Tree \cup {NULL}
    BY <1>2, TreeLinks DEF Root, Sides
  <2>2. sub[Root] = Tree
    BY <1>2 DEF IsTree, Root
  <2>3. QED
    BY <1>2, <2>1, <2>2, TreeLinks, ChildFacts
<1>4. \A n \in DOMAIN data : link[n][d] \in Tree \cup {NULL}
  BY <1>2, AboveFacts DEF IsTree
<1> DEFINE Body(f) == [n \in DOMAIN data |-> IF link[n][d] = NULL THEN n ELSE f[link[n][d]]]
           end == CHOOSE f : f = Body(f)
           e(n) == CHOOSE m : Extreme(m, sub, n, d)
           P == {n \in Tree : \E m : Extreme(m, sub, n, d)}
           Q == {n \in Tree : end[n] = e(n)}
           whole == [n \in DOMAIN data |->
                       IF n \in Tree THEN e(n)
                       ELSE IF link[n][d] = NULL THEN n ELSE e(link[n][d])]
<1>5. Outermost(d) = end[Root]
  BY DEF Outermost
<1>6. Tree \subseteq P
  <2>1. ASSUME NEW n \in Tree, \A f \in Sides : link[n][f] \in P \cup {NULL}
        PROVE  n \in P
    <3>1. CASE link[n][d] = NULL
      BY <1>2, <3>1, ExtremeFacts
    <3>2. CASE link[n][d] # NULL
      <4>1. PICK m : Extreme(m, sub, link[n][d], d)
        BY <2>1, <3>2
      <4>2. link[n][d] \in Tree /\ m \in Tree
        BY <1>3, <3>2, <4>1 DEF Extreme
      <4>3. QED
        BY <1>2, <4>1, <4>2, ExtremeFacts
    <3>3. QED
      BY <3>1, <3>2
  <2> HIDE DEF P
  <2>2. QED
    BY <1>2, <2>1, TreeInduction
<1>7. \A n \in Tree : Extreme(e(n), sub, n, d)
  BY <1>6
<1>8. ASSUME NEW n \in Tree
      PROVE  e(n) = IF link[n][d] = NULL THEN n ELSE e(link[n][d])
  <2> HIDE DEF e
  <2>1. CASE link[n][d] = NULL
    BY <1>2, <1>7, <2>1, ExtremeFacts
  <2>2. CASE link[n][d] # NULL
    <3>1. link[n][d] \in Tree /\ e(link[n][d]) \in Tree
      BY <1>3, <1>7, <2>2 DEF Extreme
    <3>2. Extreme(e(link[n][d]), sub, n, d)
      BY <1>2, <1>7, <3>1, ExtremeFacts
    <3>3. QED
      BY <1>2, <1>7, <2>2, <3>2, ExtremeFacts
  <2>3. QED
    BY <2>1, <2>2
<1>9. whole = Body(whole)
  <2> HIDE DEF e
  <2>1. ASSUME NEW n \in DOMAIN data PROVE whole[n] = Body(whole)[n]
    BY <1>3, <1>4, <1>8, <2>1
  <2>2. QED
    BY <2>1
<1>10. end = Body(end)
  <2> HIDE DEF Body, whole
  <2>1. QED
    BY <1>9
<1>11. Tree \subseteq Q
  <2> HIDE DEF e, end, whole
  <2>1. ASSUME NEW n \in Tree, \A f \in Sides : link[n][f] \in Q \cup {NULL}
        PROVE  n \in Q
    <3>1. end[n] = IF link[n][d] = NULL THEN n ELSE end[link[n][d]]
      BY <1>3, <1>10
    <3>2. QED
      BY <1>8, <2>1, <3>1
  <2> HIDE DEF Q
  <2>2. QED
    BY <1>2, <2>1, TreeInduction
<1> HIDE DEF e, end
<1>12. Extreme(Outermost(d), sub, Root, d)
  BY <1>3, <1>5, <1>7, <1>11
<1>13. QED
  BY <1>3, <1>12 DEF Extreme

(* The minimum of a set, by its definition and by the order on the left.   *)
LEMMA FirstIs ==
  ASSUME NEW S, S \subseteq Nat, NEW o \in S, \A m \in S : m = o \/ o < m
  PROVE  \A k \in S : (\A m \in S : k =< m) <=> k = o
<1> SUFFICES ASSUME NEW k \in S PROVE (\A m \in S : k =< m) <=> k = o
  OBVIOUS
<1>1. ASSUME \A m \in S : k =< m PROVE k = o
  <2>1. k =< o /\ (k = o \/ o < k) /\ k \in Nat /\ o \in Nat
    BY <1>1
  <2>2. QED
    BY <2>1
<1>2. ASSUME k = o, NEW m \in S PROVE k =< m
  <2>1. (m = o \/ o < m) /\ m \in Nat /\ o \in Nat
    OBVIOUS
  <2>2. QED
    BY <1>2, <2>1
<1>3. QED
  BY <1>1, <1>2

(* The maximum of a set, by its definition and by the order on the right.  *)
LEMMA LastIs ==
  ASSUME NEW S, S \subseteq Nat, NEW o \in S, \A m \in S : m = o \/ m < o
  PROVE  \A k \in S : (\A m \in S : k >= m) <=> k = o
<1> SUFFICES ASSUME NEW k \in S PROVE (\A m \in S : k >= m) <=> k = o
  OBVIOUS
<1>1. ASSUME \A m \in S : k >= m PROVE k = o
  <2>1. k >= o /\ (k = o \/ k < o) /\ k \in Nat /\ o \in Nat
    BY <1>1
  <2>2. QED
    BY <2>1
<1>2. ASSUME k = o, NEW m \in S PROVE k >= m
  <2>1. (m = o \/ m < o) /\ m \in Nat /\ o \in Nat
    OBVIOUS
  <2>2. QED
    BY <1>2, <2>1
<1>3. QED
  BY <1>1, <1>2

(* The refinement mapping: the nodes below the root are those in memory,   *)
(* and the ends the code walks to are the abstract tree's.                 *)
LEMMA TreeIs ==
  IInv => /\ Nodes = Tree /\ [n \in Nodes |-> data[n]] = Held
          /\ Ends = Abstract!EndsOf(Held)
<1> SUFFICES ASSUME IInv
             PROVE  /\ Nodes = Tree /\ [n \in Nodes |-> data[n]] = Held
                    /\ Ends = Abstract!EndsOf(Held)
  OBVIOUS
<1>1. Nodes = Tree
  BY DEF IInv, Sorted, Subtrees, Nodes
<1>2. [n \in Nodes |-> data[n]] = Held
  BY <1>1 DEF Held
<1>3. DOMAIN Held = Tree
  BY DEF Held
<1>4. Root = NULL <=> Tree = {}
  <2>1. PICK sub, h : Fit(link, DOMAIN data, Tree, sub, color, h, Spot, Way, Odd, GapNode)
    BY Start
  <2>2. IsTree(link, DOMAIN data, Tree, sub)
    BY <2>1 DEF Fit
  <2>3. Root \in Tree \cup {NULL}
    BY <2>2, TreeLinks DEF Root, Sides
  <2>4. sub[NULL] = {} /\ sub[Root] = Tree
    BY <2>2 DEF IsTree, Root
  <2>5. QED
    BY <2>3, <2>4
<1>5. CASE Root = NULL
  BY <1>1, <1>2, <1>3, <1>4, <1>5 DEF Ends, Abstract!EndsOf
<1>6. CASE Root # NULL
  <2>1. 0 \in Sides /\ 1 \in Sides /\ 1 - 0 = 1 /\ 1 - 1 = 0
    BY DEF Sides
  <2>2. /\ Outermost(0) \in Tree /\ Tree \subseteq Nat
        /\ \A m \in Tree : m = Outermost(0) \/ Outermost(0) < m
    <3>1. \A m \in Tree : m = Outermost(0) \/ Beside(m, 1, Outermost(0))
      BY <1>6, <2>1, EndIs
    <3>2. QED
      BY <1>6, <2>1, <3>1, EndIs DEF Beside
  <2>3. /\ Outermost(1) \in Tree
        /\ \A m \in Tree : m = Outermost(1) \/ m < Outermost(1)
    <3>1. \A m \in Tree : m = Outermost(1) \/ Beside(m, 0, Outermost(1))
      BY <1>6, <2>1, EndIs
    <3>2. QED
      BY <1>6, <2>1, <3>1, EndIs DEF Beside
  <2>4. Abstract!Min(Tree) = Outermost(0)
    <3>1. \A k \in Tree : (\A m \in Tree : k =< m) <=> k = Outermost(0)
      BY <2>2, FirstIs
    <3>2. QED
      BY <2>2, <3>1 DEF Abstract!Min
  <2>5. Abstract!Max(Tree) = Outermost(1)
    <3>1. \A k \in Tree : (\A m \in Tree : k >= m) <=> k = Outermost(1)
      BY <2>2, <2>3, LastIs
    <3>2. QED
      BY <2>3, <3>1 DEF Abstract!Max
  <2>6. QED
    BY <1>1, <1>2, <1>3, <1>4, <1>6, <2>4, <2>5
       DEF Ends, Abstract!EndsOf, Abstract!rb_t_first, Abstract!rb_t_last
<1>7. QED
  BY <1>1, <1>2, <1>5, <1>6

(* A rebalancing changes nothing of what the tree holds.                   *)
LEMMA RebalanceHolds ==
  ASSUME IInv, Rebalance
  PROVE  Held' = Held
<1>1. CASE data' = data /\ removed' = removed
  BY <1>1 DEF Held, Tree
<1>2. ASSUME NEW L, NEW c, Finish(L, c), doing = "delete" PROVE Held' = Held
  <2>1. data' = Freed(data, removed) /\ removed' = NULL
    BY <1>2 DEF Finish
  <2>2. NULL \notin DOMAIN data
    BY TreeFacts DEF IInv
  <2>3. Tree' = Tree /\ \A n \in Tree : data'[n] = data[n]
    BY <2>1, <2>2 DEF Tree, Freed, Restrict
  <2>4. QED
    BY <2>3 DEF Held
<1>3. QED
  BY <1>1, <1>2
     DEF Rebalance, ProbeRecolor, ProbeRotate, ProbeDone, DeleteDone, DeleteRedSibling,
         DeleteRecolor, DeleteRedNephew, DeleteRotate, Turn, Missing

(* A search finds a price exactly if it is in the tree.                    *)
LEMMA SearchFinds ==
  ASSUME IInv, doing = "nothing", NEW price \in Prices
  PROVE  /\ Tree = DOMAIN data /\ removed = NULL /\ NULL \notin DOMAIN data /\ price # NULL
         /\ Found(Search(price)) = IF price \in Tree THEN price ELSE NULL
<1>1. /\ Tree = DOMAIN data /\ removed = NULL /\ NULL \notin DOMAIN data /\ price # NULL
      /\ price \in Nat
  BY Start, TreeFacts, PricesAssumption DEF NULL
<1>2. PICK sub, h : Fit(link, DOMAIN data, Tree, sub, color, h, Spot, Way, Odd, GapNode)
  BY Start
<1>3. SearchFound(Search(price), price, sub)
  BY <1>1, <1>2, SearchIs DEF Fit
<1>4. QED
  BY <1>1, <1>3 DEF SearchFound

(* Every step is a step or a stutter of the tree as a function of prices.  *)
LEMMA StepHolds ==
  ASSUME IInv, [Next]_vars
  PROVE  \/ \E p \in Prices, v \in Volumes : Held' = Abstract!rb_replace(Held, p, v)
         \/ \E p \in Prices : /\ p \in DOMAIN Held /\ Held[p] = 0
                              /\ Held' = Abstract!rb_delete(Held, p)
         \/ Held' = Held
<1>1. ASSUME NEW p \in Prices, NEW v \in Volumes, Replace(p, v)
      PROVE  Held' = Abstract!rb_replace(Held, p, v)
  <2>1. /\ data' = [data EXCEPT ![p] = v] /\ removed' = removed /\ doing = "nothing"
        /\ Found(Search(p)) = p
    BY <1>1 DEF Replace
  <2>2. Tree = DOMAIN data /\ p \in Tree
    BY <2>1, SearchFinds
  <2>3. Tree' = Tree /\ Tree \cup {p} = Tree
    BY <2>1, <2>2 DEF Tree
  <2>4. Held = [n \in Tree |-> data[n]] /\ Held' = [n \in Tree |-> data'[n]]
    BY <2>3 DEF Held
  <2>5. QED
    BY <2>1, <2>2, <2>3, <2>4 DEF Abstract!rb_replace
<1>2. ASSUME NEW p \in Prices, NEW v \in Volumes, Probe(p, v)
      PROVE  Held' = Abstract!rb_replace(Held, p, v)
  <2>1. /\ data' = [n \in DOMAIN data \cup {p} |-> IF n = p THEN v ELSE data[n]]
        /\ removed' = removed /\ doing = "nothing" /\ Found(Search(p)) = NULL
    BY <1>2 DEF Probe
  <2>2. /\ Tree = DOMAIN data /\ p \notin Tree /\ removed = NULL
        /\ NULL \notin DOMAIN data /\ p # NULL
    BY <2>1, SearchFinds
  <2>3. Tree' = Tree \cup {p}
    BY <2>1, <2>2 DEF Tree
  <2>4. Held = [n \in Tree |-> data[n]] /\ Held' = [n \in Tree \cup {p} |-> data'[n]]
    BY <2>3 DEF Held
  <2>5. QED
    BY <2>1, <2>2, <2>3, <2>4 DEF Abstract!rb_replace
<1>3. ASSUME NEW p \in ToDelete, Unlink(p)
      PROVE  /\ p \in Prices /\ p \in DOMAIN Held /\ Held[p] = 0
             /\ Held' = Abstract!rb_delete(Held, p)
  <2>1. p \in DOMAIN data /\ data[p] = 0 /\ doing = "nothing" /\ p \in Prices
    BY <1>3 DEF Unlink, ToDelete, IInv, TypeOK
  <2>2. Tree = DOMAIN data /\ removed = NULL /\ NULL \notin DOMAIN data
    BY <2>1, SearchFinds
  <2>3. \/ data' = Freed(data, p) /\ removed' = removed
        \/ data' = data /\ removed' = p
    BY <1>3 DEF Unlink
  <2>4. Tree' = Tree \ {p} /\ \A n \in Tree \ {p} : data'[n] = data[n]
    BY <2>2, <2>3 DEF Tree, Freed, Restrict
  <2>5. /\ Held = [n \in Tree |-> data[n]]
        /\ Held' = [n \in Tree \ {p} |-> data'[n]]
    BY <2>4 DEF Held
  <2>6. QED
    BY <2>1, <2>2, <2>4, <2>5 DEF Abstract!rb_delete, Abstract!Restrict
<1>4. CASE Rebalance
  BY <1>4, RebalanceHolds
<1>5. CASE UNCHANGED vars
  BY <1>5 DEF vars, Held, Tree
<1>6. QED
  BY <1>1, <1>2, <1>3, <1>4, <1>5 DEF Next

(* The tree of rb.c implements the function of prices that table.h takes   *)
(* it for: every rb_replace and rb_delete changes one price of it, no      *)
(* rebalancing changes any, and its two ends are the lowest and the        *)
(* highest price.                                                          *)
THEOREM TreeIsFunction ==
  Spec => ImplementsPriceTree
<1>1. Init => Abstract!Init
  <2> SUFFICES ASSUME Init PROVE Abstract!Init
    OBVIOUS
  <2>1. IInv
    BY StartsInOrder
  <2>2. Tree = {}
    BY DEF Init, Tree
  <2>3. Held = [n \in {} |-> 0]
    BY <2>2 DEF Held
  <2>4. Abstract!EndsOf(Held) = {}
    BY <2>3 DEF Abstract!EndsOf
  <2>5. QED
    BY <2>1, <2>3, <2>4, TreeIs DEF Abstract!Init, Abstract!EmptyTree
<1>2. IInv /\ IInv' /\ [Next]_vars
        => [Abstract!Next]_<<[n \in Nodes |-> data[n]], Ends>>
  <2> SUFFICES ASSUME IInv, IInv', [Next]_vars
               PROVE  [Abstract!Next]_<<[n \in Nodes |-> data[n]], Ends>>
    OBVIOUS
  <2>1. [n \in Nodes |-> data[n]] = Held /\ Ends = Abstract!EndsOf(Held)
    BY TreeIs
  <2>2. ([n \in Nodes |-> data[n]] = Held /\ Ends = Abstract!EndsOf(Held))'
    <3>1. (IInv => /\ Nodes = Tree /\ [n \in Nodes |-> data[n]] = Held
                   /\ Ends = Abstract!EndsOf(Held))'
      BY TreeIs, PTL
    <3>2. QED
      BY <3>1
  <2>3. CASE \E p \in Prices, v \in Volumes : Held' = Abstract!rb_replace(Held, p, v)
    BY <2>1, <2>2, <2>3 DEF Abstract!Next, Abstract!Enter, Abstract!EndsOf
  <2>4. CASE \E p \in Prices : /\ p \in DOMAIN Held /\ Held[p] = 0
                               /\ Held' = Abstract!rb_delete(Held, p)
    BY <2>1, <2>2, <2>4 DEF Abstract!Next, Abstract!Withdraw, Abstract!EndsOf
  <2>5. CASE Held' = Held
    BY <2>1, <2>2, <2>5 DEF Abstract!EndsOf
  <2>6. QED
    BY <2>3, <2>4, <2>5, StepHolds
<1>3. QED
  BY <1>1, <1>2, AlwaysInOrder, PTL DEF Spec, ImplementsPriceTree, Abstract!Spec
=============================================================================
