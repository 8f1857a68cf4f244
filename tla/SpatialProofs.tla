---------------------------- MODULE SpatialProofs ----------------------------
(***************************************************************************)
(* What SpatialTree.tla guarantees for every number of keys, all boxes,    *)
(* regions, points and paddings, and any choice of siblings and build      *)
(* orders: the tree stays balanced and its caches right, padding stays     *)
(* bounded, and both searches answer as the plain map would.               *)
(***************************************************************************)
EXTENDS SpatialTree, NaturalRecursion, FiniteSetTheorems

Names == 1..(2 * NumKeys)

Box == [lo : Int, hi : Int]

NodeRecord == [parent : Names \cup {None}, left : Names \cup {None},
               right : Names \cup {None}, height : Nat, box : Box, least : Int]

Trees == [root : Names \cup {None},
          nodes : UNION {[D -> NodeRecord] : D \in SUBSET Names}]

LEMMA Extremes ==
    ASSUME NEW a \in Int, NEW b \in Int
    PROVE  /\ Max({a, b}) = IF a >= b THEN a ELSE b
           /\ Min({a, b}) = IF a <= b THEN a ELSE b
BY DEF Max, Min

LEMMA UnitedBox ==
    ASSUME NEW a \in Box, NEW b \in Box
    PROVE  /\ United(a, b) \in Box
           /\ Contains(United(a, b), a) /\ Contains(United(a, b), b)
<1>1. a.lo \in Int /\ a.hi \in Int /\ b.lo \in Int /\ b.hi \in Int
  BY DEF Box
<1>2. /\ Min({a.lo, b.lo}) = IF a.lo <= b.lo THEN a.lo ELSE b.lo
      /\ Max({a.hi, b.hi}) = IF a.hi >= b.hi THEN a.hi ELSE b.hi
  BY <1>1, Extremes
<1> QED
  BY <1>1, <1>2 DEF Box, United, Contains

LEMMA BranchFields ==
    ASSUME NEW parent, NEW left, NEW right, NEW l, NEW r
    PROVE  LET b == Branch(parent, left, right, l, r)
           IN  b.parent = parent /\ b.left = left /\ b.right = right
               /\ b.box = United(l.box, r.box)
BY DEF Branch

LEMMA BranchHeight ==
    ASSUME NEW parent, NEW left, NEW right, NEW l, NEW r,
           l.height \in Nat, r.height \in Nat
    PROVE  Branch(parent, left, right, l, r).height
               = 1 + (IF l.height >= r.height THEN l.height ELSE r.height)
BY Extremes DEF Branch

LEMMA BranchType ==
    ASSUME NEW parent \in Names \cup {None}, NEW left \in Names, NEW right \in Names,
           NEW l \in NodeRecord, NEW r \in NodeRecord
    PROVE  LET b == Branch(parent, left, right, l, r)
           IN  /\ b \in NodeRecord
               /\ b.parent = parent /\ b.left = left /\ b.right = right
               /\ b.height = 1 + (IF l.height >= r.height THEN l.height ELSE r.height)
               /\ b.box = United(l.box, r.box)
               /\ Contains(b.box, l.box) /\ Contains(b.box, r.box)
<1>1. /\ l.height \in Nat /\ r.height \in Nat /\ l.least \in Int /\ r.least \in Int
      /\ l.box \in Box /\ r.box \in Box
  BY DEF NodeRecord
<1>2. Min({l.least, r.least}) \in Int
  BY <1>1, Extremes
<1>3. Max({l.height, r.height}) = IF l.height >= r.height THEN l.height ELSE r.height
  BY <1>1, Extremes
<1> QED
  BY <1>1, <1>2, <1>3, UnitedBox DEF Branch, NodeRecord

LEMMA TreeFields ==
    ASSUME NEW t \in Trees
    PROVE  /\ t = [root |-> t.root, nodes |-> t.nodes]
           /\ t.root \in Names \cup {None}
           /\ DOMAIN t.nodes \subseteq Names
           /\ t.nodes \in [DOMAIN t.nodes -> NodeRecord]
           /\ \A n \in DOMAIN t.nodes : t.nodes[n] \in NodeRecord
BY DEF Trees

LEMMA WithEffect ==
    ASSUME NEW t \in Trees, NEW n \in DOMAIN t.nodes, NEW node \in NodeRecord
    PROVE  LET u == With(t, n, node)
           IN  /\ u \in Trees
               /\ u.root = t.root
               /\ DOMAIN u.nodes = DOMAIN t.nodes
               /\ \A m \in DOMAIN t.nodes :
                      u.nodes[m] = IF m = n THEN node ELSE t.nodes[m]
<1> DEFINE f == [t.nodes EXCEPT ![n] = node]
           u == With(t, n, node)
<1>1. /\ t = [root |-> t.root, nodes |-> t.nodes] /\ t.root \in Names \cup {None}
      /\ DOMAIN t.nodes \subseteq Names /\ t.nodes \in [DOMAIN t.nodes -> NodeRecord]
  BY TreeFields
<1>2. u = [root |-> t.root, nodes |-> f]
  BY <1>1 DEF With
<1>3. /\ DOMAIN f = DOMAIN t.nodes /\ f \in [DOMAIN t.nodes -> NodeRecord]
      /\ \A m \in DOMAIN t.nodes : f[m] = IF m = n THEN node ELSE t.nodes[m]
  BY <1>1
<1> HIDE DEF f
<1>4. f \in UNION {[D -> NodeRecord] : D \in SUBSET Names}
  BY <1>1, <1>3
<1> QED
  BY <1>1, <1>2, <1>3, <1>4 DEF Trees

-----------------------------------------------------------------------------
(* The edits a rotation is made of *)

Swapped(node, old, new) ==
    IF node.left = old THEN [node EXCEPT !.left = new]
    ELSE [node EXCEPT !.right = new]

Under(node, p) == [node EXCEPT !.parent = p]
Raised(node, p, l, r) == [node EXCEPT !.parent = p, !.left = l, !.right = r]

LEMMA UnderFields ==
    ASSUME NEW node \in NodeRecord, NEW p \in Names \cup {None}
    PROVE  LET x == Under(node, p)
           IN  /\ x \in NodeRecord /\ x.parent = p
               /\ x.left = node.left /\ x.right = node.right
               /\ x.height = node.height /\ x.box = node.box /\ x.least = node.least
BY DEF NodeRecord, Under

LEMMA RaisedFields ==
    ASSUME NEW node \in NodeRecord, NEW p \in Names \cup {None},
           NEW l \in Names \cup {None}, NEW r \in Names \cup {None}
    PROVE  LET x == Raised(node, p, l, r)
           IN  /\ x \in NodeRecord /\ x.parent = p /\ x.left = l /\ x.right = r
               /\ x.height = node.height /\ x.box = node.box /\ x.least = node.least
BY DEF NodeRecord, Raised

LEMMA SwappedFields ==
    ASSUME NEW node \in NodeRecord, NEW old, NEW new \in Names
    PROVE  LET x == Swapped(node, old, new)
           IN  /\ x \in NodeRecord /\ x.parent = node.parent
               /\ x.left = IF node.left = old THEN new ELSE node.left
               /\ x.right = IF node.left = old THEN node.right ELSE new
               /\ x.height = node.height /\ x.box = node.box /\ x.least = node.least
BY DEF NodeRecord, Swapped

LEMMA ReplaceChildEffect ==
    ASSUME NEW t \in Trees, NEW old, NEW new \in Names,
           NEW parent \in DOMAIN t.nodes \cup {None}
    PROVE  LET u == ReplaceChild(t, parent, old, new)
           IN  /\ u \in Trees
               /\ u.root = IF parent = None THEN new ELSE t.root
               /\ DOMAIN u.nodes = DOMAIN t.nodes
               /\ \A m \in DOMAIN t.nodes : u.nodes[m] =
                      IF m = parent THEN Swapped(t.nodes[m], old, new) ELSE t.nodes[m]
<1> DEFINE u == ReplaceChild(t, parent, old, new)
<1>1. /\ t = [root |-> t.root, nodes |-> t.nodes]
      /\ DOMAIN t.nodes \subseteq Names /\ None \notin Names
      /\ \A n \in DOMAIN t.nodes : t.nodes[n] \in NodeRecord
  BY TreeFields DEF Names, None
<1>2. CASE parent = None
  <2>1. u = [root |-> new, nodes |-> t.nodes]
    BY <1>1, <1>2 DEF ReplaceChild
  <2>2. t.nodes \in UNION {[D -> NodeRecord] : D \in SUBSET Names}
    BY DEF Trees
  <2>3. \A m \in DOMAIN t.nodes : m # parent
    BY <1>1, <1>2
  <2>4. u \in Trees
    BY <2>1, <2>2 DEF Trees
  <2>5. u.root = new /\ u.nodes = t.nodes
    BY <2>1
  <2> QED
    BY <1>2, <2>3, <2>4, <2>5
<1>3. CASE parent # None
  <2>1. Swapped(t.nodes[parent], old, new) \in NodeRecord
    BY <1>1, <1>3, SwappedFields
  <2>2. u = With(t, parent, Swapped(t.nodes[parent], old, new))
    BY <1>3 DEF ReplaceChild, Swapped
  <2> QED
    BY <1>3, <2>1, <2>2, WithEffect
<1> QED
  BY <1>2, <1>3

LEMMA ReparentedEffect ==
    ASSUME NEW t \in Trees, NEW n \in DOMAIN t.nodes, NEW parent \in Names \cup {None}
    PROVE  LET u == Reparented(t, n, parent)
           IN  /\ u \in Trees
               /\ u.root = t.root
               /\ DOMAIN u.nodes = DOMAIN t.nodes
               /\ \A m \in DOMAIN t.nodes : u.nodes[m] =
                      IF m = n THEN Under(t.nodes[n], parent) ELSE t.nodes[m]
<1> DEFINE x == Under(t.nodes[n], parent)
<1>1. x \in NodeRecord
  BY TreeFields, UnderFields
<1>2. Reparented(t, n, parent) = With(t, n, x)
  BY DEF Reparented, Under
<1> HIDE DEF x
<1>3. LET u == With(t, n, x)
      IN  /\ u \in Trees
          /\ u.root = t.root
          /\ DOMAIN u.nodes = DOMAIN t.nodes
          /\ \A m \in DOMAIN t.nodes : u.nodes[m] = IF m = n THEN x ELSE t.nodes[m]
  BY <1>1, WithEffect
<1> QED
  BY <1>2, <1>3 DEF x

(* _sync of a branch. *)
LEMMA SyncEffect ==
    ASSUME NEW t \in Trees, NEW n \in DOMAIN t.nodes,
           t.nodes[n].left \in DOMAIN t.nodes, t.nodes[n].right \in DOMAIN t.nodes
    PROVE  LET u == Sync(t, n)
               node == t.nodes[n]
           IN  /\ u \in Trees
               /\ u.root = t.root
               /\ DOMAIN u.nodes = DOMAIN t.nodes
               /\ u.nodes[n] = Branch(node.parent, node.left, node.right,
                                      t.nodes[node.left], t.nodes[node.right])
               /\ \A m \in DOMAIN t.nodes \ {n} : u.nodes[m] = t.nodes[m]
<1> DEFINE node == t.nodes[n]
           b == Branch(node.parent, node.left, node.right,
                       t.nodes[node.left], t.nodes[node.right])
<1>1. /\ DOMAIN t.nodes \subseteq Names /\ None \notin Names
      /\ \A m \in DOMAIN t.nodes : t.nodes[m] \in NodeRecord
  BY TreeFields DEF Names, None
<1>2. node.parent \in Names \cup {None}
  BY <1>1 DEF NodeRecord
<1>3. b \in NodeRecord
  BY <1>1, <1>2, BranchType
<1>4. Sync(t, n) = With(t, n, b)
  BY <1>1 DEF Sync, IsLeaf
<1> HIDE DEF b
<1>5. LET u == With(t, n, b)
      IN  /\ u \in Trees
          /\ u.root = t.root
          /\ DOMAIN u.nodes = DOMAIN t.nodes
          /\ \A m \in DOMAIN t.nodes : u.nodes[m] = IF m = n THEN b ELSE t.nodes[m]
  BY <1>3, WithEffect
<1> QED
  BY <1>4, <1>5 DEF b

-----------------------------------------------------------------------------
(* Trees whose links are right *)

LeafAt(t, n) ==
    LET node == t.nodes[n]
    IN  /\ n \in Keys /\ node.left = None /\ node.right = None
        /\ node.height = 0 /\ node.least = n

ForkAt(t, n) ==
    LET node == t.nodes[n]
    IN  /\ n \notin Keys /\ node.left # node.right
        /\ node.left \in DOMAIN t.nodes /\ t.nodes[node.left].parent = n
        /\ node.right \in DOMAIN t.nodes /\ t.nodes[node.right].parent = n

ChildOf(t, n, parent) ==
    /\ parent \in DOMAIN t.nodes /\ parent # n
    /\ n = t.nodes[parent].left \/ n = t.nodes[parent].right

Linked(t) ==
    /\ t \in Trees
    /\ IF t.root = None THEN DOMAIN t.nodes = {}
       ELSE t.root \in DOMAIN t.nodes /\ t.nodes[t.root].parent = None
    /\ \A n \in DOMAIN t.nodes : n # t.root => ChildOf(t, n, t.nodes[n].parent)
    /\ \A n \in DOMAIN t.nodes : LeafAt(t, n) \/ ForkAt(t, n)

(* What is linked to a branch n and to its child heavy, a branch too. *)
Beside(t, n, heavy) ==
    LET up == t.nodes[heavy].left
        down == t.nodes[heavy].right
    IN  /\ n \in Names /\ ForkAt(t, n)
        /\ heavy \in DOMAIN t.nodes /\ ForkAt(t, heavy)
        /\ up \in DOMAIN t.nodes /\ down \in DOMAIN t.nodes
        /\ up # down /\ n # heavy
        /\ t.nodes[up].parent = heavy /\ t.nodes[down].parent = heavy
        /\ n # up /\ n # down /\ heavy # up /\ heavy # down
        /\ t.nodes[heavy].parent = n

LEMMA Around ==
    ASSUME NEW t, Linked(t), NEW n \in DOMAIN t.nodes \ Keys,
           NEW heavy \in {t.nodes[n].left, t.nodes[n].right}, heavy \notin Keys,
           t.nodes[n].parent # heavy
    PROVE  Beside(t, n, heavy)
<1>1. /\ DOMAIN t.nodes \subseteq Names /\ None \notin Names
      /\ \A m \in DOMAIN t.nodes : t.nodes[m] \in NodeRecord
  BY TreeFields DEF Linked, Names, None
<1>2. ForkAt(t, n)
  BY DEF Linked, LeafAt
<1>3. heavy \in DOMAIN t.nodes /\ t.nodes[heavy].parent = n
  BY <1>2 DEF ForkAt
<1>4. ForkAt(t, heavy)
  BY <1>3 DEF Linked, LeafAt
<1>5. \A m \in DOMAIN t.nodes : t.nodes[m].parent # m
  <2> SUFFICES ASSUME NEW m \in DOMAIN t.nodes, t.nodes[m].parent = m PROVE FALSE
    OBVIOUS
  <2>1. m # t.root
    BY <1>1 DEF Linked
  <2> QED
    BY <2>1 DEF Linked, ChildOf
<1>6. heavy # n
  BY <1>3, <1>5
<1>7. /\ t.nodes[heavy].left \in DOMAIN t.nodes /\ t.nodes[heavy].right \in DOMAIN t.nodes
      /\ t.nodes[heavy].left # t.nodes[heavy].right
      /\ t.nodes[t.nodes[heavy].left].parent = heavy
      /\ t.nodes[t.nodes[heavy].right].parent = heavy
  BY <1>4 DEF ForkAt
<1> QED
  BY <1>1, <1>2, <1>3, <1>4, <1>5, <1>6, <1>7 DEF Beside

(* The rotation, link by link. *)
Turned(t, n, heavy, r, up, down) ==
    LET node == t.nodes[heavy]
        above == t.nodes[n].parent
        x == Swapped(t.nodes[n], heavy, down)
    IN  /\ up # down /\ {up, down} = {node.left, node.right}
        /\ up = node.left <=> Taller(t, node.left, node.right)
        /\ r \in Trees /\ DOMAIN r.nodes = DOMAIN t.nodes
        /\ r.root = IF above = None THEN heavy ELSE t.root
        /\ \A m \in DOMAIN t.nodes \ {n, heavy, down, above} : r.nodes[m] = t.nodes[m]
        /\ r.nodes[down] = Under(t.nodes[down], n)
        /\ above # None => r.nodes[above] = Swapped(t.nodes[above], n, heavy)
        /\ r.nodes[n] = Branch(heavy, x.left, x.right, r.nodes[x.left], r.nodes[x.right])
        /\ r.nodes[heavy] = Branch(above, n, up, r.nodes[n], r.nodes[up])

LEMMA RotateEffect ==
    ASSUME NEW t, Linked(t), NEW n \in DOMAIN t.nodes \ Keys,
           NEW heavy \in {t.nodes[n].left, t.nodes[n].right}, heavy \notin Keys,
           t.nodes[n].parent \notin {heavy, t.nodes[heavy].left, t.nodes[heavy].right}
    PROVE  \E up, down \in DOMAIN t.nodes : Turned(t, n, heavy, Rotate(t, n, heavy), up, down)
<1> DEFINE node == t.nodes[heavy]
           above == t.nodes[n].parent
           up == IF Taller(t, node.left, node.right) THEN node.left ELSE node.right
           down == IF up = node.left THEN node.right ELSE node.left
           h == Raised(node, above, n, up)
           t1 == With(t, heavy, h)
           t2 == ReplaceChild(t1, above, n, heavy)
           t3 == Reparented(t2, n, heavy)
           t4 == Reparented(t3, down, n)
           t5 == ReplaceChild(t4, n, heavy, down)
           t6 == Sync(t5, n)
           t7 == Sync(t6, heavy)
           D == DOMAIN t.nodes
<1>1. /\ D \subseteq Names /\ None \notin Names /\ t \in Trees
      /\ \A m \in D : t.nodes[m] \in NodeRecord
  BY TreeFields DEF Linked, Names, None
<1>2. /\ n \in D /\ heavy \in D /\ node.left \in D /\ node.right \in D
      /\ node.left # node.right /\ n # heavy
      /\ n \notin {node.left, node.right} /\ heavy \notin {node.left, node.right}
      /\ t.nodes[heavy].parent = n
      /\ t.nodes[n].left \in D /\ t.nodes[n].right \in D
      /\ t.nodes[n].left # t.nodes[n].right
      /\ t.nodes[node.left].parent = heavy /\ t.nodes[node.right].parent = heavy
  <2>1. Beside(t, n, heavy)
    BY Around
  <2>2. /\ ForkAt(t, n) /\ ForkAt(t, heavy) /\ heavy \in D
        /\ node.left \in D /\ node.right \in D /\ node.left # node.right /\ n # heavy
        /\ t.nodes[node.left].parent = heavy /\ t.nodes[node.right].parent = heavy
        /\ n # node.left /\ n # node.right /\ heavy # node.left /\ heavy # node.right
        /\ t.nodes[heavy].parent = n
    BY <2>1 DEF Beside
  <2>3. /\ t.nodes[n].left \in D /\ t.nodes[n].right \in D
        /\ t.nodes[n].left # t.nodes[n].right
    BY <2>2 DEF ForkAt
  <2> QED
    BY <2>2, <2>3
<1>3. /\ up \in D /\ down \in D /\ up # down /\ {up, down} = {node.left, node.right}
      /\ up = node.left <=> Taller(t, node.left, node.right)
  BY <1>2
<1>4. above \in D \cup {None} /\ above # n /\ above # up /\ above # down /\ above # heavy
  <2>1. n # t.root => above \in D /\ above # n
    BY <1>2 DEF Linked, ChildOf
  <2>2. n = t.root => above = None
    BY <1>1, <1>2 DEF Linked
  <2> QED
    BY <1>1, <1>2, <1>3, <2>1, <2>2
<1>5. Rotate(t, n, heavy) = t7
  BY DEF Rotate, Raised
<1> HIDE DEF up, down, above
<1>6. n # up /\ n # down /\ heavy # up /\ heavy # down
  BY <1>2, <1>3
<1>7. h \in NodeRecord /\ h.parent = above /\ h.left = n /\ h.right = up
  <2>1. /\ node \in NodeRecord /\ above \in Names \cup {None}
        /\ n \in Names \cup {None} /\ up \in Names \cup {None}
    BY <1>1, <1>2, <1>3, <1>4
  <2> HIDE DEF node
  <2>2. Raised(node, above, n, up) \in NodeRecord
    BY <2>1, RaisedFields
  <2>3. Raised(node, above, n, up).parent = above
    BY <2>1 DEF Raised, NodeRecord
  <2>4. Raised(node, above, n, up).left = n
    BY <2>1 DEF Raised, NodeRecord
  <2>5. Raised(node, above, n, up).right = up
    BY <2>1 DEF Raised, NodeRecord
  <2> QED
    BY <2>2, <2>3, <2>4, <2>5 DEF h
<1> HIDE DEF h
<1>8. /\ t1 \in Trees /\ t1.root = t.root /\ DOMAIN t1.nodes = D
      /\ \A m \in D : t1.nodes[m] = IF m = heavy THEN h ELSE t.nodes[m]
  BY <1>1, <1>2, <1>7, WithEffect
<1> HIDE DEF t1
<1>9. /\ t2 \in Trees /\ DOMAIN t2.nodes = D
      /\ t2.root = IF above = None THEN heavy ELSE t.root
      /\ \A m \in D : t2.nodes[m] = IF m = above THEN Swapped(t1.nodes[m], n, heavy)
                                    ELSE t1.nodes[m]
  <2>1. heavy \in Names /\ above \in DOMAIN t1.nodes \cup {None}
    BY <1>1, <1>2, <1>4, <1>8
  <2> DEFINE u == ReplaceChild(t1, above, n, heavy)
  <2>2. /\ u \in Trees
        /\ u.root = IF above = None THEN heavy ELSE t1.root
        /\ DOMAIN u.nodes = DOMAIN t1.nodes
        /\ \A m \in DOMAIN t1.nodes : u.nodes[m] =
               IF m = above THEN Swapped(t1.nodes[m], n, heavy) ELSE t1.nodes[m]
    <3> HIDE DEF D
    <3> QED
      BY <1>8, <2>1, ReplaceChildEffect
  <2> HIDE DEF u
  <2>3. t2 = u
    BY DEF u
  <2> HIDE DEF t2
  <2> QED
    BY <1>8, <2>2, <2>3
<1> HIDE DEF t2
<1>10. /\ t3 \in Trees /\ DOMAIN t3.nodes = D /\ t3.root = t2.root
       /\ \A m \in D : t3.nodes[m] = IF m = n THEN Under(t2.nodes[n], heavy)
                                     ELSE t2.nodes[m]
  BY <1>1, <1>2, <1>9, ReparentedEffect
<1> HIDE DEF t3
<1>11. /\ t4 \in Trees /\ DOMAIN t4.nodes = D /\ t4.root = t2.root
       /\ \A m \in D : t4.nodes[m] = IF m = down THEN Under(t3.nodes[down], n)
                                     ELSE t3.nodes[m]
  BY <1>1, <1>2, <1>3, <1>10, ReparentedEffect
<1> HIDE DEF t4
<1>12. /\ t5 \in Trees /\ DOMAIN t5.nodes = D /\ t5.root = t2.root
       /\ \A m \in D : t5.nodes[m] = IF m = n THEN Swapped(t4.nodes[m], heavy, down)
                                     ELSE t4.nodes[m]
  <2>1. down \in Names /\ n \in DOMAIN t4.nodes \cup {None} /\ n # None
    BY <1>1, <1>2, <1>3, <1>11
  <2> DEFINE u == ReplaceChild(t4, n, heavy, down)
  <2>2. /\ u \in Trees
        /\ u.root = IF n = None THEN down ELSE t4.root
        /\ DOMAIN u.nodes = DOMAIN t4.nodes
        /\ \A m \in DOMAIN t4.nodes : u.nodes[m] =
               IF m = n THEN Swapped(t4.nodes[m], heavy, down) ELSE t4.nodes[m]
    <3> HIDE DEF D
    <3> QED
      BY <1>11, <2>1, ReplaceChildEffect
  <2> HIDE DEF u
  <2>3. t5 = u
    BY DEF u
  <2> HIDE DEF t5
  <2> QED
    BY <1>11, <2>1, <2>2, <2>3
<1> HIDE DEF t5
<1> DEFINE x == Swapped(t.nodes[n], heavy, down)
           y == Swapped(Under(t.nodes[n], heavy), heavy, down)
<1>13. /\ x.left \in D /\ x.right \in D /\ x.left # n /\ x.right # n
       /\ x.left # heavy /\ x.right # heavy
       /\ y.left = x.left /\ y.right = x.right /\ y.parent = heavy
  <2>1. \A m \in D : t.nodes[m].parent = m => FALSE
    BY <1>1 DEF Linked, ChildOf
  <2>2. /\ t.nodes[n].left # n /\ t.nodes[n].right # n
    <3>1. ForkAt(t, n)
      BY DEF Linked, LeafAt
    <3> QED
      BY <1>2, <2>1, <3>1 DEF ForkAt
  <2>3. /\ x.left = IF t.nodes[n].left = heavy THEN down ELSE t.nodes[n].left
        /\ x.right = IF t.nodes[n].left = heavy THEN t.nodes[n].right ELSE down
    BY <1>1, <1>2, <1>3, SwappedFields
  <2>4. LET z == Under(t.nodes[n], heavy)
        IN  z \in NodeRecord /\ z.parent = heavy /\ z.left = t.nodes[n].left
            /\ z.right = t.nodes[n].right
    <3>1. t.nodes[n] \in NodeRecord /\ heavy \in Names \cup {None}
      BY <1>1, <1>2
    <3> QED
      BY <3>1, UnderFields
  <2>5. y.left = x.left /\ y.right = x.right /\ y.parent = heavy
    <3> DEFINE z == Under(t.nodes[n], heavy)
    <3>1. /\ z \in NodeRecord /\ z.parent = heavy /\ z.left = t.nodes[n].left
          /\ z.right = t.nodes[n].right /\ down \in Names
      BY <1>1, <1>3, <2>4
    <3>2. y = Swapped(z, heavy, down)
      OBVIOUS
    <3> HIDE DEF z, y
    <3> QED
      BY <2>3, <3>1, <3>2, SwappedFields
  <2> QED
    BY <1>2, <1>3, <1>6, <2>2, <2>3, <2>5
<1> HIDE DEF x, y
<1>14. /\ t5.nodes[n] = y /\ t5.nodes[heavy] = h
       /\ t5.nodes[down] = Under(t.nodes[down], n)
       /\ above # None => t5.nodes[above] = Swapped(t.nodes[above], n, heavy)
       /\ \A m \in D \ {n, heavy, down, above} : t5.nodes[m] = t.nodes[m]
  BY <1>2, <1>3, <1>4, <1>6, <1>8, <1>9, <1>10, <1>11, <1>12 DEF y
<1>15. /\ t6 \in Trees /\ DOMAIN t6.nodes = D /\ t6.root = t2.root
       /\ t6.nodes[n] = Branch(heavy, x.left, x.right, t5.nodes[x.left], t5.nodes[x.right])
       /\ \A m \in D \ {n} : t6.nodes[m] = t5.nodes[m]
  BY <1>2, <1>12, <1>13, <1>14, SyncEffect
<1> HIDE DEF t6
<1>16. /\ t7 \in Trees /\ DOMAIN t7.nodes = D /\ t7.root = t2.root
       /\ t7.nodes[heavy] = Branch(above, n, up, t6.nodes[n], t6.nodes[up])
       /\ \A m \in D \ {heavy} : t7.nodes[m] = t6.nodes[m]
  BY <1>2, <1>3, <1>6, <1>7, <1>14, <1>15, SyncEffect
<1> HIDE DEF t7
<1>17. /\ t7.nodes[n] = Branch(heavy, x.left, x.right, t7.nodes[x.left], t7.nodes[x.right])
       /\ t7.nodes[heavy] = Branch(above, n, up, t7.nodes[n], t7.nodes[up])
       /\ t7.nodes[down] = Under(t.nodes[down], n)
       /\ above # None => t7.nodes[above] = Swapped(t.nodes[above], n, heavy)
       /\ \A m \in D \ {n, heavy, down, above} : t7.nodes[m] = t.nodes[m]
  BY <1>2, <1>3, <1>4, <1>6, <1>13, <1>14, <1>15, <1>16
<1>18. t7.root = IF above = None THEN heavy ELSE t.root
  BY <1>9, <1>16
<1>19. Turned(t, n, heavy, t7, up, down)
  BY <1>3, <1>16, <1>17, <1>18 DEF Turned, x, above
<1> QED
  BY <1>3, <1>5, <1>19

(* _sync of a branch whose caches are right changes nothing. *)
LEMMA SyncSame ==
    ASSUME NEW t \in Trees, NEW n \in DOMAIN t.nodes,
           NEW left \in DOMAIN t.nodes, NEW right \in DOMAIN t.nodes,
           NEW p \in Names \cup {None},
           t.nodes[n] = Branch(p, left, right, t.nodes[left], t.nodes[right])
    PROVE  Sync(t, n) = t
<1> DEFINE D == DOMAIN t.nodes
           node == t.nodes[n]
<1>1. /\ t = [root |-> t.root, nodes |-> t.nodes] /\ None \notin Names /\ D \subseteq Names
      /\ t.nodes \in [D -> NodeRecord]
      /\ \A m \in D : t.nodes[m] \in NodeRecord
  BY TreeFields DEF Names, None
<1>2. node.parent = p /\ node.left = left /\ node.right = right
  BY <1>1, BranchType
<1>3. ~IsLeaf(t, n)
  BY <1>1, <1>2 DEF IsLeaf
<1>4. Sync(t, n) = With(t, n, node)
  BY <1>2, <1>3 DEF Sync
<1>5. [t.nodes EXCEPT ![n] = t.nodes[n]] = t.nodes
  BY <1>1
<1>6. With(t, n, node) = [root |-> t.root, nodes |-> [t.nodes EXCEPT ![n] = t.nodes[n]]]
  BY <1>1 DEF With
<1> QED
  BY <1>1, <1>4, <1>5, <1>6

-----------------------------------------------------------------------------
(* Repairing a tree from one changed branch up to the root *)

(* The caches of n are those of its children, and it does not lean. *)
Fits(t, n) ==
    LET node == t.nodes[n]
        l == t.nodes[node.left]
        r == t.nodes[node.right]
    IN  /\ l.height - r.height \in -1..1
        /\ node = Branch(node.parent, node.left, node.right, l, r)

(* One subtree of n has grown or shrunk by one level since n was synced.   *)
Nearly(t, n) ==
    LET node == t.nodes[n]
        l == t.nodes[node.left].height
        r == t.nodes[node.right].height
        high == 1 + (IF l >= r THEN l ELSE r)
    IN  /\ l - r \in -2..2
        /\ high - node.height \in -1..1
        /\ l - r \in {-2, 2} => high >= node.height

Repairing(t, at) ==
    /\ Linked(t)
    /\ \A n \in DOMAIN t.nodes \ Keys : n # at => Fits(t, n)
    /\ at # None => at \in DOMAIN t.nodes \ Keys /\ Nearly(t, at)

Sound(t) == Repairing(t, None)

LEMMA LinkedFields ==
    ASSUME NEW t, Linked(t)
    PROVE  /\ t \in Trees /\ DOMAIN t.nodes \subseteq Names /\ None \notin Names
           /\ \A n \in DOMAIN t.nodes :
                  /\ t.nodes[n] \in NodeRecord /\ t.nodes[n].height \in Nat
                  /\ t.nodes[n].box \in Box /\ t.nodes[n].least \in Int
                  /\ t.nodes[n].parent \in DOMAIN t.nodes \cup {None}
                  /\ t.nodes[n].parent # n
                  /\ n \in Keys => LeafAt(t, n)
                  /\ n \notin Keys => ForkAt(t, n)
           /\ \A n \in DOMAIN t.nodes :
                  t.nodes[n].parent # None => ChildOf(t, n, t.nodes[n].parent)
           /\ \A n \in DOMAIN t.nodes :
                  t.nodes[n].parent = None => n = t.root
<1>1. /\ t \in Trees /\ DOMAIN t.nodes \subseteq Names /\ None \notin Names
      /\ \A n \in DOMAIN t.nodes : t.nodes[n] \in NodeRecord
  BY TreeFields DEF Linked, Names, None
<1>2. ASSUME NEW n \in DOMAIN t.nodes
      PROVE  /\ t.nodes[n].height \in Nat /\ t.nodes[n].box \in Box
             /\ t.nodes[n].least \in Int
  BY <1>1 DEF NodeRecord
<1>3. ASSUME NEW n \in DOMAIN t.nodes
      PROVE  /\ n \in Keys => LeafAt(t, n)
             /\ n \notin Keys => ForkAt(t, n)
  BY DEF Linked, LeafAt, ForkAt
<1>4. ASSUME NEW n \in DOMAIN t.nodes
      PROVE  /\ t.nodes[n].parent \in DOMAIN t.nodes \cup {None}
             /\ t.nodes[n].parent # n
             /\ t.nodes[n].parent # None => ChildOf(t, n, t.nodes[n].parent)
             /\ t.nodes[n].parent = None => n = t.root
  <2>1. CASE n = t.root
    BY <1>1, <2>1 DEF Linked
  <2>2. CASE n # t.root
    BY <1>1, <2>2 DEF Linked, ChildOf
  <2> QED
    BY <2>1, <2>2
<1> QED
  BY <1>1, <1>2, <1>3, <1>4

LEMMA FitsHeights ==
    ASSUME NEW t, Linked(t), NEW n \in DOMAIN t.nodes \ Keys, Fits(t, n)
    PROVE  LET l == t.nodes[t.nodes[n].left].height
               r == t.nodes[t.nodes[n].right].height
           IN  /\ l \in Nat /\ r \in Nat /\ l - r \in -1..1
               /\ t.nodes[n].height = 1 + (IF l >= r THEN l ELSE r)
<1> DEFINE node == t.nodes[n]
           l == t.nodes[node.left]
           r == t.nodes[node.right]
           b == Branch(node.parent, node.left, node.right, l, r)
<1>1. /\ ForkAt(t, n) /\ node.parent \in Names \cup {None}
      /\ DOMAIN t.nodes \subseteq Names
  BY LinkedFields
<1>2. /\ node.left \in DOMAIN t.nodes /\ node.right \in DOMAIN t.nodes
  BY <1>1 DEF ForkAt
<1>3. /\ l \in NodeRecord /\ r \in NodeRecord /\ l.height \in Nat /\ r.height \in Nat
  BY <1>2, LinkedFields
<1>4. node = b /\ l.height - r.height \in -1..1
  BY DEF Fits
<1>5. b.height = 1 + (IF l.height >= r.height THEN l.height ELSE r.height)
  BY <1>3, BranchHeight
<1> QED
  BY <1>3, <1>4, <1>5

(* A tree with the same links is linked too. *)
LEMMA SameLinks ==
    ASSUME NEW t, Linked(t), NEW u \in Trees, u.root = t.root,
           DOMAIN u.nodes = DOMAIN t.nodes,
           \A m \in DOMAIN t.nodes :
               /\ u.nodes[m].parent = t.nodes[m].parent
               /\ u.nodes[m].left = t.nodes[m].left
               /\ u.nodes[m].right = t.nodes[m].right,
           \A m \in DOMAIN t.nodes \cap Keys : u.nodes[m] = t.nodes[m]
    PROVE  Linked(u)
<1>1. IF u.root = None THEN DOMAIN u.nodes = {}
      ELSE u.root \in DOMAIN u.nodes /\ u.nodes[u.root].parent = None
  BY DEF Linked
<1>2. ASSUME NEW n \in DOMAIN u.nodes, n # u.root
      PROVE  ChildOf(u, n, u.nodes[n].parent)
  <2>1. ChildOf(t, n, t.nodes[n].parent)
    BY <1>2 DEF Linked
  <2> QED
    BY <2>1 DEF ChildOf
<1>3. ASSUME NEW n \in DOMAIN u.nodes
      PROVE  LeafAt(u, n) \/ ForkAt(u, n)
  <2>1. CASE n \in Keys
    <3>1. LeafAt(t, n)
      BY <2>1, LinkedFields
    <3> QED
      BY <2>1, <3>1 DEF LeafAt
  <2>2. CASE n \notin Keys
    <3>1. ForkAt(t, n)
      BY <2>2, LinkedFields
    <3> QED
      BY <2>2, <3>1 DEF ForkAt
  <2> QED
    BY <2>1, <2>2
<1> QED
  BY <1>1, <1>2, <1>3 DEF Linked

(* The branch above one that changed its height by a level. *)
LEMMA NearlyAbove ==
    ASSUME NEW t, Linked(t), NEW above \in DOMAIN t.nodes \ Keys, Fits(t, above),
           NEW u, NEW at, NEW top, NEW other,
           LET x == t.nodes[above]
               y == u.nodes[above]
           IN  /\ y.height = x.height
               /\ \/ x.left = at /\ x.right = other /\ y.left = top /\ y.right = other
                  \/ x.left = other /\ x.right = at /\ y.left = other /\ y.right = top,
           u.nodes[other].height = t.nodes[other].height,
           u.nodes[top].height \in Nat,
           u.nodes[top].height - t.nodes[at].height \in -1..1
    PROVE  Nearly(u, above)
<1> DEFINE a == t.nodes[at].height
           b == t.nodes[other].height
           c == u.nodes[top].height
           h == t.nodes[above].height
<1>1. /\ a \in Nat /\ b \in Nat /\ a - b \in -1..1
      /\ h = 1 + (IF a >= b THEN a ELSE b)
  BY FitsHeights
<1>2. c \in Nat /\ c - a \in -1..1 /\ u.nodes[other].height = b
      /\ u.nodes[above].height = h
  OBVIOUS
<1> HIDE DEF a, b, c, h
<1>3. LET high == 1 + (IF c >= b THEN c ELSE b)
      IN  /\ c - b \in -2..2 /\ b - c \in -2..2 /\ high - h \in -1..1
          /\ c - b \in {-2, 2} => high >= h
          /\ b - c \in {-2, 2} => high >= h
          /\ high = 1 + (IF b >= c THEN b ELSE c)
  BY <1>1, <1>2
<1>4. CASE u.nodes[above].left = top /\ u.nodes[above].right = other
  BY <1>2, <1>3, <1>4 DEF Nearly, c
<1>5. CASE u.nodes[above].left = other /\ u.nodes[above].right = top
  BY <1>2, <1>3, <1>5 DEF Nearly, c
<1> QED
  BY <1>4, <1>5

(* The branch above one that is being repaired. *)
LEMMA AboveFits ==
    ASSUME NEW t, NEW at, at # None, Repairing(t, at), t.nodes[at].parent # None
    PROVE  LET above == t.nodes[at].parent
           IN  /\ above \in DOMAIN t.nodes \ Keys /\ above # at
               /\ at = t.nodes[above].left \/ at = t.nodes[above].right
               /\ ForkAt(t, above) /\ Fits(t, above)
               /\ t.nodes[above].height >= 1 + t.nodes[at].height
<1> DEFINE above == t.nodes[at].parent
<1>1. at \in DOMAIN t.nodes \ Keys /\ Linked(t)
  BY DEF Repairing
<1>2. ChildOf(t, at, above) /\ None \notin Names /\ DOMAIN t.nodes \subseteq Names
  BY <1>1, LinkedFields
<1>3. above \in DOMAIN t.nodes \ Keys
  <2>1. ASSUME above \in Keys PROVE FALSE
    <3>1. LeafAt(t, above)
      BY <1>1, <1>2, <2>1, LinkedFields DEF ChildOf
    <3> QED
      BY <1>1, <1>2, <3>1 DEF ChildOf, LeafAt
  <2> QED
    BY <1>2, <2>1 DEF ChildOf
<1>4. ForkAt(t, above) /\ Fits(t, above)
  BY <1>1, <1>2, <1>3, LinkedFields DEF Repairing, ChildOf
<1>5. t.nodes[above].height >= 1 + t.nodes[at].height
  BY <1>1, <1>2, <1>3, <1>4, FitsHeights DEF ChildOf
<1> QED
  BY <1>2, <1>3, <1>4, <1>5 DEF ChildOf

(* What one round of _refit_from leaves of the tree t at the branch at:    *)
(* the tree u, to be repaired from above on.                               *)
Refitted(t, at, above, u) ==
    /\ Repairing(u, above)
    /\ DOMAIN u.nodes = DOMAIN t.nodes
    /\ \A k \in DOMAIN t.nodes \cap Keys :
           u.nodes[k].box = t.nodes[k].box
    /\ above # None => u.nodes[above].height = t.nodes[above].height
    /\ \A m \in DOMAIN t.nodes :
           \/ u.nodes[m].height <= t.nodes[m].height
           \/ u.nodes[m].height <= 1 + t.nodes[at].height

(* _sync at the branch being repaired. *)
LEMMA SyncLinked ==
    ASSUME NEW t, NEW at, at # None, Repairing(t, at)
    PROVE  LET u == Sync(t, at)
               node == t.nodes[at]
               l == t.nodes[node.left]
               r == t.nodes[node.right]
           IN  /\ Linked(u) /\ u.root = t.root /\ DOMAIN u.nodes = DOMAIN t.nodes
               /\ u.nodes[at] = Branch(node.parent, node.left, node.right, l, r)
               /\ u.nodes[at].parent = node.parent
               /\ u.nodes[at].left = node.left /\ u.nodes[at].right = node.right
               /\ u.nodes[at].height
                      = 1 + (IF l.height >= r.height THEN l.height ELSE r.height)
               /\ u.nodes[at].height \in Nat
               /\ u.nodes[at].height - node.height \in -1..1
               /\ \A m \in DOMAIN t.nodes \ {at} : u.nodes[m] = t.nodes[m]
               /\ at \in DOMAIN t.nodes \ Keys /\ node.parent # at
               /\ node.left \in DOMAIN t.nodes /\ node.left # at /\ l.height \in Nat
               /\ node.right \in DOMAIN t.nodes /\ node.right # at /\ r.height \in Nat
<1> DEFINE D == DOMAIN t.nodes
           node == t.nodes[at]
           above == node.parent
           l == t.nodes[node.left]
           r == t.nodes[node.right]
           b == Branch(above, node.left, node.right, l, r)
           u == Sync(t, at)
<1>1. Linked(t) /\ at \in D \ Keys /\ Nearly(t, at)
  BY DEF Repairing
<1>2. /\ t \in Trees /\ D \subseteq Names /\ None \notin Names /\ ForkAt(t, at)
      /\ above \in D \cup {None} /\ above # at
      /\ \A m \in D : t.nodes[m].height \in Nat
  BY <1>1, LinkedFields
<1>3. /\ node.left \in D /\ node.right \in D /\ node.left # at /\ node.right # at
      /\ l.height \in Nat /\ r.height \in Nat
  BY <1>1, <1>2, LinkedFields DEF ForkAt
<1>4. /\ u \in Trees /\ u.root = t.root /\ DOMAIN u.nodes = D /\ u.nodes[at] = b
      /\ \A m \in D \ {at} : u.nodes[m] = t.nodes[m]
  BY <1>1, <1>2, <1>3, SyncEffect
<1> HIDE DEF u
<1>5. /\ b.parent = above /\ b.left = node.left /\ b.right = node.right
      /\ b.height = 1 + (IF l.height >= r.height THEN l.height ELSE r.height)
  BY <1>3, BranchFields, BranchHeight
<1> HIDE DEF b
<1>6. b.height \in Nat /\ b.height - node.height \in -1..1
  BY <1>2, <1>1, <1>3, <1>5 DEF Nearly
<1>7. Linked(u)
  <2>1. ASSUME NEW m \in D
        PROVE  /\ u.nodes[m].parent = t.nodes[m].parent
               /\ u.nodes[m].left = t.nodes[m].left
               /\ u.nodes[m].right = t.nodes[m].right
               /\ m \in Keys => u.nodes[m] = t.nodes[m]
    BY <1>1, <1>4, <1>5
  <2> QED
    BY <1>1, <1>4, <2>1, SameLinks
<1> QED
  BY <1>1, <1>2, <1>3, <1>4, <1>5, <1>6, <1>7 DEF u, b

(* A round that does not rotate. *)
LEMMA FlatStep ==
    ASSUME NEW t, NEW at, at # None, Repairing(t, at),
           t.nodes[t.nodes[at].left].height - t.nodes[t.nodes[at].right].height \in -1..1
    PROVE  Refitted(t, at, t.nodes[at].parent, Sync(t, at))
<1> DEFINE D == DOMAIN t.nodes
           node == t.nodes[at]
           above == node.parent
           l == t.nodes[node.left]
           r == t.nodes[node.right]
           b == Branch(above, node.left, node.right, l, r)
           u == Sync(t, at)
<1>1. Linked(t) /\ at \in D \ Keys /\ Nearly(t, at)
  BY DEF Repairing
<1>2. /\ ForkAt(t, at) /\ above \in D \cup {None} /\ above # at
      /\ \A m \in D : t.nodes[m].height \in Nat
  BY <1>1, LinkedFields
<1>3. /\ Linked(u) /\ u.root = t.root /\ DOMAIN u.nodes = D
      /\ u.nodes[at] = b /\ b.parent = above
      /\ b.left = node.left /\ b.right = node.right
      /\ b.height \in Nat /\ b.height - node.height \in -1..1
      /\ \A m \in D \ {at} : u.nodes[m] = t.nodes[m]
      /\ node.left \in D /\ node.left # at /\ node.right \in D /\ node.right # at
  BY SyncLinked
<1> HIDE DEF u, b
<1>8. ASSUME NEW n \in D \ Keys, n # above PROVE Fits(u, n)
  <2>1. CASE n = at
    <3>1. u.nodes[node.left] = l /\ u.nodes[node.right] = r
      BY <1>3
    <3> QED
      BY <1>3, <2>1, <3>1 DEF Fits, b
  <2>2. CASE n # at
    <3>1. ForkAt(t, n) /\ Fits(t, n)
      BY <1>1, <1>8, <2>2, LinkedFields DEF Repairing
    <3>2. /\ t.nodes[n].left \in D /\ t.nodes[n].left # at
          /\ t.nodes[n].right \in D /\ t.nodes[n].right # at
      BY <1>8, <3>1 DEF ForkAt
    <3> QED
      BY <1>3, <2>2, <3>1, <3>2 DEF Fits
  <2> QED
    BY <2>1, <2>2
<1>9. ASSUME above # None PROVE above \in D \ Keys /\ Nearly(u, above)
  <2>1. /\ above \in D \ Keys /\ above # at /\ Fits(t, above) /\ ForkAt(t, above)
        /\ at = t.nodes[above].left \/ at = t.nodes[above].right
    BY <1>9, AboveFits
  <2>2. u.nodes[above] = t.nodes[above]
    BY <1>3, <2>1
  <2>3. CASE at = t.nodes[above].left
    <3>1. t.nodes[above].right # at /\ t.nodes[above].right \in D
      BY <2>1, <2>3 DEF ForkAt
    <3>2. u.nodes[t.nodes[above].right] = t.nodes[t.nodes[above].right]
      BY <1>3, <3>1
    <3> HIDE DEF above, node
    <3> QED
      BY <1>1, <1>3, <2>1, <2>2, <2>3, <3>2, NearlyAbove, ZenonT(60) DEF node
  <2>4. CASE at = t.nodes[above].right
    <3>1. t.nodes[above].left # at /\ t.nodes[above].left \in D
      BY <2>1, <2>4 DEF ForkAt
    <3>2. u.nodes[t.nodes[above].left] = t.nodes[t.nodes[above].left]
      BY <1>3, <3>1
    <3> HIDE DEF above, node
    <3> QED
      BY <1>1, <1>3, <2>1, <2>2, <2>4, <3>2, NearlyAbove, ZenonT(60) DEF node
  <2> QED
    BY <2>1, <2>3, <2>4
<1>10. Repairing(u, above)
  BY <1>3, <1>8, <1>9 DEF Repairing
<1>11. above # None => u.nodes[above].height = t.nodes[above].height
  BY <1>2, <1>3
<1>12. \A m \in D : \/ u.nodes[m].height <= t.nodes[m].height
                    \/ u.nodes[m].height <= 1 + t.nodes[at].height
  BY <1>1, <1>2, <1>3
<1>13. \A k \in D \cap Keys : u.nodes[k].box = t.nodes[k].box
  BY <1>1, <1>3
<1> QED
  BY <1>3, <1>10, <1>11, <1>12, <1>13 DEF Refitted, u

-----------------------------------------------------------------------------
(* A round that rotates *)

(* r is t after the rotation at a branch: heavy has taken its place below  *)
(* above, and at has become a child of heavy, above light and down.        *)
Rotated(t, at, heavy, light, up, down, above, r) ==
    /\ {at, heavy, light, up, down} \subseteq DOMAIN t.nodes
    /\ above \in DOMAIN t.nodes \cup {None}
    /\ r \in Trees /\ DOMAIN r.nodes = DOMAIN t.nodes
    /\ r.root = IF above = None THEN heavy ELSE t.root
    /\ at \notin Keys /\ heavy \notin Keys
    /\ at # heavy /\ at # light /\ at # up /\ at # down
    /\ heavy # light /\ heavy # up /\ heavy # down
    /\ up # down /\ light # up /\ light # down
    /\ above \notin {at, heavy, light, up, down}
    /\ t.nodes[at].parent = above
    /\ t.nodes[heavy].parent = at /\ t.nodes[light].parent = at
    /\ t.nodes[up].parent = heavy /\ t.nodes[down].parent = heavy
    /\ \/ t.nodes[at].left = heavy /\ t.nodes[at].right = light
       \/ t.nodes[at].left = light /\ t.nodes[at].right = heavy
    /\ \/ t.nodes[heavy].left = up /\ t.nodes[heavy].right = down
       \/ t.nodes[heavy].left = down /\ t.nodes[heavy].right = up
    /\ \/ r.nodes[at] = Branch(heavy, down, light, r.nodes[down], r.nodes[light])
       \/ r.nodes[at] = Branch(heavy, light, down, r.nodes[light], r.nodes[down])
    /\ r.nodes[heavy] = Branch(above, at, up, r.nodes[at], r.nodes[up])
    /\ r.nodes[down] = Under(t.nodes[down], at)
    /\ above # None => r.nodes[above] = Swapped(t.nodes[above], at, heavy)
    /\ \A m \in DOMAIN t.nodes \ {at, heavy, down, above} :
           r.nodes[m] = t.nodes[m]

LEMMA RotatedFields ==
    ASSUME NEW t, Linked(t), NEW at, NEW heavy, NEW light, NEW up, NEW down,
           NEW above, NEW r, Rotated(t, at, heavy, light, up, down, above, r)
    PROVE  /\ \A m \in DOMAIN t.nodes :
                  r.nodes[m].parent = IF m = at THEN heavy
                                      ELSE IF m = heavy THEN above
                                      ELSE IF m = down THEN at
                                      ELSE t.nodes[m].parent
           /\ \A m \in DOMAIN t.nodes \ {at, heavy} :
                  /\ r.nodes[m].height = t.nodes[m].height
                  /\ r.nodes[m].box = t.nodes[m].box
                  /\ r.nodes[m].least = t.nodes[m].least
           /\ \A m \in DOMAIN t.nodes \ {at, heavy, above} :
                  r.nodes[m].left = t.nodes[m].left /\ r.nodes[m].right = t.nodes[m].right
           /\ r.nodes[heavy].left = at /\ r.nodes[heavy].right = up
           /\ \/ r.nodes[at].left = down /\ r.nodes[at].right = light
              \/ r.nodes[at].left = light /\ r.nodes[at].right = down
           /\ above # None =>
                  /\ r.nodes[above].left = IF t.nodes[above].left = at THEN heavy
                                           ELSE t.nodes[above].left
                  /\ r.nodes[above].right = IF t.nodes[above].left = at
                                            THEN t.nodes[above].right ELSE heavy
<1> DEFINE D == DOMAIN t.nodes
<1>1. /\ at \in D /\ heavy \in D /\ down \in D /\ D \subseteq Names /\ None \notin Names
      /\ \A m \in D : t.nodes[m] \in NodeRecord
      /\ above # None => above \in D
  BY LinkedFields DEF Rotated
<1>2. /\ r.nodes[heavy].parent = above /\ r.nodes[heavy].left = at
      /\ r.nodes[heavy].right = up
  BY BranchFields DEF Rotated
<1>3. /\ r.nodes[at].parent = heavy
      /\ \/ r.nodes[at].left = down /\ r.nodes[at].right = light
         \/ r.nodes[at].left = light /\ r.nodes[at].right = down
  BY BranchFields DEF Rotated
<1>4. /\ r.nodes[down].parent = at
      /\ r.nodes[down].left = t.nodes[down].left
      /\ r.nodes[down].right = t.nodes[down].right
      /\ r.nodes[down].height = t.nodes[down].height
      /\ r.nodes[down].box = t.nodes[down].box
      /\ r.nodes[down].least = t.nodes[down].least
  <2>1. t.nodes[down] \in NodeRecord /\ at \in Names \cup {None}
    BY <1>1
  <2>2. r.nodes[down] = Under(t.nodes[down], at)
    BY DEF Rotated
  <2> DEFINE d == t.nodes[down]
  <2> HIDE DEF d
  <2>3. LET x == Under(d, at)
        IN  /\ x \in NodeRecord /\ x.parent = at
            /\ x.left = d.left /\ x.right = d.right
            /\ x.height = d.height /\ x.box = d.box /\ x.least = d.least
    BY <2>1, UnderFields DEF d
  <2> QED
    BY <2>2, <2>3 DEF d
<1>5. ASSUME above # None
      PROVE  /\ r.nodes[above].parent = t.nodes[above].parent
             /\ r.nodes[above].height = t.nodes[above].height
             /\ r.nodes[above].box = t.nodes[above].box
             /\ r.nodes[above].least = t.nodes[above].least
             /\ r.nodes[above].left = IF t.nodes[above].left = at THEN heavy
                                      ELSE t.nodes[above].left
             /\ r.nodes[above].right = IF t.nodes[above].left = at
                                       THEN t.nodes[above].right ELSE heavy
  <2>1. t.nodes[above] \in NodeRecord /\ heavy \in Names
    BY <1>1, <1>5
  <2>2. r.nodes[above] = Swapped(t.nodes[above], at, heavy)
    BY <1>5 DEF Rotated
  <2> DEFINE d == t.nodes[above]
  <2>3. LET x == Swapped(d, at, heavy)
        IN  /\ x \in NodeRecord /\ x.parent = d.parent
            /\ x.left = IF d.left = at THEN heavy ELSE d.left
            /\ x.right = IF d.left = at THEN d.right ELSE heavy
            /\ x.height = d.height /\ x.box = d.box /\ x.least = d.least
    <3> HIDE DEF d
    <3> QED
      BY <2>1, SwappedFields DEF d
  <2> QED
    BY <2>2, <2>3
<1>6. \A m \in D \ {at, heavy, down, above} : r.nodes[m] = t.nodes[m]
  BY DEF Rotated
<1>7. at # heavy /\ at # down /\ heavy # down /\ above \notin {at, heavy, down}
  BY DEF Rotated
<1> QED
  BY <1>1, <1>2, <1>3, <1>4, <1>5, <1>6, <1>7

LEMMA RotatedLinks ==
    ASSUME NEW t, Linked(t), NEW at, NEW heavy, NEW light, NEW up, NEW down,
           NEW above, NEW r, Rotated(t, at, heavy, light, up, down, above, r)
    PROVE  Linked(r)
<1> DEFINE D == DOMAIN t.nodes
           Par(m) == IF m = at THEN heavy
                     ELSE IF m = heavy THEN above
                     ELSE IF m = down THEN at
                     ELSE t.nodes[m].parent
<1>1. /\ at \in D /\ heavy \in D /\ light \in D /\ up \in D /\ down \in D
      /\ above \in D \cup {None}
      /\ DOMAIN r.nodes = D /\ r \in Trees
      /\ r.root = IF above = None THEN heavy ELSE t.root
      /\ at \notin Keys /\ heavy \notin Keys
      /\ at # heavy /\ at # light /\ at # up /\ at # down
      /\ heavy # light /\ heavy # up /\ heavy # down
      /\ up # down /\ light # up /\ light # down
      /\ above # at /\ above # heavy /\ above # light /\ above # up /\ above # down
      /\ t.nodes[at].parent = above
      /\ t.nodes[heavy].parent = at /\ t.nodes[light].parent = at
      /\ t.nodes[up].parent = heavy /\ t.nodes[down].parent = heavy
  BY DEF Rotated
<1>2. /\ \/ t.nodes[at].left = heavy /\ t.nodes[at].right = light
         \/ t.nodes[at].left = light /\ t.nodes[at].right = heavy
      /\ \/ t.nodes[heavy].left = up /\ t.nodes[heavy].right = down
         \/ t.nodes[heavy].left = down /\ t.nodes[heavy].right = up
  BY DEF Rotated
<1>3. /\ None \notin D
      /\ \A m \in D : /\ m \in Keys => LeafAt(t, m)
                      /\ m \notin Keys => ForkAt(t, m)
                      /\ t.nodes[m].parent # m
      /\ \A m \in D : t.nodes[m].parent # None => ChildOf(t, m, t.nodes[m].parent)
      /\ \A m \in D : t.nodes[m].parent = None => m = t.root
      /\ \A m \in D : m = t.root => t.nodes[m].parent = None
      /\ t.root # None => t.root \in D
  BY LinkedFields DEF Linked
<1>4. \A m \in D : r.nodes[m].parent = Par(m)
  BY RotatedFields
<1>5. \A m \in D \ {at, heavy} : r.nodes[m].height = t.nodes[m].height
                                 /\ r.nodes[m].least = t.nodes[m].least
  BY RotatedFields
<1>6. \A m \in D \ {at, heavy, above} :
          r.nodes[m].left = t.nodes[m].left /\ r.nodes[m].right = t.nodes[m].right
  BY RotatedFields
<1>7. /\ r.nodes[heavy].left = at /\ r.nodes[heavy].right = up
      /\ \/ r.nodes[at].left = down /\ r.nodes[at].right = light
         \/ r.nodes[at].left = light /\ r.nodes[at].right = down
  BY RotatedFields
<1>8. above # None =>
          /\ r.nodes[above].left = IF t.nodes[above].left = at THEN heavy
                                   ELSE t.nodes[above].left
          /\ r.nodes[above].right = IF t.nodes[above].left = at
                                    THEN t.nodes[above].right ELSE heavy
  BY RotatedFields
<1>9. above # None =>
          /\ above \in D /\ above \notin Keys /\ ForkAt(t, above)
          /\ at = t.nodes[above].left \/ at = t.nodes[above].right
          /\ t.nodes[above].left # t.nodes[above].right
  <2> SUFFICES ASSUME above # None PROVE above \in D /\ above \notin Keys
                    /\ (at = t.nodes[above].left \/ at = t.nodes[above].right)
    BY <1>3 DEF ForkAt
  <2>1. ChildOf(t, at, above)
    BY <1>1, <1>3
  <2>2. above \notin Keys
    BY <1>1, <1>3, <2>1 DEF ChildOf, LeafAt
  <2> QED
    BY <2>1, <2>2 DEF ChildOf
<1>10. t.root # None /\ r.root # None /\ r.root \in D /\ r.nodes[r.root].parent = None
  <2>1. t.root # None /\ t.root \in D
    BY <1>1, <1>3 DEF Linked
  <2>2. CASE above = None
    BY <1>1, <1>3, <1>4, <2>2
  <2>3. CASE above # None
    <3>1. t.root # at /\ t.root # heavy /\ t.root # down
      BY <1>1, <1>3, <2>3
    <3> QED
      BY <1>1, <1>3, <1>4, <2>1, <2>3, <3>1
  <2> QED
    BY <2>1, <2>2, <2>3
<1>11. ASSUME NEW m \in D, m # r.root PROVE ChildOf(r, m, r.nodes[m].parent)
  <2>1. CASE m = at
    BY <1>1, <1>4, <1>7, <2>1 DEF ChildOf
  <2>2. CASE m = heavy
    <3>1. above # None
      BY <1>1, <1>11, <2>2
    <3> QED
      BY <1>1, <1>4, <1>8, <1>9, <2>2, <3>1 DEF ChildOf
  <2>3. CASE m = down
    BY <1>1, <1>4, <1>7, <2>3 DEF ChildOf
  <2>4. CASE m = up
    BY <1>1, <1>4, <1>7, <2>4 DEF ChildOf
  <2>5. CASE m = light
    BY <1>1, <1>4, <1>7, <2>5 DEF ChildOf
  <2>6. CASE m \notin {at, heavy, down, up, light}
    <3> DEFINE p == t.nodes[m].parent
    <3>1. r.nodes[m].parent = p
      BY <1>4, <2>6
    <3>2. p # None
      <4>1. m # t.root \/ above = None
        BY <1>1, <1>11
      <4>2. above = None => at = t.root
        BY <1>1, <1>3
      <4> QED
        BY <1>3, <2>6, <4>1, <4>2
    <3>3. ChildOf(t, m, p)
      BY <1>3, <3>2
    <3>4. p \in D /\ p # m /\ (m = t.nodes[p].left \/ m = t.nodes[p].right)
      BY <3>3 DEF ChildOf
    <3>5. p # at /\ p # heavy
      BY <1>2, <2>6, <3>4
    <3> HIDE DEF p
    <3>6. m = r.nodes[p].left \/ m = r.nodes[p].right
      <4>1. CASE p = above
        <5>1. above # None
          BY <3>2, <4>1
        <5> QED
          BY <1>8, <1>9, <2>6, <3>4, <4>1, <5>1
      <4>2. CASE p # above
        BY <1>6, <3>4, <3>5, <4>2
      <4> QED
        BY <4>1, <4>2
    <3> QED
      BY <1>1, <3>1, <3>4, <3>6 DEF ChildOf
  <2> QED
    BY <2>1, <2>2, <2>3, <2>4, <2>5, <2>6
<1>12. ASSUME NEW m \in D PROVE LeafAt(r, m) \/ ForkAt(r, m)
  <2>1. CASE m \in Keys
    <3>1. m # at /\ m # heavy /\ m # above
      BY <1>1, <1>3, <1>9, <2>1
    <3> QED
      BY <1>3, <1>5, <1>6, <2>1, <3>1 DEF LeafAt
  <2>2. CASE m = at
    BY <1>1, <1>4, <1>7, <2>2 DEF ForkAt
  <2>3. CASE m = heavy
    BY <1>1, <1>4, <1>7, <2>3 DEF ForkAt
  <2>4. CASE m = above
    <3>1. above # None /\ ForkAt(t, above)
      BY <1>3, <1>9, <2>4
    <3>2. t.nodes[above].left \notin {heavy, down} /\ t.nodes[above].right \notin {heavy, down}
      BY <1>1, <3>1 DEF ForkAt
    <3> QED
      BY <1>1, <1>4, <1>8, <1>9, <2>4, <3>1, <3>2 DEF ForkAt
  <2>5. CASE m \notin Keys /\ m \notin {at, heavy, above}
    <3>1. ForkAt(t, m)
      BY <1>3, <2>5
    <3> DEFINE l == t.nodes[m].left
               g == t.nodes[m].right
    <3>2. /\ l # g /\ l \in D /\ t.nodes[l].parent = m
          /\ g \in D /\ t.nodes[g].parent = m
      BY <3>1 DEF ForkAt
    <3>3. r.nodes[m].left = l /\ r.nodes[m].right = g
      BY <1>6, <2>5
    <3> HIDE DEF l, g
    <3>4. l \notin {at, heavy, down} /\ g \notin {at, heavy, down}
      BY <1>1, <2>5, <3>2
    <3>5. r.nodes[l].parent = m /\ r.nodes[g].parent = m
      BY <1>4, <3>2, <3>4
    <3> QED
      BY <1>1, <2>5, <3>2, <3>3, <3>5 DEF ForkAt
  <2> QED
    BY <2>1, <2>2, <2>3, <2>4, <2>5
<1> QED
  BY <1>1, <1>10, <1>11, <1>12 DEF Linked

LEMMA BranchOfSame ==
    ASSUME NEW parent, NEW left, NEW right, NEW l, NEW r, NEW x, NEW y,
           l.height = x.height, l.box = x.box, l.least = x.least,
           r.height = y.height, r.box = y.box, r.least = y.least
    PROVE  Branch(parent, left, right, l, r) = Branch(parent, left, right, x, y)
BY DEF Branch

LEMMA UnderBranch ==
    ASSUME NEW parent, NEW left, NEW right, NEW l, NEW r, NEW p
    PROVE  Under(Branch(parent, left, right, l, r), p) = Branch(p, left, right, l, r)
BY DEF Branch, Under

(* The branches away from the rotation still fit. *)
LEMMA RotatedRest ==
    ASSUME NEW t, Linked(t), NEW at, NEW heavy, NEW light, NEW up, NEW down,
           NEW above, NEW r, Rotated(t, at, heavy, light, up, down, above, r),
           NEW n \in DOMAIN t.nodes \ Keys, n \notin {at, heavy, above}, Fits(t, n)
    PROVE  Fits(r, n)
<1> DEFINE D == DOMAIN t.nodes
           left == t.nodes[n].left
           right == t.nodes[n].right
           p == t.nodes[n].parent
<1>1. /\ left \in D /\ right \in D /\ t.nodes[left].parent = n /\ t.nodes[right].parent = n
  BY LinkedFields DEF ForkAt
<1>2. left \notin {at, heavy} /\ right \notin {at, heavy}
  BY <1>1 DEF Rotated
<1>3. /\ r.nodes[left].height = t.nodes[left].height
      /\ r.nodes[left].box = t.nodes[left].box
      /\ r.nodes[left].least = t.nodes[left].least
      /\ r.nodes[right].height = t.nodes[right].height
      /\ r.nodes[right].box = t.nodes[right].box
      /\ r.nodes[right].least = t.nodes[right].least
  BY <1>1, <1>2, RotatedFields
<1>4. /\ t.nodes[n] = Branch(p, left, right, t.nodes[left], t.nodes[right])
      /\ t.nodes[left].height - t.nodes[right].height \in -1..1
  BY DEF Fits
<1>5. /\ r.nodes[n].left = left /\ r.nodes[n].right = right
  BY RotatedFields
<1> HIDE DEF left, right
<1>6. \E q : r.nodes[n] = Branch(q, left, right, t.nodes[left], t.nodes[right])
  <2>1. CASE n = down
    <3>1. r.nodes[n] = Under(t.nodes[n], at)
      BY <2>1 DEF Rotated
    <3>2. r.nodes[n] = Branch(at, left, right, t.nodes[left], t.nodes[right])
      BY <1>4, <3>1, UnderBranch
    <3> QED
      BY <3>2
  <2>2. CASE n # down
    <3>1. r.nodes[n] = t.nodes[n]
      BY <2>2 DEF Rotated
    <3> QED
      BY <1>4, <3>1
  <2> QED
    BY <2>1, <2>2
<1>7. PICK q : r.nodes[n] = Branch(q, left, right, t.nodes[left], t.nodes[right])
  BY <1>6
<1>8. r.nodes[n].parent = q
  BY <1>7, BranchFields
<1>9. r.nodes[n] = Branch(q, left, right, r.nodes[left], r.nodes[right])
  BY <1>3, <1>7, BranchOfSame
<1> QED
  BY <1>3, <1>4, <1>5, <1>8, <1>9 DEF Fits

(* Rotating when one child is two levels higher. *)
LEMMA RotateIsRotated ==
    ASSUME NEW t, NEW at, at # None, Repairing(t, at), NEW heavy, NEW light,
           \/ t.nodes[at].left = heavy /\ t.nodes[at].right = light
           \/ t.nodes[at].left = light /\ t.nodes[at].right = heavy,
           t.nodes[heavy].height = 2 + t.nodes[light].height
    PROVE  LET above == t.nodes[at].parent
               r == Rotate(Sync(t, at), at, heavy)
           IN  \E up, down \in DOMAIN t.nodes :
                   /\ Rotated(t, at, heavy, light, up, down, above, r)
                   /\ t.nodes[up].height = 1 + t.nodes[light].height
                   /\ t.nodes[down].height - t.nodes[light].height \in 0..1
<1> DEFINE D == DOMAIN t.nodes
           above == t.nodes[at].parent
           s == Sync(t, at)
           r == Rotate(s, at, heavy)
           L == t.nodes[light].height
<1>1. Linked(t) /\ at \in D \ Keys /\ Nearly(t, at)
  BY DEF Repairing
<1>2. /\ Linked(s) /\ s.root = t.root /\ DOMAIN s.nodes = D
      /\ s.nodes[at].parent = above
      /\ s.nodes[at].left = t.nodes[at].left /\ s.nodes[at].right = t.nodes[at].right
      /\ \A m \in D \ {at} : s.nodes[m] = t.nodes[m]
  BY SyncLinked
<1> HIDE DEF s
<1>3. /\ heavy \in D /\ light \in D /\ heavy # light /\ above # at
      /\ heavy # at /\ light # at
      /\ t.nodes[heavy].parent = at /\ t.nodes[light].parent = at
      /\ above \in D \cup {None} /\ None \notin D
  BY <1>1, LinkedFields DEF ForkAt
<1>4. L \in Nat /\ t.nodes[heavy].height = 2 + L
  BY <1>1, <1>3, LinkedFields
<1>5. heavy \notin Keys
  BY <1>1, <1>3, <1>4, LinkedFields DEF LeafAt
<1>6. Fits(t, heavy) /\ ForkAt(t, heavy)
  BY <1>1, <1>3, <1>5, LinkedFields DEF Repairing
<1> DEFINE hl == t.nodes[heavy].left
           hr == t.nodes[heavy].right
<1>7. /\ hl \in D /\ hr \in D /\ hl # hr
      /\ t.nodes[hl].parent = heavy /\ t.nodes[hr].parent = heavy
  BY <1>6 DEF ForkAt
<1>8. /\ t.nodes[hl].height \in Nat /\ t.nodes[hr].height \in Nat
      /\ t.nodes[hl].height - t.nodes[hr].height \in -1..1
      /\ 2 + L = 1 + (IF t.nodes[hl].height >= t.nodes[hr].height
                      THEN t.nodes[hl].height ELSE t.nodes[hr].height)
  BY <1>1, <1>3, <1>4, <1>5, <1>6, FitsHeights
<1>9. hl # at /\ hr # at /\ hl # heavy /\ hr # heavy
  <2>1. \A m \in D : t.nodes[m].parent # m
    BY <1>1, LinkedFields
  <2>2. CASE above = None
    BY <1>3, <1>7, <2>1, <2>2
  <2>3. CASE above # None
    <3>1. t.nodes[above].height >= 1 + t.nodes[at].height
      BY <2>3, AboveFits
    <3>2. t.nodes[at].height \in Nat /\ t.nodes[at].height >= 2 + L
      BY <1>1, <1>3, <1>4, LinkedFields DEF Nearly
    <3>3. above # heavy
      BY <1>1, <1>3, <1>4, <3>1, <3>2
    <3> QED
      BY <1>3, <1>7, <2>1, <3>3
  <2> QED
    BY <2>2, <2>3
<1>10. above \notin {heavy, light, hl, hr}
  <2>1. CASE above = None
    BY <1>3, <1>7, <2>1
  <2>2. CASE above # None
    <3>1. t.nodes[above].height >= 1 + t.nodes[at].height
      BY <2>2, AboveFits
    <3>2. t.nodes[at].height \in Nat /\ t.nodes[at].height >= 2 + L
      BY <1>1, <1>3, <1>4, LinkedFields DEF Nearly
    <3>3. t.nodes[above].height > 2 + L
      <4>1. t.nodes[above].height \in Nat
        BY <1>1, <1>3, <2>2, LinkedFields
      <4> QED
        BY <1>4, <3>1, <3>2, <4>1
    <3> QED
      BY <1>4, <1>8, <3>3
  <2> QED
    BY <2>1, <2>2
<1>11. light # hl /\ light # hr
  BY <1>3, <1>7
<1>12. s.nodes[heavy] = t.nodes[heavy]
  BY <1>2, <1>3
<1>13. PICK up \in D, down \in D :
         /\ up # down /\ {up, down} = {hl, hr}
         /\ up = hl <=> Taller(s, hl, hr)
         /\ r \in Trees /\ DOMAIN r.nodes = D
         /\ r.root = IF above = None THEN heavy ELSE s.root
         /\ \A m \in D \ {at, heavy, down, above} : r.nodes[m] = s.nodes[m]
         /\ r.nodes[down] = Under(s.nodes[down], at)
         /\ above # None => r.nodes[above] = Swapped(s.nodes[above], at, heavy)
         /\ LET x == Swapped(s.nodes[at], heavy, down)
            IN  r.nodes[at] = Branch(heavy, x.left, x.right,
                                     r.nodes[x.left], r.nodes[x.right])
         /\ r.nodes[heavy] = Branch(above, at, up, r.nodes[at], r.nodes[up])
  <2>1. heavy \in {s.nodes[at].left, s.nodes[at].right}
    BY <1>2
  <2>2. s.nodes[at].parent \notin {heavy, s.nodes[heavy].left, s.nodes[heavy].right}
    BY <1>2, <1>10, <1>12
  <2>3. at \in DOMAIN s.nodes \ Keys
    BY <1>1, <1>2
  <2>4. PICK up \in DOMAIN s.nodes, down \in DOMAIN s.nodes : Turned(s, at, heavy, r, up, down)
    BY <1>2, <1>5, <2>1, <2>2, <2>3, RotateEffect
  <2>5. up \in D /\ down \in D
    BY <1>2, <2>4
  <2> HIDE DEF r
  <2> QED
    BY <1>2, <1>12, <2>4, <2>5 DEF Turned
<1>14. /\ t.nodes[up].height = 1 + L /\ t.nodes[down].height - L \in 0..1
  <2>1. s.nodes[hl] = t.nodes[hl] /\ s.nodes[hr] = t.nodes[hr]
    BY <1>2, <1>7, <1>9
  <2>2. CASE up = hl
    <3>1. t.nodes[hl].height >= t.nodes[hr].height
      BY <1>8, <1>13, <2>1, <2>2 DEF Taller
    <3> QED
      BY <1>4, <1>8, <1>13, <2>2, <3>1
  <2>3. CASE up = hr
    <3>1. up # hl
      BY <1>7, <2>3
    <3>2. t.nodes[hl].height <= t.nodes[hr].height
      BY <1>8, <1>13, <2>1, <3>1 DEF Taller
    <3> QED
      BY <1>4, <1>8, <1>13, <2>3, <3>2
  <2> QED
    BY <1>13, <2>2, <2>3
<1>15. /\ s.nodes[down] = t.nodes[down]
       /\ above # None => s.nodes[above] = t.nodes[above]
       /\ \A m \in D \ {at, heavy, down, above} : s.nodes[m] = t.nodes[m]
  BY <1>2, <1>3, <1>9, <1>13
<1>16. \/ r.nodes[at] = Branch(heavy, down, light, r.nodes[down], r.nodes[light])
       \/ r.nodes[at] = Branch(heavy, light, down, r.nodes[light], r.nodes[down])
  <2>1. s.nodes[at] \in NodeRecord /\ down \in Names
    BY <1>1, <1>2, LinkedFields
  <2> DEFINE x == Swapped(s.nodes[at], heavy, down)
  <2>2. /\ x.left = IF s.nodes[at].left = heavy THEN down ELSE s.nodes[at].left
        /\ x.right = IF s.nodes[at].left = heavy THEN s.nodes[at].right ELSE down
    BY <2>1, SwappedFields
  <2>3. \/ x.left = down /\ x.right = light
        \/ x.left = light /\ x.right = down
    BY <1>2, <1>3, <2>2
  <2> HIDE DEF x, r
  <2> QED
    BY <1>13, <2>3 DEF x
<1> HIDE DEF r
<1>17. Rotated(t, at, heavy, light, up, down, above, r)
  <2>1. up \in {hl, hr} /\ down \in {hl, hr}
    BY <1>13
  <2>2. /\ at # up /\ at # down /\ heavy # up /\ heavy # down /\ light # up /\ light # down
        /\ above \notin {at, heavy, light, up, down}
        /\ t.nodes[up].parent = heavy /\ t.nodes[down].parent = heavy
        /\ \/ hl = up /\ hr = down
           \/ hl = down /\ hr = up
    BY <1>3, <1>7, <1>9, <1>10, <1>11, <1>13, <2>1
  <2> HIDE DEF hl, hr
  <2>3. r.root = IF above = None THEN heavy ELSE t.root
    BY <1>2, <1>13
  <2>4. /\ r.nodes[down] = Under(t.nodes[down], at)
        /\ above # None => r.nodes[above] = Swapped(t.nodes[above], at, heavy)
        /\ \A m \in D \ {at, heavy, down, above} : r.nodes[m] = t.nodes[m]
    BY <1>13, <1>15
  <2> QED
    BY <1>1, <1>3, <1>5, <1>13, <1>16, <2>2, <2>3, <2>4 DEF Rotated, hl, hr
<1> QED
  BY <1>14, <1>17 DEF r, s

(* A round that rotates: what is left is repaired up to above, and the     *)
(* last _sync has nothing to do.                                           *)
LEMMA RotateStep ==
    ASSUME NEW t, NEW at, at # None, Repairing(t, at), NEW heavy, NEW light,
           \/ t.nodes[at].left = heavy /\ t.nodes[at].right = light
           \/ t.nodes[at].left = light /\ t.nodes[at].right = heavy,
           t.nodes[heavy].height = 2 + t.nodes[light].height
    PROVE  LET above == t.nodes[at].parent
               r == Rotate(Sync(t, at), at, heavy)
           IN  /\ Refitted(t, at, above, r)
               /\ r.nodes[heavy].parent = above
               /\ Sync(r, heavy) = r
<1> DEFINE D == DOMAIN t.nodes
           above == t.nodes[at].parent
           r == Rotate(Sync(t, at), at, heavy)
           L == t.nodes[light].height
<1>1. PICK up \in D, down \in D :
          /\ Rotated(t, at, heavy, light, up, down, above, r)
          /\ t.nodes[up].height = 1 + L
          /\ t.nodes[down].height - L \in 0..1
  BY RotateIsRotated
<1> HIDE DEF r
<1>2. Linked(t) /\ at \in D \ Keys /\ Nearly(t, at)
  BY DEF Repairing
<1>3. /\ at \in D /\ heavy \in D /\ light \in D /\ above \in D \cup {None}
      /\ r \in Trees /\ DOMAIN r.nodes = D
      /\ at \notin Keys /\ heavy \notin Keys
      /\ at # heavy /\ at # light /\ at # up /\ at # down
      /\ heavy # light /\ heavy # up /\ heavy # down
      /\ up # down /\ light # up /\ light # down
      /\ above # at /\ above # heavy /\ above # light /\ above # up /\ above # down
      /\ t.nodes[heavy].parent = at /\ t.nodes[light].parent = at
      /\ t.nodes[up].parent = heavy /\ t.nodes[down].parent = heavy
      /\ r.nodes[heavy] = Branch(above, at, up, r.nodes[at], r.nodes[up])
      /\ \/ r.nodes[at] = Branch(heavy, down, light, r.nodes[down], r.nodes[light])
         \/ r.nodes[at] = Branch(heavy, light, down, r.nodes[light], r.nodes[down])
  BY <1>1 DEF Rotated
<1> HIDE DEF above
<1>4. Linked(r)
  BY <1>1, <1>2, RotatedLinks DEF above
<1>5. \A m \in D \ {at, heavy} :
          r.nodes[m].height = t.nodes[m].height /\ r.nodes[m].box = t.nodes[m].box
  BY <1>1, <1>2, RotatedFields DEF above
<1>6. \A m \in D : t.nodes[m].height \in Nat
  BY <1>2, LinkedFields
<1>7. /\ L \in Nat /\ t.nodes[heavy].height = 2 + L
      /\ r.nodes[light].height = L /\ r.nodes[up].height = 1 + L
      /\ r.nodes[down].height - L \in 0..1 /\ r.nodes[down].height \in Nat
  BY <1>1, <1>3, <1>5, <1>6
<1>8. /\ r.nodes[at].height = 1 + (IF r.nodes[down].height >= L THEN r.nodes[down].height ELSE L)
      /\ r.nodes[at].height \in Nat
  <2> DEFINE a == r.nodes[down]
             b == r.nodes[light]
  <2>1. a.height \in Nat /\ b.height \in Nat /\ b.height = L
    BY <1>7
  <2>2. r.nodes[at] = Branch(heavy, down, light, a, b) \/ r.nodes[at] = Branch(heavy, light, down, b, a)
    BY <1>3
  <2> HIDE DEF a, b
  <2>3. r.nodes[at].height = 1 + (IF a.height >= L THEN a.height ELSE L)
    BY <2>1, <2>2, BranchHeight
  <2> QED
    BY <2>1, <2>3 DEF a
<1>9. /\ r.nodes[heavy].height = 1 + r.nodes[at].height
      /\ r.nodes[at].height - r.nodes[up].height \in 0..1
  <2>1. r.nodes[at].height >= r.nodes[up].height
    BY <1>7, <1>8
  <2>2. r.nodes[heavy].height = 1 + (IF r.nodes[at].height >= r.nodes[up].height
                                     THEN r.nodes[at].height ELSE r.nodes[up].height)
    BY <1>3, <1>7, <1>8, BranchHeight
  <2> QED
    BY <1>7, <1>8, <2>1, <2>2
<1>10. /\ t.nodes[at].height \in {2 + L, 3 + L}
       /\ r.nodes[heavy].height \in {2 + L, 3 + L}
  <2>1. t.nodes[at].height \in Nat
    BY <1>3, <1>6
  <2>2. t.nodes[at].height \in {2 + L, 3 + L}
    BY <1>2, <1>7, <2>1 DEF Nearly
  <2>3. r.nodes[heavy].height \in {2 + L, 3 + L}
    <3> DEFINE d == r.nodes[down].height
               x == r.nodes[at].height
               y == r.nodes[heavy].height
    <3>1. d - L \in 0..1 /\ L \in Nat /\ d \in Nat /\ y = 1 + x
          /\ x = 1 + (IF d >= L THEN d ELSE L)
      BY <1>7, <1>8, <1>9
    <3> HIDE DEF L, d, x, y
    <3>2. y \in {2 + L, 3 + L}
      BY <3>1
    <3> QED
      BY <3>2 DEF y
  <2> QED
    BY <2>2, <2>3
<1>11. ASSUME NEW n \in D \ Keys, n # above PROVE Fits(r, n)
  <2>1. CASE n = at
    <3>1. /\ r.nodes[down].height - r.nodes[light].height \in -1..1
          /\ r.nodes[light].height - r.nodes[down].height \in -1..1
      BY <1>7
    <3>2. CASE r.nodes[at] = Branch(heavy, down, light, r.nodes[down], r.nodes[light])
      <4>1. r.nodes[at].parent = heavy /\ r.nodes[at].left = down /\ r.nodes[at].right = light
        BY <3>2, BranchFields
      <4> QED
        BY <2>1, <3>1, <3>2, <4>1 DEF Fits
    <3>3. CASE r.nodes[at] = Branch(heavy, light, down, r.nodes[light], r.nodes[down])
      <4>1. r.nodes[at].parent = heavy /\ r.nodes[at].left = light /\ r.nodes[at].right = down
        BY <3>3, BranchFields
      <4> QED
        BY <2>1, <3>1, <3>3, <4>1 DEF Fits
    <3> QED
      BY <1>3, <3>2, <3>3
  <2>2. CASE n = heavy
    <3>1. r.nodes[heavy].parent = above /\ r.nodes[heavy].left = at /\ r.nodes[heavy].right = up
      BY <1>3, BranchFields
    <3>2. r.nodes[at].height - r.nodes[up].height \in -1..1
      BY <1>9
    <3> QED
      BY <1>3, <2>2, <3>1, <3>2 DEF Fits
  <2>3. CASE n \notin {at, heavy}
    <3>1. Fits(t, n)
      BY <1>11, <2>3 DEF Repairing
    <3> QED
      BY <1>1, <1>2, <1>11, <2>3, <3>1, RotatedRest DEF above
  <2> QED
    BY <2>1, <2>2, <2>3
<1>12. ASSUME above # None PROVE above \in D \ Keys /\ Nearly(r, above)
  <2>1. /\ above \in D \ Keys /\ Fits(t, above) /\ ForkAt(t, above)
        /\ at = t.nodes[above].left \/ at = t.nodes[above].right
    BY <1>12, AboveFits DEF above
  <2>2. /\ r.nodes[above].left = IF t.nodes[above].left = at THEN heavy
                                 ELSE t.nodes[above].left
        /\ r.nodes[above].right = IF t.nodes[above].left = at
                                  THEN t.nodes[above].right ELSE heavy
    BY <1>1, <1>2, <1>12, RotatedFields DEF above
  <2>3. r.nodes[above].height = t.nodes[above].height
    BY <1>3, <1>5, <2>1
  <2>4. r.nodes[heavy].height \in Nat /\ r.nodes[heavy].height - t.nodes[at].height \in -1..1
    <3> HIDE DEF L
    <3> QED
      BY <1>7, <1>10
  <2>5. PICK other :
            /\ other \in D /\ other # at /\ t.nodes[other].parent = above
            /\ \/ /\ t.nodes[above].left = at /\ t.nodes[above].right = other
                  /\ r.nodes[above].left = heavy /\ r.nodes[above].right = other
               \/ /\ t.nodes[above].left = other /\ t.nodes[above].right = at
                  /\ r.nodes[above].left = other /\ r.nodes[above].right = heavy
    <3>1. CASE t.nodes[above].left = at
      BY <2>1, <2>2, <3>1 DEF ForkAt
    <3>2. CASE t.nodes[above].left # at
      BY <2>1, <2>2, <3>2 DEF ForkAt
    <3> QED
      BY <3>1, <3>2
  <2>6. r.nodes[other].height = t.nodes[other].height
    BY <1>3, <1>5, <2>5
  <2> QED
    BY <1>2, <2>1, <2>3, <2>4, <2>5, <2>6, NearlyAbove
<1>13. Repairing(r, above)
  BY <1>3, <1>4, <1>11, <1>12 DEF Repairing
<1>14. \A k \in D \cap Keys : r.nodes[k].box = t.nodes[k].box
  BY <1>3, <1>5
<1>15. above # None => r.nodes[above].height = t.nodes[above].height
  BY <1>3, <1>5
<1>16. \A m \in D : \/ r.nodes[m].height <= t.nodes[m].height
                    \/ r.nodes[m].height <= 1 + t.nodes[at].height
  <2>1. r.nodes[at].height <= 1 + t.nodes[at].height
    BY <1>7, <1>8, <1>10
  <2>2. r.nodes[heavy].height <= 1 + t.nodes[at].height
    <3> HIDE DEF L
    <3> QED
      BY <1>7, <1>10
  <2> QED
    BY <1>5, <1>6, <2>1, <2>2
<1>17. Refitted(t, at, above, r)
  BY <1>3, <1>13, <1>14, <1>15, <1>16 DEF Refitted
<1>18. r.nodes[heavy].parent = above
  BY <1>3, BranchFields
<1>19. Sync(r, heavy) = r
  <2>1. above \in Names \cup {None}
    BY <1>2, <1>3, LinkedFields
  <2> QED
    BY <1>1, <1>3, <2>1, SyncSame
<1> QED
  BY <1>17, <1>18, <1>19 DEF above, r

(* One round of _refit_from. *)
LEMMA RefitKeeps ==
    ASSUME NEW t, NEW at, at # None, Repairing(t, at)
    PROVE  LET u == RefitStep([tree |-> t, at |-> at])
           IN  /\ u = [tree |-> u.tree, at |-> t.nodes[at].parent]
               /\ Refitted(t, at, t.nodes[at].parent, u.tree)
<1> DEFINE D == DOMAIN t.nodes
           node == t.nodes[at]
           above == node.parent
           a == t.nodes[node.left].height
           b == t.nodes[node.right].height
           s == Sync(t, at)
           s0 == [tree |-> t, at |-> at]
           heavy == Heavy(s, at)
           top == IF heavy = None THEN at ELSE heavy
           v == Sync(IF heavy = None THEN s ELSE Rotate(s, at, heavy), top)
           u == RefitStep(s0)
<1>1. Linked(t) /\ at \in D \ Keys /\ Nearly(t, at)
  BY DEF Repairing
<1>2. /\ DOMAIN s.nodes = D
      /\ s.nodes[at] = Branch(above, node.left, node.right,
                              t.nodes[node.left], t.nodes[node.right])
      /\ s.nodes[at].parent = above
      /\ s.nodes[at].left = node.left /\ s.nodes[at].right = node.right
      /\ s \in Trees
      /\ \A m \in D \ {at} : s.nodes[m] = t.nodes[m]
      /\ node.left \in D /\ node.left # at /\ node.right \in D /\ node.right # at
      /\ a \in Nat /\ b \in Nat
  BY SyncLinked DEF Linked
<1>3. a - b \in -2..2
  BY <1>1 DEF Nearly
<1>4. /\ D \subseteq Names /\ None \notin Names /\ above \in Names \cup {None}
  BY <1>1, LinkedFields
<1>5. u = [tree |-> v, at |-> v.nodes[top].parent]
  <2>1. s0.at = at /\ s0.tree = t
    OBVIOUS
  <2> HIDE DEF s0
  <2> QED
    BY <2>1 DEF RefitStep
<1> HIDE DEF u
<1>6. heavy = IF b - a > 1 THEN node.right ELSE IF b - a < -1 THEN node.left ELSE None
  <2>1. s.nodes[node.left].height = a /\ s.nodes[node.right].height = b
    BY <1>2
  <2> HIDE DEF s, a, b
  <2> QED
    BY <1>2, <2>1 DEF Heavy
<1> HIDE DEF heavy
<1>7. CASE a - b \in -1..1
  <2>1. heavy = None
    BY <1>2, <1>6, <1>7
  <2>2. Refitted(t, at, above, s)
    BY <1>7, FlatStep
  <2>3. s.nodes[at] = Branch(above, node.left, node.right,
                             s.nodes[node.left], s.nodes[node.right])
    BY <1>2
  <2>4. Sync(s, at) = s
    <3> HIDE DEF s, above, node
    <3> QED
      BY <1>1, <1>2, <1>4, <2>3, SyncSame
  <2>5. v = s /\ top = at
    BY <2>1, <2>4
  <2> HIDE DEF v, top, s
  <2> QED
    BY <1>2, <1>5, <2>2, <2>5 DEF u
<1>8. ASSUME NEW light, heavy # None,
             \/ node.left = heavy /\ node.right = light
             \/ node.left = light /\ node.right = heavy,
             t.nodes[heavy].height = 2 + t.nodes[light].height
      PROVE  /\ u = [tree |-> u.tree, at |-> above]
             /\ Refitted(t, at, above, u.tree)
  <2>1. LET r == Rotate(s, at, heavy)
        IN  /\ Refitted(t, at, above, r)
            /\ r.nodes[heavy].parent = above
            /\ Sync(r, heavy) = r
    BY <1>8, RotateStep
  <2>2. v = Rotate(s, at, heavy) /\ top = heavy
    BY <1>8, <2>1
  <2> HIDE DEF v, top, s
  <2> QED
    BY <1>5, <2>1, <2>2
<1>9. CASE a - b = 2
  <2>1. heavy = node.left /\ heavy # None
    BY <1>2, <1>4, <1>6, <1>9
  <2>2. t.nodes[heavy].height = 2 + t.nodes[node.right].height
    BY <1>2, <1>9, <2>1
  <2> QED
    BY <1>8, <2>1, <2>2 DEF u
<1>10. CASE a - b = -2
  <2>1. heavy = node.right /\ heavy # None
    BY <1>2, <1>4, <1>6, <1>10
  <2>2. t.nodes[heavy].height = 2 + t.nodes[node.left].height
    BY <1>2, <1>10, <2>1
  <2> QED
    BY <1>8, <2>1, <2>2 DEF u
<1> QED
  BY <1>2, <1>3, <1>7, <1>9, <1>10 DEF u

-----------------------------------------------------------------------------
(* Up to the root *)

LEMMA NamesNat == 2 * NumKeys \in Nat /\ Names = 1..(2 * NumKeys) /\ NumKeys \in Nat
BY SpatialAssumption DEF Names

(* A function on names has a bound. *)
LEMMA NameBound ==
    ASSUME NEW D \in SUBSET Names, NEW f, \A m \in D : f[m] \in Nat
    PROVE  \E B \in Nat : \A m \in D : f[m] <= B
<1> DEFINE N == 2 * NumKeys
           T == {i \in 0..N : \E B \in Nat : \A m \in D : m <= i => f[m] <= B}
<1>1. N \in Nat /\ Names = 1..N
  BY NamesNat
<1> HIDE DEF N
<1>2. 0 \in T
  <2>1. \A m \in D : ~(m <= 0)
    BY <1>1
  <2> QED
    BY <1>1, <2>1
<1>3. ASSUME NEW i \in 0..N, i \in T, i < N PROVE i + 1 \in T
  <2>1. PICK B \in Nat : \A m \in D : m <= i => f[m] <= B
    BY <1>3
  <2>2. CASE i + 1 \in D
    <3> DEFINE C == IF f[i + 1] <= B THEN B ELSE f[i + 1]
    <3>1. C \in Nat /\ B <= C /\ f[i + 1] <= C
      BY <2>2
    <3> HIDE DEF C
    <3>2. ASSUME NEW m \in D, m <= i + 1 PROVE f[m] <= C
      <4>1. m \in Int /\ i \in Int /\ f[m] \in Nat
        BY <1>1
      <4>2. CASE m = i + 1
        BY <3>1, <4>2
      <4>3. CASE m # i + 1
        <5>1. f[m] <= B
          BY <2>1, <3>2, <4>1, <4>3
        <5> QED
          BY <3>1, <4>1, <5>1
      <4> QED
        BY <4>2, <4>3
    <3> QED
      BY <1>1, <1>3, <3>1, <3>2
  <2>3. CASE i + 1 \notin D
    <3>1. ASSUME NEW m \in D, m <= i + 1 PROVE m <= i
      BY <1>1, <2>3, <3>1
    <3> QED
      BY <1>1, <1>3, <2>1, <3>1
  <2> QED
    BY <2>2, <2>3
<1>4. N \in T
  <2> HIDE DEF T
  <2>1. \A n \in 0..N : n \in T
    BY <1>1, <1>2, <1>3, SegmentInduction
  <2> QED
    BY <1>1, <2>1
<1>5. PICK B \in Nat : \A m \in D : m <= N => f[m] <= B
  BY <1>4
<1>6. \A m \in D : m <= N
  BY <1>1
<1> QED
  BY <1>5, <1>6

(* There is a place where it is greatest. *)
LEMMA GreatestName ==
    ASSUME NEW D \in SUBSET Names, D # {}, NEW f, \A m \in D : f[m] \in Nat
    PROVE  \E m \in D : \A n \in D : f[n] <= f[m]
<1>1. PICK B \in Nat : \A m \in D : f[m] <= B
  BY NameBound
<1> DEFINE T == {B - f[m] : m \in D}
<1>2. T \in SUBSET Nat /\ T # {}
  BY <1>1
<1>3. PICK x \in T : \A y \in T : x <= y
  <2> HIDE DEF T
  <2> QED
    BY <1>2, LeastNatural
<1>4. PICK m \in D : x = B - f[m]
  BY <1>3
<1>5. ASSUME NEW n \in D PROVE f[n] <= f[m]
  <2>1. B - f[m] <= B - f[n]
    BY <1>3, <1>4
  <2> QED
    BY <2>1
<1> QED
  BY <1>5

(* And one where it is least. *)
LEMMA LeastName ==
    ASSUME NEW D, D # {}, NEW f, \A m \in D : f[m] \in Nat
    PROVE  \E m \in D : \A n \in D : f[m] <= f[n]
<1> DEFINE T == {f[m] : m \in D}
<1>1. PICK x \in T : \A y \in T : x <= y
  <2>1. T \in SUBSET Nat /\ T # {}
    OBVIOUS
  <2> HIDE DEF T
  <2> QED
    BY <2>1, LeastNatural
<1> QED
  BY <1>1

LEMMA ChildHeights ==
    ASSUME NEW t, NEW at, Repairing(t, at), NEW n \in DOMAIN t.nodes,
           t.nodes[n].parent # None
    PROVE  LET p == t.nodes[n].parent
           IN  /\ p \in DOMAIN t.nodes \ Keys
               /\ p # at => t.nodes[n].height < t.nodes[p].height
               /\ t.nodes[n].height <= t.nodes[p].height
<1> DEFINE p == t.nodes[n].parent
<1>1. Linked(t)
  BY DEF Repairing
<1>2. /\ p \in DOMAIN t.nodes
      /\ n = t.nodes[p].left \/ n = t.nodes[p].right
      /\ None \notin Names /\ DOMAIN t.nodes \subseteq Names
      /\ t.nodes[n].height \in Nat /\ t.nodes[p].height \in Nat
  BY <1>1, LinkedFields DEF ChildOf
<1>3. p \notin Keys
  BY <1>1, <1>2, LinkedFields DEF LeafAt
<1> HIDE DEF p
<1>4. ASSUME p # at PROVE t.nodes[n].height < t.nodes[p].height
  <2>1. Fits(t, p)
    BY <1>2, <1>3, <1>4 DEF Repairing
  <2> QED
    BY <1>1, <1>2, <1>3, <2>1, FitsHeights
<1>5. ASSUME p = at PROVE t.nodes[n].height <= t.nodes[p].height
  <2>1. at # None /\ Nearly(t, p)
    BY <1>2, <1>5 DEF Repairing
  <2>2. ForkAt(t, p)
    BY <1>1, <1>2, <1>3, LinkedFields
  <2>3. t.nodes[t.nodes[p].left].height \in Nat /\ t.nodes[t.nodes[p].right].height \in Nat
    BY <1>1, <2>2, LinkedFields DEF ForkAt
  <2> QED
    BY <1>2, <2>1, <2>3 DEF Nearly
<1> QED
  BY <1>2, <1>3, <1>4, <1>5 DEF p

(* What holds of the root and passes from parent to child holds of all. *)
LEMMA TopDown ==
    ASSUME NEW t, NEW at, Repairing(t, at), NEW S, t.root # None => t.root \in S,
           \A n \in DOMAIN t.nodes :
               t.nodes[n].parent # None /\ t.nodes[n].parent \in S => n \in S
    PROVE  DOMAIN t.nodes \subseteq S
<1> DEFINE D == DOMAIN t.nodes
           C == D \ S
           h == [m \in D |-> t.nodes[m].height]
<1> SUFFICES ASSUME C # {} PROVE FALSE
  OBVIOUS
<1>1. Linked(t)
  BY DEF Repairing
<1>2. /\ D \subseteq Names /\ \A m \in D : h[m] \in Nat
      /\ \A m \in D : t.nodes[m].parent = None => m = t.root
      /\ None \notin D
  BY <1>1, LinkedFields
<1>3. PICK m \in C : \A n \in C : h[n] <= h[m]
  <2>1. C \in SUBSET Names /\ \A n \in C : h[n] \in Nat
    BY <1>2
  <2> HIDE DEF C, h
  <2> QED
    BY <2>1, GreatestName
<1>4. ASSUME NEW n \in C
      PROVE  /\ t.nodes[n].parent # None /\ t.nodes[n].parent \in C
             /\ t.nodes[n].parent # at => h[n] < h[t.nodes[n].parent]
             /\ h[n] <= h[t.nodes[n].parent]
  <2>1. t.nodes[n].parent # None
    BY <1>2
  <2> QED
    BY <2>1, ChildHeights
<1> DEFINE p == t.nodes[m].parent
           q == t.nodes[p].parent
<1>5. p \in C /\ h[p] \in Nat /\ h[m] \in Nat /\ h[p] <= h[m] /\ h[m] <= h[p] /\ p = at /\ at # None
  <2>1. p \in C /\ p # None /\ (p # at => h[m] < h[p])
    BY <1>4
  <2>2. h[p] <= h[m] /\ h[m] <= h[p]
    BY <1>3, <1>4, <2>1
  <2>3. h[p] \in Nat /\ h[m] \in Nat
    BY <1>2, <2>1
  <2> HIDE DEF h
  <2> QED
    BY <2>1, <2>2, <2>3
<1>6. q \in C /\ h[q] <= h[m] /\ q # None
  BY <1>3, <1>4, <1>5
<1>7. t.nodes[q].height >= 1 + t.nodes[p].height
  BY <1>5, <1>6, AboveFits
<1>8. h[q] \in Nat /\ h[q] >= 1 + h[p]
  BY <1>2, <1>5, <1>6, <1>7
<1> HIDE DEF h
<1> QED
  BY <1>5, <1>6, <1>8

LEMMA RootHighest ==
    ASSUME NEW t, NEW at, Repairing(t, at), NEW m \in DOMAIN t.nodes
    PROVE  t.nodes[m].height <= t.nodes[t.root].height
<1> DEFINE H == t.nodes[t.root].height
           S == {n \in DOMAIN t.nodes : t.nodes[n].height <= H}
<1>1. Linked(t) /\ t.root \in DOMAIN t.nodes
  BY DEF Repairing, Linked
<1>2. \A n \in DOMAIN t.nodes : t.nodes[n].height \in Nat
  BY <1>1, LinkedFields
<1>3. t.root \in S
  BY <1>1, <1>2
<1>4. ASSUME NEW n \in DOMAIN t.nodes, t.nodes[n].parent # None, t.nodes[n].parent \in S
      PROVE  n \in S
  <2>1. t.nodes[n].height <= t.nodes[t.nodes[n].parent].height
    BY <1>4, ChildHeights
  <2>2. /\ t.nodes[t.nodes[n].parent].height <= H /\ t.nodes[t.nodes[n].parent].height \in Nat
        /\ H \in Nat /\ t.nodes[n].height \in Nat
    BY <1>1, <1>2, <1>4
  <2> HIDE DEF H
  <2> QED
    BY <2>1, <2>2
<1>5. DOMAIN t.nodes \subseteq S
  <2> HIDE DEF S
  <2> QED
    BY <1>3, <1>4, TopDown
<1> QED
  BY <1>5

(* The rounds of _refit_from, and where they end. *)
RefitRounds(t, n, refit) ==
    LET N == 1 + t.nodes[t.root].height
    IN  /\ RefitFrom(t, n) = refit[N].tree
        /\ refit[0] = [tree |-> t, at |-> n]
        /\ \A i \in 1..N : refit[i] = RefitStep(refit[i - 1])

LEMMA RefitRecursion ==
    ASSUME NEW t, NEW n, t.nodes[t.root].height \in Nat, NEW S, [tree |-> t, at |-> n] \in S,
           \A s \in S : RefitStep(s) \in S
    PROVE  \E refit : RefitRounds(t, n, refit)
<1> DEFINE N == 1 + t.nodes[t.root].height
           a == [tree |-> t, at |-> n]
           g == [p \in S \X (1..N) |-> RefitStep(p[1])]
           Def(f) == [i \in 0..N |-> IF i = 0 THEN a ELSE RefitStep(f[i - 1])]
           R == CHOOSE f : f = Def(f)
<1>1. N \in Nat /\ N > 0
  OBVIOUS
<1>2. g \in [S \X (1..N) -> S]
  <2> HIDE DEF N
  <2> QED
    OBVIOUS
<1>3. PICK f : Iterates(f, S, a, N, g)
  <2> HIDE DEF g, N, a
  <2> QED
    BY <1>1, <1>2, SegmentRecursion DEF a
<1> HIDE DEF N, a
<1>4. f \in [0..N -> S] /\ f[0] = a /\ \A i \in 1..N : f[i] = g[<<f[i - 1], i>>]
  BY <1>3 DEF Iterates
<1>5. f = Def(f)
  <2> SUFFICES ASSUME NEW i \in 1..N PROVE f[i] = RefitStep(f[i - 1])
    BY <1>1, <1>4
  <2>1. f[i - 1] \in S
    BY <1>1, <1>4
  <2> QED
    BY <1>4, <2>1
<1>6. R = Def(R)
  <2> HIDE DEF Def
  <2> QED
    BY <1>5
<1>7. RefitFrom(t, n) = R[N].tree
  BY DEF RefitFrom, N, a
<1>8. R[0] = a /\ \A i \in 1..N : R[i] = RefitStep(R[i - 1])
  <2> HIDE DEF R
  <2> QED
    BY <1>1, <1>6
<1>9. RefitRounds(t, n, R)
  <2> HIDE DEF R
  <2> QED
    BY <1>7, <1>8 DEF RefitRounds, N, a
<1> HIDE DEF R
<1> QED
  BY <1>9

(* u holds the same leaves as t, with the same boxes. *)
SameLeaves(t, u) ==
    /\ DOMAIN u.nodes = DOMAIN t.nodes
    /\ \A k \in DOMAIN t.nodes \cap Keys : u.nodes[k].box = t.nodes[k].box

(* After i rounds the repair is at least i levels up, and below the root. *)
Going(t, s, i) ==
    /\ Repairing(s.tree, s.at) /\ SameLeaves(t, s.tree)
    /\ s.at # None =>
           /\ i <= s.tree.nodes[s.at].height
           /\ \A m \in DOMAIN t.nodes :
                  s.tree.nodes[m].height <= t.nodes[t.root].height

LEMMA GoingOn ==
    ASSUME NEW t, t.nodes[t.root].height \in Nat, NEW i \in Nat,
           NEW x, NEW at, Going(t, [tree |-> x, at |-> at], i)
    PROVE  Going(t, RefitStep([tree |-> x, at |-> at]), i + 1)
<1> DEFINE s == [tree |-> x, at |-> at]
           B == t.nodes[t.root].height
           D == DOMAIN t.nodes
<1>1. s.tree = x /\ s.at = at
  OBVIOUS
<1> HIDE DEF s
<1>2. /\ Repairing(x, at) /\ SameLeaves(t, x) /\ DOMAIN x.nodes = D
      /\ at # None => /\ i <= x.nodes[at].height
                      /\ \A m \in D : x.nodes[m].height <= B
  BY <1>1 DEF Going, SameLeaves, s
<1>3. CASE at = None
  BY <1>1, <1>2, <1>3 DEF RefitStep, Going, s
<1>4. CASE at # None
  <2> DEFINE u == RefitStep(s)
             y == u.tree
             above == x.nodes[at].parent
  <2>1. u = [tree |-> y, at |-> above] /\ Refitted(x, at, above, y)
    BY <1>2, <1>4, RefitKeeps DEF s
  <2>2. u.at = above
    BY <2>1
  <2> HIDE DEF u
  <2>3. /\ Repairing(y, above) /\ DOMAIN y.nodes = D
        /\ SameLeaves(t, y)
        /\ above # None => y.nodes[above].height = x.nodes[above].height
        /\ \A m \in D : \/ y.nodes[m].height <= x.nodes[m].height
                        \/ y.nodes[m].height <= 1 + x.nodes[at].height
    BY <1>2, <2>1 DEF Refitted, SameLeaves
  <2>4. /\ at \in D /\ \A m \in D : x.nodes[m].height \in Nat /\ y.nodes[m].height \in Nat
    BY <1>2, <1>4, <2>3, LinkedFields DEF Repairing
  <2>5. ASSUME above # None
        PROVE  /\ i + 1 <= y.nodes[above].height
               /\ \A m \in D : y.nodes[m].height <= B
    <3>1. above \in D /\ x.nodes[above].height >= 1 + x.nodes[at].height
      BY <1>2, <1>4, <2>5, AboveFits
    <3>2. x.nodes[above].height <= B /\ x.nodes[above].height \in Nat /\ x.nodes[at].height \in Nat
      BY <1>2, <1>4, <2>4, <3>1
    <3>3. i + 1 <= y.nodes[above].height
      BY <1>2, <1>4, <2>3, <2>5, <3>1, <3>2
    <3>4. 1 + x.nodes[at].height <= B /\ B \in Nat
      BY <3>1, <3>2
    <3>5. ASSUME NEW m \in D PROVE y.nodes[m].height <= B
      <4>1. x.nodes[m].height <= B /\ x.nodes[m].height \in Nat /\ y.nodes[m].height \in Nat
        BY <1>2, <1>4, <2>4
      <4>2. \/ y.nodes[m].height <= x.nodes[m].height
            \/ y.nodes[m].height <= 1 + x.nodes[at].height
        BY <2>3
      <4> HIDE DEF B
      <4> QED
        BY <3>2, <3>4, <4>1, <4>2
    <3> QED
      BY <3>3, <3>5
  <2> QED
    BY <2>2, <2>3, <2>5 DEF Going, s, u
<1> QED
  BY <1>3, <1>4

LEMMA RefitFromSound ==
    ASSUME NEW t, t.root # None, NEW n \in Names \cup {None}, NEW at, Repairing(t, at),
           \/ n = at
           \/ /\ RefitStep([tree |-> t, at |-> n]) = [tree |-> t, at |-> at]
              /\ at # None => 1 <= t.nodes[at].height
    PROVE  Sound(RefitFrom(t, n)) /\ SameLeaves(t, RefitFrom(t, n))
<1> DEFINE B == t.nodes[t.root].height
           N == 1 + B
           s0 == [tree |-> t, at |-> n]
           s1 == [tree |-> t, at |-> at]
           S == {s0} \cup
                {s \in [tree : Trees, at : Names \cup {None}] : Repairing(s.tree, s.at)}
<1>1. Linked(t) /\ t.root \in DOMAIN t.nodes /\ t \in Trees /\ B \in Nat
  <2>1. Linked(t) /\ t.root \in DOMAIN t.nodes
    BY DEF Repairing, Linked
  <2> QED
    BY <2>1, LinkedFields
<1>2. s1 \in S
  <2>1. at \in Names \cup {None}
    BY <1>1, LinkedFields DEF Repairing
  <2>2. s1 \in [tree : Trees, at : Names \cup {None}] /\ s1.tree = t /\ s1.at = at
    BY <1>1, <2>1
  <2> HIDE DEF s0, s1
  <2> QED
    BY <2>2
<1>3. ASSUME NEW s \in S PROVE RefitStep(s) \in S
  <2>1. ASSUME s \in [tree : Trees, at : Names \cup {None}], Repairing(s.tree, s.at)
        PROVE  RefitStep(s) \in S
    <3>1. CASE s.at = None
      BY <3>1 DEF RefitStep
    <3>2. CASE s.at # None
      <4> DEFINE x == s.tree
                 above == x.nodes[s.at].parent
                 u == RefitStep(s)
                 y == u.tree
      <4>1. s = [tree |-> x, at |-> s.at]
        BY <2>1
      <4>2. u = [tree |-> y, at |-> above] /\ Refitted(x, s.at, above, y)
        BY <2>1, <3>2, <4>1, RefitKeeps
      <4>3. u.at = above
        BY <4>2
      <4> HIDE DEF u
      <4>4. Repairing(y, above) /\ y \in Trees
        BY <4>2 DEF Refitted, Repairing, Linked
      <4>5. above \in Names \cup {None}
        BY <4>4, LinkedFields DEF Repairing
      <4>6. u \in [tree : Trees, at : Names \cup {None}]
        BY <4>2, <4>4, <4>5
      <4>7. u \in S
        BY <4>3, <4>4, <4>6
      <4> QED
        BY <4>7 DEF u
    <3> QED
      BY <3>1, <3>2
  <2>2. CASE s = s0
    <3>1. CASE n = at
      BY <1>1, <1>2, <2>1, <2>2, <3>1
    <3>2. CASE n # at
      <4> HIDE DEF S
      <4> QED
        BY <1>2, <2>2, <3>2
    <3> QED
      BY <3>1, <3>2
  <2> QED
    BY <2>1, <2>2
<1>4. PICK R : RefitRounds(t, n, R)
  <2>1. s0 \in S
    OBVIOUS
  <2> HIDE DEF S
  <2> QED
    BY <1>1, <1>3, <2>1, RefitRecursion
<1>5. /\ RefitFrom(t, n) = R[N].tree /\ R[0] = s0
      /\ \A i \in 1..N : R[i] = RefitStep(R[i - 1])
  BY <1>4 DEF RefitRounds
<1>6. Going(t, s1, 0) /\ (n # at => Going(t, s1, 1))
  <2>1. s1.tree = t /\ s1.at = at /\ SameLeaves(t, t)
    BY DEF SameLeaves
  <2>2. \A m \in DOMAIN t.nodes : t.nodes[m].height <= B
    BY RootHighest
  <2>3. at # None => 0 <= t.nodes[at].height
    BY <1>1, LinkedFields DEF Repairing
  <2> HIDE DEF s1
  <2> QED
    BY <2>1, <2>2, <2>3 DEF Going
<1>7. \A s, i : Going(t, s, i) => Going(t, [tree |-> s.tree, at |-> s.at], i)
  BY DEF Going
<1> DEFINE T == {i \in 0..N : \/ Going(t, R[i], i) /\ R[i] = [tree |-> R[i].tree, at |-> R[i].at]
                              \/ i = 0 /\ n # at}
<1>8. 0 \in T
  <2>1. n = at => s0 = s1
    OBVIOUS
  <2>2. s0 = [tree |-> s0.tree, at |-> s0.at]
    OBVIOUS
  <2> HIDE DEF s0, s1, N
  <2>3. 0 \in 0..N
    BY <1>1 DEF N
  <2> QED
    BY <1>5, <1>6, <2>1, <2>2, <2>3
<1>9. ASSUME NEW i \in 0..N, i \in T, i < N PROVE i + 1 \in T
  <2>1. /\ i + 1 \in 1..N /\ i + 1 - 1 = i /\ i \in Nat
    BY <1>1, <1>9
  <2>2. R[i + 1] = RefitStep(R[i])
    BY <1>5, <2>1
  <2>3. CASE i = 0 /\ n # at
    <3>1. R[i + 1] = s1
      BY <1>5, <2>2, <2>3
    <3> QED
      BY <1>6, <2>1, <2>3, <3>1
  <2>4. CASE Going(t, R[i], i) /\ R[i] = [tree |-> R[i].tree, at |-> R[i].at]
    <3> DEFINE x == R[i].tree
               z == R[i].at
    <3>1. Going(t, RefitStep([tree |-> x, at |-> z]), i + 1)
      <4> HIDE DEF x, z
      <4>1. Going(t, [tree |-> x, at |-> z], i)
        BY <2>4 DEF x, z
      <4> QED
        BY <1>1, <2>1, <4>1, GoingOn
    <3>2. Going(t, R[i + 1], i + 1)
      BY <2>2, <2>4, <3>1
    <3>3. R[i + 1] = [tree |-> R[i + 1].tree, at |-> R[i + 1].at]
      <4>1. CASE z = None
        BY <2>2, <2>4, <4>1 DEF RefitStep
      <4>2. CASE z # None
        <5>1. Repairing(x, z)
          BY <2>4 DEF Going
        <5>2. LET u == RefitStep([tree |-> x, at |-> z])
              IN  u = [tree |-> u.tree, at |-> x.nodes[z].parent]
          <6> HIDE DEF x, z
          <6> QED
            BY <4>2, <5>1, RefitKeeps
        <5> HIDE DEF x, z
        <5> QED
          BY <2>2, <2>4, <5>2 DEF x, z
      <4> QED
        BY <4>1, <4>2
    <3> HIDE DEF x, z, N
    <3> QED
      BY <2>1, <3>2, <3>3
  <2> QED
    BY <1>9, <2>3, <2>4
<1>10. Going(t, R[N], N)
  <2>1. N \in Nat /\ N # 0
    BY <1>1
  <2>2. \A i \in 0..N : i \in T
    <3> HIDE DEF T, N
    <3> QED
      BY <1>8, <1>9, <2>1, SegmentInduction
  <2> HIDE DEF N
  <2>3. N \in T
    <3> HIDE DEF T
    <3> QED
      BY <2>1, <2>2
  <2> QED
    BY <2>1, <2>3
<1>11. R[N].at = None
  <2> SUFFICES ASSUME R[N].at # None PROVE FALSE
    OBVIOUS
  <2> DEFINE x == R[N].tree
             z == R[N].at
  <2>1. /\ N <= x.nodes[z].height /\ Repairing(x, z)
        /\ \A m \in DOMAIN t.nodes : x.nodes[m].height <= B
        /\ DOMAIN x.nodes = DOMAIN t.nodes
    BY <1>10 DEF Going, SameLeaves
  <2>2. z \in DOMAIN x.nodes /\ x.nodes[z].height \in Nat
    <3> HIDE DEF x, z
    <3>1. z # None
      BY DEF z
    <3> QED
      BY <2>1, <3>1, LinkedFields DEF Repairing
  <2>3. x.nodes[z].height <= B
    BY <2>1, <2>2
  <2> HIDE DEF x, z
  <2> QED
    BY <1>1, <2>1, <2>2, <2>3
<1> HIDE DEF N
<1> QED
  BY <1>5, <1>10, <1>11 DEF Going, Sound

-----------------------------------------------------------------------------
(* Insertion *)

(* x is t with a leaf for key beside sibling, below a new branch that is   *)
(* below above.                                                            *)
Grafted(t, x, key, box, sibling, branch, above, first, second) ==
    /\ sibling \in DOMAIN t.nodes \cap Keys /\ key \in Keys \ DOMAIN t.nodes
    /\ branch \in Names \ (Keys \cup DOMAIN t.nodes)
    /\ above \in DOMAIN t.nodes \cup {None} /\ t.nodes[sibling].parent = above
    /\ x \in Trees /\ DOMAIN x.nodes = DOMAIN t.nodes \cup {key, branch}
    /\ x.root = IF above = None THEN branch ELSE t.root
    /\ \/ first = sibling /\ second = key
       \/ first = key /\ second = sibling
    /\ x.nodes[branch] = Branch(above, first, second, x.nodes[first], x.nodes[second])
    /\ x.nodes[key] = Under(Leaf(key, box), branch)
    /\ x.nodes[sibling] = Under(t.nodes[sibling], branch)
    /\ above # None => x.nodes[above] = Swapped(t.nodes[above], sibling, branch)
    /\ \A m \in DOMAIN t.nodes \ {sibling, above} : x.nodes[m] = t.nodes[m]

LEMMA LeafFields ==
    ASSUME NEW key \in Keys, NEW box \in Box
    PROVE  /\ Leaf(key, box) \in NodeRecord
           /\ Leaf(key, box).parent = None /\ Leaf(key, box).left = None
           /\ Leaf(key, box).right = None /\ Leaf(key, box).height = 0
           /\ Leaf(key, box).box = box /\ Leaf(key, box).least = key
<1>1. key \in Int
  BY NamesNat DEF Keys
<1> QED
  BY <1>1 DEF Leaf, NodeRecord

(* What became of the fields. *)
GraftShape(t, x, key, box, sibling, branch, above, first, second) ==
    /\ above # sibling /\ above # key /\ above # branch
    /\ key # sibling /\ key # branch /\ sibling # branch
    /\ x.nodes[branch].parent = above
    /\ x.nodes[branch].left = first /\ x.nodes[branch].right = second
    /\ x.nodes[branch].height = 1
    /\ x.nodes[key].parent = branch /\ LeafAt(x, key) /\ x.nodes[key].box = box
    /\ \A m \in DOMAIN t.nodes :
           /\ x.nodes[m].parent = IF m = sibling THEN branch ELSE t.nodes[m].parent
           /\ x.nodes[m].height = t.nodes[m].height
           /\ x.nodes[m].box = t.nodes[m].box
           /\ x.nodes[m].least = t.nodes[m].least
    /\ \A m \in DOMAIN t.nodes \ {above} :
           x.nodes[m].left = t.nodes[m].left /\ x.nodes[m].right = t.nodes[m].right
    /\ above # None =>
           /\ x.nodes[above].left = IF t.nodes[above].left = sibling THEN branch
                                    ELSE t.nodes[above].left
           /\ x.nodes[above].right = IF t.nodes[above].left = sibling
                                     THEN t.nodes[above].right ELSE branch

LEMMA GraftedFields ==
    ASSUME NEW t, Linked(t), NEW x, NEW key, NEW box \in Box, NEW sibling, NEW branch,
           NEW above, NEW first, NEW second,
           Grafted(t, x, key, box, sibling, branch, above, first, second)
    PROVE  GraftShape(t, x, key, box, sibling, branch, above, first, second)
<1> DEFINE D == DOMAIN t.nodes
<1>1. /\ sibling \in D /\ sibling \in Keys /\ key \in Keys /\ key \notin D
      /\ branch \in Names /\ branch \notin Keys /\ branch \notin D
      /\ above \in D \cup {None} /\ t.nodes[sibling].parent = above
      /\ None \notin Names /\ D \subseteq Names
      /\ \A m \in D : t.nodes[m] \in NodeRecord /\ t.nodes[m].parent # m
  BY LinkedFields DEF Grafted
<1>2. None \notin Keys
  BY NamesNat DEF Keys, None
<1>3. /\ above # sibling /\ above # key /\ above # branch
      /\ key # sibling /\ key # branch /\ sibling # branch
  BY <1>1, <1>2
<1>4. /\ x.nodes[branch].parent = above
      /\ x.nodes[branch].left = first /\ x.nodes[branch].right = second
  BY BranchFields DEF Grafted
<1>5. /\ x.nodes[key].parent = branch /\ x.nodes[key].left = None
      /\ x.nodes[key].right = None /\ x.nodes[key].height = 0
      /\ x.nodes[key].least = key /\ x.nodes[key].box = box
  <2> DEFINE d == Leaf(key, box)
  <2>1. /\ d \in NodeRecord /\ d.left = None /\ d.right = None /\ d.height = 0
        /\ d.box = box /\ d.least = key
    BY <1>1, LeafFields
  <2>2. x.nodes[key] = Under(d, branch) /\ branch \in Names \cup {None}
    BY <1>1 DEF Grafted
  <2> HIDE DEF d
  <2>3. LET y == Under(d, branch)
        IN  /\ y \in NodeRecord /\ y.parent = branch
            /\ y.left = d.left /\ y.right = d.right
            /\ y.height = d.height /\ y.box = d.box /\ y.least = d.least
    BY <2>1, <2>2, UnderFields
  <2> QED
    BY <2>1, <2>2, <2>3
<1>6. /\ x.nodes[sibling].parent = branch
      /\ x.nodes[sibling].left = t.nodes[sibling].left
      /\ x.nodes[sibling].right = t.nodes[sibling].right
      /\ x.nodes[sibling].height = t.nodes[sibling].height
      /\ x.nodes[sibling].box = t.nodes[sibling].box
      /\ x.nodes[sibling].least = t.nodes[sibling].least
  <2> DEFINE d == t.nodes[sibling]
  <2>1. d \in NodeRecord /\ branch \in Names \cup {None}
    BY <1>1
  <2>2. x.nodes[sibling] = Under(d, branch)
    BY DEF Grafted
  <2> HIDE DEF d
  <2>3. LET y == Under(d, branch)
        IN  /\ y \in NodeRecord /\ y.parent = branch
            /\ y.left = d.left /\ y.right = d.right
            /\ y.height = d.height /\ y.box = d.box /\ y.least = d.least
    BY <2>1, UnderFields
  <2> QED
    BY <2>2, <2>3 DEF d
<1>7. ASSUME above # None
      PROVE  /\ x.nodes[above].parent = t.nodes[above].parent
             /\ x.nodes[above].height = t.nodes[above].height
             /\ x.nodes[above].box = t.nodes[above].box
             /\ x.nodes[above].least = t.nodes[above].least
             /\ x.nodes[above].left = IF t.nodes[above].left = sibling THEN branch
                                      ELSE t.nodes[above].left
             /\ x.nodes[above].right = IF t.nodes[above].left = sibling
                                       THEN t.nodes[above].right ELSE branch
  <2> DEFINE d == t.nodes[above]
  <2>1. d \in NodeRecord /\ branch \in Names
    BY <1>1, <1>7
  <2>2. x.nodes[above] = Swapped(d, sibling, branch)
    BY <1>7 DEF Grafted
  <2>3. LET y == Swapped(d, sibling, branch)
        IN  /\ y \in NodeRecord /\ y.parent = d.parent
            /\ y.left = IF d.left = sibling THEN branch ELSE d.left
            /\ y.right = IF d.left = sibling THEN d.right ELSE branch
            /\ y.height = d.height /\ y.box = d.box /\ y.least = d.least
    <3> HIDE DEF d
    <3> QED
      BY <2>1, SwappedFields DEF d
  <2> QED
    BY <2>2, <2>3
<1>8. \A m \in D \ {sibling, above} : x.nodes[m] = t.nodes[m]
  BY DEF Grafted
<1>9. x.nodes[branch].height = 1
  <2>1. t.nodes[sibling].height = 0
    BY <1>1, LinkedFields DEF LeafAt
  <2>2. x.nodes[first].height = 0 /\ x.nodes[second].height = 0
    BY <1>5, <1>6, <2>1 DEF Grafted
  <2>3. x.nodes[branch] = Branch(above, first, second, x.nodes[first], x.nodes[second])
    BY DEF Grafted
  <2> QED
    BY <2>2, <2>3, BranchHeight
<1>10. LeafAt(x, key)
  BY <1>1, <1>5 DEF LeafAt
<1> QED
  BY <1>1, <1>3, <1>4, <1>5, <1>6, <1>7, <1>8, <1>9, <1>10 DEF GraftShape

LEMMA GraftedLinks ==
    ASSUME NEW t, Linked(t), NEW x, NEW key, NEW box \in Box, NEW sibling, NEW branch,
           NEW above, NEW first, NEW second,
           Grafted(t, x, key, box, sibling, branch, above, first, second)
    PROVE  Linked(x)
<1> DEFINE D == DOMAIN t.nodes
           E == D \cup {key, branch}
<1>0. GraftShape(t, x, key, box, sibling, branch, above, first, second)
  BY GraftedFields
<1>1. /\ sibling \in D /\ sibling \in Keys /\ key \in Keys /\ key \notin D
      /\ branch \in Names /\ branch \notin Keys /\ branch \notin D
      /\ above \in D \cup {None} /\ t.nodes[sibling].parent = above
      /\ x \in Trees /\ DOMAIN x.nodes = E
      /\ x.root = IF above = None THEN branch ELSE t.root
      /\ \/ first = sibling /\ second = key
         \/ first = key /\ second = sibling
  BY DEF Grafted
<1>2. /\ None \notin D /\ None \notin Names
      /\ \A m \in D : /\ m \in Keys => LeafAt(t, m)
                      /\ m \notin Keys => ForkAt(t, m)
                      /\ t.nodes[m].parent # m
      /\ \A m \in D : t.nodes[m].parent # None => ChildOf(t, m, t.nodes[m].parent)
      /\ \A m \in D : t.nodes[m].parent = None => m = t.root
      /\ \A m \in D : m = t.root => t.nodes[m].parent = None
      /\ t.root # None => t.root \in D
  BY LinkedFields DEF Linked
<1>3. /\ above # sibling /\ above # key /\ above # branch
      /\ key # sibling /\ key # branch /\ sibling # branch
      /\ x.nodes[branch].parent = above
      /\ x.nodes[branch].left = first /\ x.nodes[branch].right = second
      /\ x.nodes[key].parent = branch /\ LeafAt(x, key)
  BY <1>0 DEF GraftShape
<1>4. \A m \in D :
          /\ x.nodes[m].parent = IF m = sibling THEN branch ELSE t.nodes[m].parent
          /\ x.nodes[m].height = t.nodes[m].height
          /\ x.nodes[m].least = t.nodes[m].least
  BY <1>0 DEF GraftShape
<1>5. \A m \in D \ {above} :
          x.nodes[m].left = t.nodes[m].left /\ x.nodes[m].right = t.nodes[m].right
  BY <1>0 DEF GraftShape
<1>6. above # None =>
          /\ x.nodes[above].left = IF t.nodes[above].left = sibling THEN branch
                                   ELSE t.nodes[above].left
          /\ x.nodes[above].right = IF t.nodes[above].left = sibling
                                    THEN t.nodes[above].right ELSE branch
  BY <1>0 DEF GraftShape
<1>7. above # None =>
          /\ above \in D /\ above \notin Keys /\ ForkAt(t, above)
          /\ sibling = t.nodes[above].left \/ sibling = t.nodes[above].right
          /\ t.nodes[above].left # t.nodes[above].right
  <2> SUFFICES ASSUME above # None
               PROVE  /\ above \in D /\ above \notin Keys
                      /\ sibling = t.nodes[above].left \/ sibling = t.nodes[above].right
    BY <1>2 DEF ForkAt
  <2>1. ChildOf(t, sibling, above)
    BY <1>1, <1>2
  <2>2. above \notin Keys
    BY <1>1, <1>2, <2>1 DEF ChildOf, LeafAt
  <2> QED
    BY <2>1, <2>2 DEF ChildOf
<1>8. x.root # None /\ x.root \in E /\ x.nodes[x.root].parent = None
  <2>1. t.root # None /\ t.root \in D
    BY <1>1, <1>2 DEF Linked
  <2>2. CASE above = None
    BY <1>1, <1>2, <1>3, <2>2
  <2>3. CASE above # None
    <3>1. t.root # sibling
      BY <1>1, <1>2, <2>3
    <3> QED
      BY <1>1, <1>2, <1>4, <2>1, <2>3, <3>1
  <2> QED
    BY <2>2, <2>3
<1>9. ASSUME NEW m \in E, m # x.root PROVE ChildOf(x, m, x.nodes[m].parent)
  <2>1. CASE m = key \/ m = sibling
    BY <1>1, <1>3, <1>4, <2>1 DEF ChildOf
  <2>2. CASE m = branch
    <3>1. above # None
      BY <1>1, <1>9, <2>2
    <3> QED
      BY <1>1, <1>3, <1>6, <1>7, <2>2, <3>1 DEF ChildOf
  <2>3. CASE m \in D /\ m # sibling
    <3> DEFINE p == t.nodes[m].parent
    <3>1. x.nodes[m].parent = p
      BY <1>4, <2>3
    <3>2. p # None
      <4>1. m # t.root \/ above = None
        BY <1>1, <1>9
      <4>2. above = None => sibling = t.root
        BY <1>1, <1>2
      <4> QED
        BY <1>2, <2>3, <4>1, <4>2
    <3>3. p \in D /\ p # m /\ (m = t.nodes[p].left \/ m = t.nodes[p].right)
      BY <1>2, <2>3, <3>2 DEF ChildOf
    <3> HIDE DEF p
    <3>4. m = x.nodes[p].left \/ m = x.nodes[p].right
      <4>1. CASE p = above
        <5>1. above # None
          BY <3>2, <4>1
        <5> QED
          BY <1>6, <1>7, <2>3, <3>3, <4>1, <5>1
      <4>2. CASE p # above
        BY <1>5, <3>3, <4>2
      <4> QED
        BY <4>1, <4>2
    <3> QED
      BY <1>1, <3>1, <3>3, <3>4 DEF ChildOf
  <2> QED
    BY <2>1, <2>2, <2>3
<1>10. ASSUME NEW m \in E PROVE LeafAt(x, m) \/ ForkAt(x, m)
  <2>1. CASE m = key
    BY <1>3, <2>1
  <2>2. CASE m \in D /\ m \in Keys
    <3>1. m # above
      BY <1>7, <2>2, <1>2
    <3> QED
      BY <1>2, <1>4, <1>5, <2>2, <3>1 DEF LeafAt
  <2>3. CASE m = branch
    BY <1>1, <1>3, <1>4, <2>3 DEF ForkAt
  <2>4. CASE m = above
    <3>1. above # None /\ ForkAt(t, above) /\ above \in D
      <4>1. above # None
        <5>1. key # None /\ branch # None
          BY <1>1, <1>2, NamesNat DEF Keys, None
        <5> QED
          BY <1>2, <2>4, <5>1
      <4> QED
        BY <1>7, <4>1
    <3> DEFINE l == t.nodes[above].left
               g == t.nodes[above].right
    <3>2. /\ l # g /\ l \in D /\ t.nodes[l].parent = above
          /\ g \in D /\ t.nodes[g].parent = above
      BY <3>1 DEF ForkAt
    <3>3. l = sibling \/ g = sibling
      BY <1>7, <3>1
    <3> HIDE DEF l, g
    <3> QED
      BY <1>1, <1>3, <1>4, <1>6, <1>7, <2>4, <3>1, <3>2, <3>3 DEF ForkAt, l, g
  <2>5. CASE m \in D /\ m \notin Keys /\ m # above
    <3>1. ForkAt(t, m)
      BY <1>2, <2>5
    <3> DEFINE l == t.nodes[m].left
               g == t.nodes[m].right
    <3>2. /\ l # g /\ l \in D /\ t.nodes[l].parent = m
          /\ g \in D /\ t.nodes[g].parent = m
      BY <3>1 DEF ForkAt
    <3>3. x.nodes[m].left = l /\ x.nodes[m].right = g
      BY <1>5, <2>5
    <3> HIDE DEF l, g
    <3>4. l # sibling /\ g # sibling
      BY <1>1, <2>5, <3>2
    <3>5. x.nodes[l].parent = m /\ x.nodes[g].parent = m
      BY <1>4, <3>2, <3>4
    <3> QED
      BY <1>1, <2>5, <3>2, <3>3, <3>5 DEF ForkAt
  <2> QED
    BY <2>1, <2>2, <2>3, <2>4, <2>5
<1> QED
  BY <1>1, <1>8, <1>9, <1>10 DEF Linked

LEMMA GraftedRepair ==
    ASSUME NEW t, Sound(t), NEW x, NEW key, NEW box \in Box, NEW sibling, NEW branch,
           NEW above, NEW first, NEW second,
           Grafted(t, x, key, box, sibling, branch, above, first, second)
    PROVE  /\ Repairing(x, above)
           /\ RefitStep([tree |-> x, at |-> branch]) = [tree |-> x, at |-> above]
           /\ above # None => 1 <= x.nodes[above].height
<1> DEFINE D == DOMAIN t.nodes
           E == D \cup {key, branch}
<1>0. GraftShape(t, x, key, box, sibling, branch, above, first, second)
  BY GraftedFields DEF Sound, Repairing
<1>1. /\ sibling \in D /\ sibling \in Keys /\ key \in Keys /\ key \notin D
      /\ branch \in Names /\ branch \notin Keys /\ branch \notin D
      /\ above \in D \cup {None} /\ t.nodes[sibling].parent = above
      /\ x \in Trees /\ DOMAIN x.nodes = E
      /\ \/ first = sibling /\ second = key
         \/ first = key /\ second = sibling
      /\ x.nodes[branch] = Branch(above, first, second, x.nodes[first], x.nodes[second])
  BY DEF Grafted
<1>2. /\ Linked(t) /\ Linked(x) /\ D \subseteq Names /\ None \notin Names
  BY GraftedLinks, LinkedFields DEF Sound, Repairing
<1>3. /\ above # sibling /\ above # key /\ above # branch
      /\ key # sibling /\ key # branch /\ sibling # branch
      /\ x.nodes[branch].parent = above
      /\ x.nodes[branch].left = first /\ x.nodes[branch].right = second
      /\ x.nodes[branch].height = 1
      /\ x.nodes[key].parent = branch /\ LeafAt(x, key)
  BY <1>0 DEF GraftShape
<1>4. \A m \in D :
          /\ x.nodes[m].parent = IF m = sibling THEN branch ELSE t.nodes[m].parent
          /\ x.nodes[m].height = t.nodes[m].height
          /\ x.nodes[m].box = t.nodes[m].box
          /\ x.nodes[m].least = t.nodes[m].least
  BY <1>0 DEF GraftShape
<1>5. above # None =>
          /\ x.nodes[above].left = IF t.nodes[above].left = sibling THEN branch
                                   ELSE t.nodes[above].left
          /\ x.nodes[above].right = IF t.nodes[above].left = sibling
                                    THEN t.nodes[above].right ELSE branch
  BY <1>0 DEF GraftShape
<1>6. /\ t.nodes[sibling].height = 0 /\ x.nodes[sibling].height = 0
      /\ x.nodes[key].height = 0
      /\ x.nodes[first].height = 0 /\ x.nodes[second].height = 0
  <2>1. t.nodes[sibling].height = 0
    BY <1>1, <1>2, LinkedFields DEF LeafAt
  <2>2. x.nodes[sibling].height = 0 /\ x.nodes[key].height = 0
    BY <1>1, <1>3, <1>4, <2>1 DEF LeafAt
  <2> QED
    BY <1>1, <2>1, <2>2
<1>7. ASSUME NEW n \in E \ Keys, n # above PROVE Fits(x, n)
  <2>1. CASE n = branch
    BY <1>1, <1>3, <1>6, <2>1 DEF Fits
  <2>2. CASE n # branch
    <3>1. n \in D \ Keys /\ ForkAt(t, n) /\ Fits(t, n)
      <4>1. n \in D \ Keys
        BY <1>1, <1>7, <2>2
      <4>2. n # None
        BY <1>2, <4>1
      <4> QED
        BY <1>2, <4>1, <4>2, LinkedFields DEF Sound, Repairing
    <3> DEFINE l == t.nodes[n].left
               g == t.nodes[n].right
               p == t.nodes[n].parent
    <3>2. /\ l \in D /\ t.nodes[l].parent = n
          /\ g \in D /\ t.nodes[g].parent = n
      BY <3>1 DEF ForkAt
    <3>3. /\ t.nodes[l].height - t.nodes[g].height \in -1..1
          /\ t.nodes[n] = Branch(p, l, g, t.nodes[l], t.nodes[g])
      BY <3>1 DEF Fits
    <3>4. x.nodes[n] = t.nodes[n]
      BY <1>1, <1>7, <3>1 DEF Grafted
    <3>5. x.nodes[n].left = l /\ x.nodes[n].right = g /\ x.nodes[n].parent = p
      BY <3>4
    <3> HIDE DEF l, g, p
    <3>6. /\ x.nodes[l].height = t.nodes[l].height /\ x.nodes[l].box = t.nodes[l].box
          /\ x.nodes[l].least = t.nodes[l].least
          /\ x.nodes[g].height = t.nodes[g].height /\ x.nodes[g].box = t.nodes[g].box
          /\ x.nodes[g].least = t.nodes[g].least
      BY <1>4, <3>2
    <3>7. x.nodes[n] = Branch(p, l, g, x.nodes[l], x.nodes[g])
      BY <3>3, <3>4, <3>6, BranchOfSame
    <3> QED
      BY <3>3, <3>5, <3>6, <3>7 DEF Fits
  <2> QED
    BY <2>1, <2>2
<1>8. ASSUME above # None
      PROVE  above \in E \ Keys /\ Nearly(x, above) /\ 1 <= x.nodes[above].height
  <2>1. ChildOf(t, sibling, above) /\ above \in D
    BY <1>1, <1>2, <1>8, LinkedFields
  <2>2. above \notin Keys
    BY <1>1, <1>2, <2>1, LinkedFields DEF ChildOf, LeafAt
  <2>3. ForkAt(t, above) /\ Fits(t, above)
    BY <1>2, <1>8, <2>1, <2>2, LinkedFields DEF Sound, Repairing
  <2>4. PICK other :
            /\ other \in D /\ other # sibling /\ t.nodes[other].parent = above
            /\ \/ /\ t.nodes[above].left = sibling /\ t.nodes[above].right = other
                  /\ x.nodes[above].left = branch /\ x.nodes[above].right = other
               \/ /\ t.nodes[above].left = other /\ t.nodes[above].right = sibling
                  /\ x.nodes[above].left = other /\ x.nodes[above].right = branch
    <3>1. CASE t.nodes[above].left = sibling
      BY <1>5, <1>8, <2>3, <3>1 DEF ForkAt
    <3>2. CASE t.nodes[above].left # sibling
      BY <1>5, <1>8, <2>1, <2>3, <3>2 DEF ForkAt, ChildOf
    <3> QED
      BY <3>1, <3>2
  <2>5. /\ x.nodes[other].height = t.nodes[other].height
        /\ x.nodes[above].height = t.nodes[above].height
    BY <1>4, <2>1, <2>4
  <2>6. x.nodes[branch].height \in Nat /\ x.nodes[branch].height - t.nodes[sibling].height \in -1..1
    BY <1>3, <1>6
  <2>7. Nearly(x, above)
    BY <1>2, <2>1, <2>2, <2>3, <2>4, <2>5, <2>6, NearlyAbove
  <2>8. t.nodes[above].height >= 1
    <3> DEFINE l == t.nodes[t.nodes[above].left].height
               g == t.nodes[t.nodes[above].right].height
               h == t.nodes[above].height
    <3>1. l \in Nat /\ g \in Nat /\ h = 1 + (IF l >= g THEN l ELSE g)
      BY <1>2, <2>1, <2>2, <2>3, FitsHeights
    <3> HIDE DEF l, g, h
    <3>2. h >= 1
      BY <3>1
    <3> QED
      BY <3>2 DEF h
  <2> QED
    BY <2>1, <2>2, <2>5, <2>7, <2>8
<1>9. Repairing(x, above)
  BY <1>1, <1>2, <1>7, <1>8 DEF Repairing
<1>10. Sync(x, branch) = x
  <2>1. /\ branch \in DOMAIN x.nodes /\ first \in DOMAIN x.nodes /\ second \in DOMAIN x.nodes
        /\ above \in Names \cup {None}
    BY <1>1, <1>2
  <2> QED
    BY <1>1, <2>1, SyncSame
<1>11. Heavy(x, branch) = None
  BY <1>3, <1>6 DEF Heavy
<1>12. RefitStep([tree |-> x, at |-> branch]) = [tree |-> x, at |-> above]
  <2> DEFINE s == [tree |-> x, at |-> branch]
  <2>1. s.tree = x /\ s.at = branch /\ branch # None
    BY <1>1, <1>2
  <2> HIDE DEF s
  <2>2. RefitStep(s) = [tree |-> x, at |-> x.nodes[branch].parent]
    BY <1>10, <1>11, <2>1 DEF RefitStep
  <2> QED
    BY <1>3, <2>2 DEF s
<1> QED
  BY <1>8, <1>9, <1>12

(* What InsertLeaf hands to the repair. *)
LEMMA InsertGrafts ==
    ASSUME NEW t, Linked(t), NEW key \in Keys \ DOMAIN t.nodes, NEW box \in Box,
           NEW sibling \in DOMAIN t.nodes \cap Keys,
           Branches \ DOMAIN t.nodes # {}
    PROVE  \E x, branch, above, first, second :
               /\ Grafted(t, x, key, box, sibling, branch, above, first, second)
               /\ InsertLeaf(t, key, box, sibling) = RefitFrom(x, branch)
<1> DEFINE D == DOMAIN t.nodes
           branch == Min(Branches \ D)
           above == t.nodes[sibling].parent
           first == Min({sibling, key})
           second == Max({sibling, key})
           f == [n \in D \cup {key} |-> IF n = key THEN Leaf(key, box) ELSE t.nodes[n]]
           b == Branch(above, first, second, f[first], f[second])
           g == [n \in D \cup {key} \cup {branch} |->
                     IF n = branch THEN b
                     ELSE IF n \in {sibling, key} THEN [f[n] EXCEPT !.parent = branch]
                     ELSE f[n]]
           y == [t EXCEPT !.nodes = g]
           x == ReplaceChild(y, above, sibling, branch)
<1>1. /\ t = [root |-> t.root, nodes |-> t.nodes] /\ t.root \in Names \cup {None}
      /\ D \subseteq Names /\ None \notin Names /\ t.root # None
      /\ \A m \in D : t.nodes[m] \in NodeRecord
      /\ above \in D \cup {None}
  <2>1. t \in Trees
    BY DEF Linked
  <2>2. t.root # None
    BY DEF Linked
  <2> QED
    BY <2>1, <2>2, LinkedFields, TreeFields
<1>2. branch \in Branches \ D /\ branch \in Names /\ branch \notin Keys
  <2>1. Branches \ D \in SUBSET Nat
    BY NamesNat DEF Branches
  <2>2. PICK z \in Branches \ D : \A w \in Branches \ D : z <= w
    BY <2>1, LeastNatural
  <2>3. branch \in Branches \ D
    BY <2>2 DEF Min
  <2> HIDE DEF branch
  <2> QED
    BY <2>3, NamesNat DEF Branches, Keys, Names
<1>3. key \in Names /\ key \in Int /\ sibling \in Int /\ key # sibling
  BY NamesNat DEF Keys, Names
<1>4. \/ first = sibling /\ second = key
      \/ first = key /\ second = sibling
  BY <1>3, Extremes
<1>5. InsertLeaf(t, key, box, sibling) = RefitFrom(x, branch)
  <2>1. D \cup {key} = DOMAIN f
    OBVIOUS
  <2> QED
    BY <1>1, <2>1 DEF InsertLeaf
<1>6. Leaf(key, box) \in NodeRecord
  BY LeafFields
<1>7. f[key] = Leaf(key, box) /\ \A m \in D : f[m] = t.nodes[m]
  OBVIOUS
<1>8. \A m \in D \cup {key} : f[m] \in NodeRecord
  BY <1>1, <1>6
<1> HIDE DEF f, branch, first, second
<1>9. b \in NodeRecord
  <2>1. first \in D \cup {key} /\ second \in D \cup {key} /\ above \in Names \cup {None}
    BY <1>1, <1>4
  <2>2. first \in Names /\ second \in Names
    BY <1>1, <1>3, <2>1
  <2> HIDE DEF above
  <2> QED
    BY <1>8, <2>1, <2>2, BranchType
<1> HIDE DEF b
<1>10. /\ g[branch] = b /\ DOMAIN g = D \cup {key, branch}
       /\ g[key] = Under(Leaf(key, box), branch)
       /\ g[sibling] = Under(t.nodes[sibling], branch)
       /\ \A m \in D \ {sibling} : g[m] = t.nodes[m]
  BY <1>2, <1>3, <1>7 DEF Under
<1>11. \A m \in DOMAIN g : g[m] \in NodeRecord
  <2>1. Under(Leaf(key, box), branch) \in NodeRecord
    BY <1>2, <1>6, UnderFields
  <2>2. Under(t.nodes[sibling], branch) \in NodeRecord
    BY <1>1, <1>2, UnderFields
  <2> HIDE DEF g
  <2> QED
    BY <1>1, <1>9, <1>10, <2>1, <2>2
<1>12. g \in [DOMAIN g -> NodeRecord] /\ DOMAIN g \in SUBSET Names
  <2>1. DOMAIN g \subseteq Names
    BY <1>1, <1>2, <1>3, <1>10
  <2>2. g = [m \in DOMAIN g |-> g[m]]
    OBVIOUS
  <2> HIDE DEF g
  <2> QED
    BY <1>11, <2>1, <2>2
<1> HIDE DEF g
<1>13. y = [root |-> t.root, nodes |-> g]
  BY <1>1
<1>14. y \in Trees /\ y.root = t.root /\ y.nodes = g
  BY <1>1, <1>12, <1>13 DEF Trees
<1> HIDE DEF y
<1>15. /\ x \in Trees
       /\ x.root = IF above = None THEN branch ELSE y.root
       /\ DOMAIN x.nodes = DOMAIN y.nodes
       /\ \A m \in DOMAIN y.nodes : x.nodes[m] =
              IF m = above THEN Swapped(y.nodes[m], sibling, branch) ELSE y.nodes[m]
  <2>1. above \in DOMAIN y.nodes \cup {None}
    BY <1>1, <1>10, <1>14
  <2> HIDE DEF above
  <2> QED
    BY <1>2, <1>14, <2>1, ReplaceChildEffect
<1> HIDE DEF x
<1>16. above # sibling /\ above # key /\ above # branch
  BY <1>1, <1>2, <1>3, LinkedFields
<1>17. x.nodes[branch] = Branch(above, first, second, x.nodes[first], x.nodes[second])
  <2>1. x.nodes[branch] = b
    BY <1>10, <1>14, <1>15, <1>16
  <2>2. /\ x.nodes[key] = Under(Leaf(key, box), branch)
        /\ x.nodes[sibling] = Under(t.nodes[sibling], branch)
    BY <1>10, <1>14, <1>15, <1>16
  <2>3. /\ x.nodes[key].height = f[key].height /\ x.nodes[key].box = f[key].box
        /\ x.nodes[key].least = f[key].least
    <3> DEFINE d == Leaf(key, box)
    <3> HIDE DEF d
    <3>1. d \in NodeRecord /\ branch \in Names \cup {None} /\ x.nodes[key] = Under(d, branch)
          /\ f[key] = d
      BY <1>2, <1>6, <1>7, <2>2 DEF d
    <3> QED
      BY <3>1, UnderFields
  <2>4. /\ x.nodes[sibling].height = f[sibling].height /\ x.nodes[sibling].box = f[sibling].box
        /\ x.nodes[sibling].least = f[sibling].least
    <3> DEFINE d == t.nodes[sibling]
    <3> HIDE DEF d
    <3>1. d \in NodeRecord /\ branch \in Names \cup {None} /\ x.nodes[sibling] = Under(d, branch)
          /\ f[sibling] = d
      BY <1>1, <1>2, <1>7, <2>2 DEF d
    <3> QED
      BY <3>1, UnderFields
  <2> HIDE DEF above
  <2>5. /\ x.nodes[first].height = f[first].height /\ x.nodes[first].box = f[first].box
        /\ x.nodes[first].least = f[first].least
        /\ x.nodes[second].height = f[second].height /\ x.nodes[second].box = f[second].box
        /\ x.nodes[second].least = f[second].least
    BY <1>4, <2>3, <2>4
  <2>6. b = Branch(above, first, second, x.nodes[first], x.nodes[second])
    BY <2>5, BranchOfSame DEF b
  <2> QED
    BY <2>1, <2>6
<1>18. /\ x.nodes[key] = Under(Leaf(key, box), branch)
       /\ x.nodes[sibling] = Under(t.nodes[sibling], branch)
       /\ above # None => x.nodes[above] = Swapped(t.nodes[above], sibling, branch)
       /\ \A m \in D \ {sibling, above} : x.nodes[m] = t.nodes[m]
  BY <1>1, <1>2, <1>3, <1>10, <1>14, <1>15, <1>16
<1>19. Grafted(t, x, key, box, sibling, branch, above, first, second)
  BY <1>1, <1>2, <1>4, <1>10, <1>14, <1>15, <1>17, <1>18 DEF Grafted
<1> QED
  BY <1>5, <1>19

-----------------------------------------------------------------------------
(* Sound trees, whose branches are one less than the leaves *)

Leaves(t) == DOMAIN t.nodes \cap Keys
Forks(t) == DOMAIN t.nodes \ Keys

Well(t) ==
    /\ Sound(t)
    /\ t.root # None => Cardinality(Leaves(t)) = 1 + Cardinality(Forks(t))

LEMMA NodesFinite ==
    ASSUME NEW t \in Trees
    PROVE  /\ IsFiniteSet(DOMAIN t.nodes) /\ IsFiniteSet(Leaves(t)) /\ IsFiniteSet(Forks(t))
           /\ Cardinality(Leaves(t)) \in Nat /\ Cardinality(Forks(t)) \in Nat
<1>1. IsFiniteSet(Names)
  BY NamesNat, FS_Interval
<1>2. DOMAIN t.nodes \in SUBSET Names
  BY TreeFields
<1>3. IsFiniteSet(DOMAIN t.nodes)
  BY <1>1, <1>2, FS_Subset
<1>4. Leaves(t) \in SUBSET DOMAIN t.nodes /\ Forks(t) \in SUBSET DOMAIN t.nodes
  BY DEF Leaves, Forks
<1>5. IsFiniteSet(Leaves(t)) /\ IsFiniteSet(Forks(t))
  BY <1>3, <1>4, FS_Subset
<1> QED
  BY <1>3, <1>5, FS_CardinalityType

(* There is a number for the branch of one more leaf. *)
LEMMA FreeBranch ==
    ASSUME NEW t, Well(t), t.root # None, NEW key \in Keys \ DOMAIN t.nodes
    PROVE  Branches \ DOMAIN t.nodes # {}
<1> SUFFICES ASSUME Branches \ DOMAIN t.nodes = {} PROVE FALSE
  OBVIOUS
<1>1. t \in Trees
  BY DEF Well, Sound, Repairing, Linked
<1>2. Cardinality(Leaves(t)) \in Nat /\ Cardinality(Forks(t)) \in Nat /\ IsFiniteSet(Forks(t))
  BY <1>1, NodesFinite
<1>3. IsFiniteSet(Keys) /\ Cardinality(Keys) = NumKeys
  <2>1. 1 \in Int /\ NumKeys \in Int /\ ~(1 > NumKeys) /\ NumKeys - 1 + 1 = NumKeys
    BY SpatialAssumption
  <2>2. IsFiniteSet(1..NumKeys) /\ Cardinality(1..NumKeys) = NumKeys - 1 + 1
    BY <2>1, FS_Interval
  <2> QED
    BY <2>1, <2>2 DEF Keys
<1>4. Cardinality(Branches) = NumKeys
  <2>1. NumKeys + 1 \in Int /\ 2 * NumKeys \in Int /\ ~(NumKeys + 1 > 2 * NumKeys)
        /\ 2 * NumKeys - (NumKeys + 1) + 1 = NumKeys
    BY SpatialAssumption
  <2>2. Cardinality((NumKeys + 1)..(2 * NumKeys)) = 2 * NumKeys - (NumKeys + 1) + 1
    BY <2>1, FS_Interval
  <2> QED
    BY <2>1, <2>2 DEF Branches
<1>5. Branches \in SUBSET Forks(t)
  BY NamesNat DEF Branches, Keys, Forks
<1>6. NumKeys <= Cardinality(Forks(t))
  BY <1>2, <1>4, <1>5, FS_Subset
<1>7. Leaves(t) \in SUBSET (Keys \ {key})
  BY DEF Leaves
<1>8. IsFiniteSet(Keys \ {key}) /\ Cardinality(Keys \ {key}) = NumKeys - 1
  BY <1>3, FS_RemoveElement
<1>9. Cardinality(Leaves(t)) <= NumKeys - 1
  BY <1>7, <1>8, FS_Subset
<1> QED
  BY <1>2, <1>6, <1>9, NamesNat DEF Well

LEMMA LeafNodes ==
    ASSUME NEW t, Linked(t)
    PROVE  Leaves(t) = {n \in DOMAIN t.nodes : IsLeaf(t, n)}
<1>1. ASSUME NEW n \in DOMAIN t.nodes PROVE IsLeaf(t, n) <=> n \in Keys
  BY LinkedFields DEF LeafAt, ForkAt, IsLeaf
<1> QED
  BY <1>1 DEF Leaves

(* u holds the leaves of t and one for key, with this box. *)
HasAdded(t, key, box, u) ==
    /\ Leaves(u) = Leaves(t) \cup {key}
    /\ u.nodes[key].box = box
    /\ \A k \in Leaves(t) : u.nodes[k].box = t.nodes[k].box

LEMMA FirstLeaf ==
    ASSUME NEW t, Well(t), t.root = None, NEW key \in Keys, NEW box \in Box
    PROVE  LET u == [root |-> key, nodes |-> [n \in {key} |-> Leaf(key, box)]]
           IN  Well(u) /\ HasAdded(t, key, box, u)
<1> DEFINE u == [root |-> key, nodes |-> [n \in {key} |-> Leaf(key, box)]]
<1>1. u.root = key /\ DOMAIN u.nodes = {key} /\ u.nodes[key] = Leaf(key, box)
  OBVIOUS
<1>2. /\ key \in Names /\ key # None /\ None \notin Names
  BY NamesNat DEF Keys, Names, None
<1>3. /\ Leaf(key, box) \in NodeRecord
      /\ Leaf(key, box).parent = None /\ Leaf(key, box).left = None
      /\ Leaf(key, box).right = None /\ Leaf(key, box).height = 0
      /\ Leaf(key, box).box = box /\ Leaf(key, box).least = key
  BY LeafFields
<1>4. u \in Trees
  <2>1. [n \in {key} |-> Leaf(key, box)] \in [{key} -> NodeRecord] /\ {key} \in SUBSET Names
    BY <1>2, <1>3
  <2> QED
    BY <1>2, <2>1 DEF Trees
<1> HIDE DEF u
<1>5. LeafAt(u, key)
  BY <1>1, <1>3 DEF LeafAt
<1>6. Linked(u)
  BY <1>1, <1>2, <1>3, <1>4, <1>5 DEF Linked
<1>7. Sound(u)
  BY <1>1, <1>6 DEF Sound, Repairing
<1>8. Leaves(u) = {key} /\ Forks(u) = {}
  BY <1>1 DEF Leaves, Forks
<1>9. Well(u)
  <2>1. Cardinality({key}) = 1
    BY FS_Singleton
  <2>2. Cardinality({}) = 0
    BY FS_EmptySet
  <2> QED
    BY <1>7, <1>8, <2>1, <2>2 DEF Well
<1>10. Leaves(t) = {}
  BY DEF Well, Sound, Repairing, Linked, Leaves
<1> QED
  BY <1>1, <1>3, <1>8, <1>9, <1>10 DEF HasAdded, u

LEMMA InsertSound ==
    ASSUME NEW t, Well(t), NEW key \in Keys \ DOMAIN t.nodes, NEW box \in Box,
           NEW sibling \in ChooseSibling(t)
    PROVE  Well(InsertLeaf(t, key, box, sibling))
           /\ HasAdded(t, key, box, InsertLeaf(t, key, box, sibling))
<1>1. CASE t.root = None
  <2>1. key \in Keys
    OBVIOUS
  <2> DEFINE u == [root |-> key, nodes |-> [n \in {key} |-> Leaf(key, box)]]
  <2>2. Well(u) /\ HasAdded(t, key, box, u)
    BY <1>1, <2>1, FirstLeaf
  <2>3. InsertLeaf(t, key, box, sibling) = u
    BY <1>1 DEF InsertLeaf
  <2> QED
    BY <2>2, <2>3
<1>2. CASE t.root # None
  <2>1. Sound(t) /\ Linked(t) /\ t \in Trees
    BY DEF Well, Sound, Repairing, Linked
  <2>2. sibling \in DOMAIN t.nodes \cap Keys
    BY <1>2, <2>1, LeafNodes DEF ChooseSibling, Leaves
  <2>3. PICK x, branch, above, first, second :
            /\ Grafted(t, x, key, box, sibling, branch, above, first, second)
            /\ InsertLeaf(t, key, box, sibling) = RefitFrom(x, branch)
    BY <1>2, <2>1, <2>2, FreeBranch, InsertGrafts
  <2>4. /\ Repairing(x, above)
        /\ RefitStep([tree |-> x, at |-> branch]) = [tree |-> x, at |-> above]
        /\ above # None => 1 <= x.nodes[above].height
    BY <2>1, <2>3, GraftedRepair
  <2>5. /\ branch \in Names \cup {None} /\ branch \notin Keys /\ branch \notin DOMAIN t.nodes
        /\ DOMAIN x.nodes = DOMAIN t.nodes \cup {key, branch}
    BY <2>3 DEF Grafted
  <2>6. x.root # None
    BY <2>4, <2>5 DEF Repairing, Linked
  <2> DEFINE u == RefitFrom(x, branch)
  <2>7. Sound(u) /\ SameLeaves(x, u)
    BY <2>4, <2>5, <2>6, RefitFromSound
  <2> HIDE DEF u
  <2>8. Leaves(u) = Leaves(t) \cup {key} /\ Forks(u) = Forks(t) \cup {branch}
    BY <2>5, <2>7 DEF SameLeaves, Leaves, Forks
  <2>9. GraftShape(t, x, key, box, sibling, branch, above, first, second)
    BY <2>1, <2>3, GraftedFields
  <2>10. HasAdded(t, key, box, u)
    BY <2>5, <2>7, <2>8, <2>9 DEF HasAdded, GraftShape, SameLeaves, Leaves
  <2>11. /\ IsFiniteSet(Leaves(t)) /\ IsFiniteSet(Forks(t))
         /\ Cardinality(Leaves(t)) \in Nat /\ Cardinality(Forks(t)) \in Nat
    BY <2>1, NodesFinite
  <2>12. Cardinality(Leaves(u)) = Cardinality(Leaves(t)) + 1
    <3>1. key \notin Leaves(t)
      BY DEF Leaves
    <3> QED
      BY <2>8, <2>11, <3>1, FS_AddElement
  <2>13. Cardinality(Forks(u)) = Cardinality(Forks(t)) + 1
    <3>1. branch \notin Forks(t)
      BY <2>5 DEF Forks
    <3> QED
      BY <2>8, <2>11, <3>1, FS_AddElement
  <2>14. Cardinality(Leaves(t)) = 1 + Cardinality(Forks(t))
    BY <1>2 DEF Well
  <2>15. Well(u)
    BY <2>7, <2>11, <2>12, <2>13, <2>14 DEF Well
  <2> QED
    BY <2>3, <2>10, <2>15 DEF u
<1> QED
  BY <1>1, <1>2

-----------------------------------------------------------------------------
(* Removal *)

(* x is t without leaf and its parent, whose place sibling has taken.      *)
Pruned(t, x, leaf, parent, sibling, above) ==
    /\ leaf \in DOMAIN t.nodes \cap Keys /\ parent \in DOMAIN t.nodes \ Keys
    /\ sibling \in DOMAIN t.nodes \ {leaf, parent}
    /\ above \in (DOMAIN t.nodes \ {leaf, parent, sibling}) \cup {None}
    /\ t.nodes[leaf].parent = parent /\ t.nodes[sibling].parent = parent
    /\ t.nodes[parent].parent = above
    /\ \/ t.nodes[parent].left = leaf /\ t.nodes[parent].right = sibling
       \/ t.nodes[parent].left = sibling /\ t.nodes[parent].right = leaf
    /\ x \in Trees /\ DOMAIN x.nodes = DOMAIN t.nodes \ {leaf, parent}
    /\ x.root = IF above = None THEN sibling ELSE t.root
    /\ x.nodes[sibling] = Under(t.nodes[sibling], above)
    /\ above # None => x.nodes[above] = Swapped(t.nodes[above], parent, sibling)
    /\ \A m \in DOMAIN t.nodes \ {leaf, parent, sibling, above} :
           x.nodes[m] = t.nodes[m]

(* What became of the fields. *)
PruneShape(t, x, leaf, parent, sibling, above) ==
    /\ \A m \in DOMAIN t.nodes \ {leaf, parent} :
           /\ x.nodes[m].parent = IF m = sibling THEN above ELSE t.nodes[m].parent
           /\ x.nodes[m].height = t.nodes[m].height
           /\ x.nodes[m].box = t.nodes[m].box
           /\ x.nodes[m].least = t.nodes[m].least
    /\ \A m \in DOMAIN t.nodes \ {leaf, parent, above} :
           x.nodes[m].left = t.nodes[m].left /\ x.nodes[m].right = t.nodes[m].right
    /\ above # None =>
           /\ x.nodes[above].left = IF t.nodes[above].left = parent THEN sibling
                                    ELSE t.nodes[above].left
           /\ x.nodes[above].right = IF t.nodes[above].left = parent
                                     THEN t.nodes[above].right ELSE sibling

LEMMA PrunedFields ==
    ASSUME NEW t, Linked(t), NEW x, NEW leaf, NEW parent, NEW sibling, NEW above,
           Pruned(t, x, leaf, parent, sibling, above)
    PROVE  PruneShape(t, x, leaf, parent, sibling, above)
<1> DEFINE D == DOMAIN t.nodes
<1>1. /\ sibling \in D /\ sibling \in Names /\ sibling # leaf /\ sibling # parent
      /\ above \in D \cup {None} /\ above \notin {leaf, parent, sibling}
      /\ above \in Names \cup {None}
      /\ \A m \in D : t.nodes[m] \in NodeRecord
      /\ None \notin D
  BY LinkedFields DEF Pruned
<1>2. /\ x.nodes[sibling].parent = above
      /\ x.nodes[sibling].left = t.nodes[sibling].left
      /\ x.nodes[sibling].right = t.nodes[sibling].right
      /\ x.nodes[sibling].height = t.nodes[sibling].height
      /\ x.nodes[sibling].box = t.nodes[sibling].box
      /\ x.nodes[sibling].least = t.nodes[sibling].least
  <2> DEFINE d == t.nodes[sibling]
  <2>1. d \in NodeRecord /\ above \in Names \cup {None}
    BY <1>1
  <2>2. x.nodes[sibling] = Under(d, above)
    BY DEF Pruned
  <2> HIDE DEF d
  <2>3. LET y == Under(d, above)
        IN  /\ y \in NodeRecord /\ y.parent = above
            /\ y.left = d.left /\ y.right = d.right
            /\ y.height = d.height /\ y.box = d.box /\ y.least = d.least
    BY <2>1, UnderFields
  <2> QED
    BY <2>2, <2>3 DEF d
<1>3. ASSUME above # None
      PROVE  /\ x.nodes[above].parent = t.nodes[above].parent
             /\ x.nodes[above].height = t.nodes[above].height
             /\ x.nodes[above].box = t.nodes[above].box
             /\ x.nodes[above].least = t.nodes[above].least
             /\ x.nodes[above].left = IF t.nodes[above].left = parent THEN sibling
                                      ELSE t.nodes[above].left
             /\ x.nodes[above].right = IF t.nodes[above].left = parent
                                       THEN t.nodes[above].right ELSE sibling
  <2> DEFINE d == t.nodes[above]
  <2>1. d \in NodeRecord /\ sibling \in Names
    BY <1>1, <1>3
  <2>2. x.nodes[above] = Swapped(d, parent, sibling)
    BY <1>3 DEF Pruned
  <2>3. LET y == Swapped(d, parent, sibling)
        IN  /\ y \in NodeRecord /\ y.parent = d.parent
            /\ y.left = IF d.left = parent THEN sibling ELSE d.left
            /\ y.right = IF d.left = parent THEN d.right ELSE sibling
            /\ y.height = d.height /\ y.box = d.box /\ y.least = d.least
    <3> HIDE DEF d
    <3> QED
      BY <2>1, SwappedFields DEF d
  <2> QED
    BY <2>2, <2>3
<1>4. \A m \in D \ {leaf, parent, sibling, above} : x.nodes[m] = t.nodes[m]
  BY DEF Pruned
<1> QED
  BY <1>1, <1>2, <1>3, <1>4 DEF PruneShape

LEMMA PrunedLinks ==
    ASSUME NEW t, Linked(t), NEW x, NEW leaf, NEW parent, NEW sibling, NEW above,
           Pruned(t, x, leaf, parent, sibling, above)
    PROVE  Linked(x)
<1> DEFINE D == DOMAIN t.nodes
           E == D \ {leaf, parent}
<1>0. PruneShape(t, x, leaf, parent, sibling, above)
  BY PrunedFields
<1>1. /\ leaf \in D /\ leaf \in Keys /\ parent \in D /\ parent \notin Keys
      /\ sibling \in E /\ above \in D \cup {None}
      /\ above # leaf /\ above # parent /\ above # sibling
      /\ t.nodes[leaf].parent = parent /\ t.nodes[sibling].parent = parent
      /\ t.nodes[parent].parent = above
      /\ \/ t.nodes[parent].left = leaf /\ t.nodes[parent].right = sibling
         \/ t.nodes[parent].left = sibling /\ t.nodes[parent].right = leaf
      /\ x \in Trees /\ DOMAIN x.nodes = E
      /\ x.root = IF above = None THEN sibling ELSE t.root
  <2>1. None \notin D
    BY LinkedFields
  <2> QED
    BY <2>1 DEF Pruned
<1>2. /\ None \notin D
      /\ \A m \in D : /\ m \in Keys => LeafAt(t, m)
                      /\ m \notin Keys => ForkAt(t, m)
                      /\ t.nodes[m].parent # m
      /\ \A m \in D : t.nodes[m].parent # None => ChildOf(t, m, t.nodes[m].parent)
      /\ \A m \in D : t.nodes[m].parent = None => m = t.root
      /\ \A m \in D : m = t.root => t.nodes[m].parent = None
      /\ t.root # None => t.root \in D
  BY LinkedFields DEF Linked
<1>3. \A m \in E :
          /\ x.nodes[m].parent = IF m = sibling THEN above ELSE t.nodes[m].parent
          /\ x.nodes[m].height = t.nodes[m].height
          /\ x.nodes[m].least = t.nodes[m].least
  BY <1>0 DEF PruneShape
<1>4. \A m \in E \ {above} :
          x.nodes[m].left = t.nodes[m].left /\ x.nodes[m].right = t.nodes[m].right
  BY <1>0 DEF PruneShape
<1>5. above # None =>
          /\ x.nodes[above].left = IF t.nodes[above].left = parent THEN sibling
                                   ELSE t.nodes[above].left
          /\ x.nodes[above].right = IF t.nodes[above].left = parent
                                    THEN t.nodes[above].right ELSE sibling
  BY <1>0 DEF PruneShape
<1>6. above # None =>
          /\ above \in E /\ above \notin Keys /\ ForkAt(t, above)
          /\ parent = t.nodes[above].left \/ parent = t.nodes[above].right
          /\ t.nodes[above].left # t.nodes[above].right
  <2> SUFFICES ASSUME above # None
               PROVE  /\ above \in E /\ above \notin Keys
                      /\ parent = t.nodes[above].left \/ parent = t.nodes[above].right
    BY <1>1, <1>2 DEF ForkAt
  <2>1. ChildOf(t, parent, above)
    BY <1>1, <1>2
  <2>2. above \notin Keys
    BY <1>1, <1>2, <2>1 DEF ChildOf, LeafAt
  <2> QED
    BY <1>1, <2>1, <2>2 DEF ChildOf
<1>7. x.root # None /\ x.root \in E /\ x.nodes[x.root].parent = None
  <2>1. t.root # None /\ t.root \in D
    BY <1>1, <1>2 DEF Linked
  <2>2. CASE above = None
    BY <1>1, <1>2, <1>3, <2>2
  <2>3. CASE above # None
    <3>1. t.root # sibling /\ t.root # leaf /\ t.root # parent
      BY <1>1, <1>2, <2>3
    <3> QED
      BY <1>1, <1>2, <1>3, <2>1, <2>3, <3>1
  <2> QED
    BY <2>2, <2>3
<1>8. ASSUME NEW m \in E, m # x.root PROVE ChildOf(x, m, x.nodes[m].parent)
  <2>1. CASE m = sibling
    <3>1. above # None
      BY <1>1, <1>8, <2>1
    <3> QED
      BY <1>1, <1>3, <1>5, <1>6, <2>1, <3>1 DEF ChildOf
  <2>2. CASE m # sibling
    <3> DEFINE p == t.nodes[m].parent
    <3>1. x.nodes[m].parent = p
      BY <1>3, <2>2
    <3>2. p # None
      <4>1. m # t.root \/ above = None
        BY <1>1, <1>8
      <4>2. above = None => parent = t.root
        BY <1>1, <1>2
      <4> QED
        BY <1>2, <1>8, <4>1, <4>2
    <3>3. p \in D /\ p # m /\ (m = t.nodes[p].left \/ m = t.nodes[p].right)
      BY <1>2, <2>2, <3>2 DEF ChildOf
    <3> HIDE DEF p
    <3>4. p # leaf /\ p # parent
      BY <1>1, <1>2, <1>8, <2>2, <3>3 DEF LeafAt
    <3>5. m = x.nodes[p].left \/ m = x.nodes[p].right
      <4>1. CASE p = above
        <5>1. above # None
          BY <3>2, <4>1
        <5> QED
          BY <1>5, <1>6, <1>8, <3>3, <4>1, <5>1
      <4>2. CASE p # above
        BY <1>4, <3>3, <3>4, <4>2
      <4> QED
        BY <4>1, <4>2
    <3> QED
      BY <1>1, <3>1, <3>3, <3>4, <3>5 DEF ChildOf
  <2> QED
    BY <2>1, <2>2
<1>9. ASSUME NEW m \in E PROVE LeafAt(x, m) \/ ForkAt(x, m)
  <2>1. CASE m \in Keys
    <3>1. m # above
      BY <1>2, <1>6, <2>1
    <3> QED
      BY <1>2, <1>3, <1>4, <2>1, <3>1 DEF LeafAt
  <2>2. CASE m = above
    <3>1. above # None /\ ForkAt(t, above) /\ above \in E
      BY <1>2, <1>6, <2>2
    <3> DEFINE l == t.nodes[above].left
               g == t.nodes[above].right
    <3>2. /\ l # g /\ l \in D /\ t.nodes[l].parent = above
          /\ g \in D /\ t.nodes[g].parent = above
      BY <3>1 DEF ForkAt
    <3>3. l = parent \/ g = parent
      BY <1>6, <3>1
    <3> HIDE DEF l, g
    <3>4. l # leaf /\ g # leaf /\ l # sibling /\ g # sibling
      BY <1>1, <3>2
    <3> QED
      BY <1>1, <1>3, <1>5, <1>6, <2>2, <3>1, <3>2, <3>3, <3>4 DEF ForkAt, l, g
  <2>3. CASE m \notin Keys /\ m # above
    <3>1. ForkAt(t, m)
      BY <1>2, <2>3
    <3> DEFINE l == t.nodes[m].left
               g == t.nodes[m].right
    <3>2. /\ l # g /\ l \in D /\ t.nodes[l].parent = m
          /\ g \in D /\ t.nodes[g].parent = m
      BY <3>1 DEF ForkAt
    <3>3. x.nodes[m].left = l /\ x.nodes[m].right = g
      BY <1>4, <2>3
    <3> HIDE DEF l, g
    <3>4. /\ l # sibling /\ g # sibling /\ l # leaf /\ g # leaf
          /\ l # parent /\ g # parent
      BY <1>1, <1>9, <2>3, <3>2
    <3>5. l \in E /\ g \in E /\ x.nodes[l].parent = m /\ x.nodes[g].parent = m
      BY <1>3, <3>2, <3>4
    <3> QED
      BY <1>1, <2>3, <3>2, <3>3, <3>5 DEF ForkAt
  <2> QED
    BY <2>1, <2>2, <2>3
<1> QED
  BY <1>1, <1>7, <1>8, <1>9 DEF Linked

LEMMA PrunedRepair ==
    ASSUME NEW t, Sound(t), NEW x, NEW leaf, NEW parent, NEW sibling, NEW above,
           Pruned(t, x, leaf, parent, sibling, above)
    PROVE  Repairing(x, above)
<1> DEFINE D == DOMAIN t.nodes
           E == D \ {leaf, parent}
<1>1. Linked(t) /\ Linked(x) /\ PruneShape(t, x, leaf, parent, sibling, above)
  BY PrunedLinks, PrunedFields DEF Sound, Repairing
<1>2. /\ leaf \in D /\ leaf \in Keys /\ parent \in D \ Keys
      /\ sibling \in E /\ above \in D \cup {None}
      /\ above # leaf /\ above # parent /\ above # sibling
      /\ t.nodes[leaf].parent = parent /\ t.nodes[sibling].parent = parent
      /\ t.nodes[parent].parent = above
      /\ \/ t.nodes[parent].left = leaf /\ t.nodes[parent].right = sibling
         \/ t.nodes[parent].left = sibling /\ t.nodes[parent].right = leaf
      /\ DOMAIN x.nodes = E
      /\ x.nodes[sibling] = Under(t.nodes[sibling], above)
      /\ \A m \in E \ {sibling, above} : x.nodes[m] = t.nodes[m]
  <2>1. None \notin D
    BY <1>1, LinkedFields
  <2> QED
    BY <2>1 DEF Pruned
<1>3. /\ None \notin D
      /\ \A m \in D : /\ m \in Keys => LeafAt(t, m)
                      /\ m \notin Keys => ForkAt(t, m) /\ Fits(t, m)
                      /\ t.nodes[m].height \in Nat
      /\ \A m \in D : t.nodes[m].parent # None => ChildOf(t, m, t.nodes[m].parent)
  BY <1>1, LinkedFields DEF Sound, Repairing
<1>4. \A m \in E :
          /\ x.nodes[m].height = t.nodes[m].height
          /\ x.nodes[m].box = t.nodes[m].box
          /\ x.nodes[m].least = t.nodes[m].least
  BY <1>1 DEF PruneShape
<1>5. above # None =>
          /\ x.nodes[above].left = IF t.nodes[above].left = parent THEN sibling
                                   ELSE t.nodes[above].left
          /\ x.nodes[above].right = IF t.nodes[above].left = parent
                                    THEN t.nodes[above].right ELSE sibling
  BY <1>1 DEF PruneShape
<1>6. ASSUME NEW n \in E \ Keys, n # above PROVE Fits(x, n)
  <2> DEFINE l == t.nodes[n].left
             g == t.nodes[n].right
             p == t.nodes[n].parent
  <2>1. /\ l \in D /\ t.nodes[l].parent = n
        /\ g \in D /\ t.nodes[g].parent = n
    BY <1>3 DEF ForkAt
  <2>2. /\ t.nodes[l].height - t.nodes[g].height \in -1..1
        /\ t.nodes[n] = Branch(p, l, g, t.nodes[l], t.nodes[g])
    BY <1>3 DEF Fits
  <2>3. \E q : x.nodes[n] = Branch(q, l, g, t.nodes[l], t.nodes[g])
    <3>1. CASE n = sibling
      <4>1. x.nodes[n] = Under(t.nodes[n], above)
        BY <1>2, <3>1
      <4> HIDE DEF l, g, p
      <4>2. x.nodes[n] = Branch(above, l, g, t.nodes[l], t.nodes[g])
        BY <2>2, <4>1, UnderBranch
      <4> QED
        BY <4>2
    <3>2. CASE n # sibling
      BY <1>2, <1>6, <2>2, <3>2
    <3> QED
      BY <3>1, <3>2
  <2> HIDE DEF l, g, p
  <2>4. PICK q : x.nodes[n] = Branch(q, l, g, t.nodes[l], t.nodes[g])
    BY <2>3
  <2>5. l \in E /\ g \in E
    BY <1>2, <1>6, <2>1
  <2>6. x.nodes[n] = Branch(q, l, g, x.nodes[l], x.nodes[g])
    BY <1>4, <2>4, <2>5, BranchOfSame
  <2>7. x.nodes[n].parent = q /\ x.nodes[n].left = l /\ x.nodes[n].right = g
    BY <2>4, BranchFields
  <2> QED
    BY <1>4, <2>2, <2>5, <2>6, <2>7 DEF Fits
<1>7. ASSUME above # None PROVE above \in E \ Keys /\ Nearly(x, above)
  <2>1. ChildOf(t, parent, above) /\ above \in E
    BY <1>2, <1>3, <1>7
  <2>2. above \notin Keys
    BY <1>2, <1>3, <2>1 DEF ChildOf, LeafAt
  <2>3. ForkAt(t, above) /\ Fits(t, above)
    BY <1>3, <2>1, <2>2
  <2>4. PICK other :
            /\ other \in D /\ other # parent /\ t.nodes[other].parent = above
            /\ \/ /\ t.nodes[above].left = parent /\ t.nodes[above].right = other
                  /\ x.nodes[above].left = sibling /\ x.nodes[above].right = other
               \/ /\ t.nodes[above].left = other /\ t.nodes[above].right = parent
                  /\ x.nodes[above].left = other /\ x.nodes[above].right = sibling
    <3>1. CASE t.nodes[above].left = parent
      BY <1>5, <1>7, <2>3, <3>1 DEF ForkAt
    <3>2. CASE t.nodes[above].left # parent
      BY <1>5, <1>7, <2>1, <2>3, <3>2 DEF ForkAt, ChildOf
    <3> QED
      BY <3>1, <3>2
  <2>5. other \in E
    BY <1>2, <2>4
  <2>6. /\ x.nodes[other].height = t.nodes[other].height
        /\ x.nodes[above].height = t.nodes[above].height
        /\ x.nodes[sibling].height = t.nodes[sibling].height
    BY <1>2, <1>4, <2>1, <2>5
  <2>7. t.nodes[parent].height = 1 + t.nodes[sibling].height /\ t.nodes[sibling].height \in Nat
    <3>1. t.nodes[leaf].height = 0
      BY <1>2, <1>3 DEF LeafAt
    <3>2. Fits(t, parent)
      BY <1>2, <1>3
    <3> DEFINE l == t.nodes[t.nodes[parent].left].height
               g == t.nodes[t.nodes[parent].right].height
               h == t.nodes[parent].height
               d == t.nodes[sibling].height
    <3>3. l \in Nat /\ g \in Nat /\ h = 1 + (IF l >= g THEN l ELSE g)
      BY <1>1, <1>2, <3>2, FitsHeights
    <3>4. (l = 0 /\ g = d) \/ (l = d /\ g = 0)
      BY <1>2, <3>1
    <3> HIDE DEF l, g, h, d
    <3>5. h = 1 + d /\ d \in Nat
      BY <3>3, <3>4
    <3> QED
      BY <3>5 DEF h, d
  <2>8. x.nodes[sibling].height \in Nat /\ x.nodes[sibling].height - t.nodes[parent].height \in -1..1
    BY <2>6, <2>7
  <2>9. Nearly(x, above)
    BY <1>1, <2>1, <2>2, <2>3, <2>4, <2>6, <2>8, NearlyAbove
  <2> QED
    BY <2>1, <2>2, <2>9
<1> QED
  BY <1>1, <1>2, <1>6, <1>7 DEF Repairing

(* What DetachLeaf hands to the repair. *)
LEMMA DetachPrunes ==
    ASSUME NEW t, Sound(t), NEW leaf \in DOMAIN t.nodes \cap Keys, leaf # t.root
    PROVE  \E x, parent, sibling, above :
               /\ Pruned(t, x, leaf, parent, sibling, above)
               /\ DetachLeaf(t, leaf) = RefitFrom(x, above)
<1> DEFINE D == DOMAIN t.nodes
           parent == t.nodes[leaf].parent
           sibling == IF t.nodes[parent].left = leaf THEN t.nodes[parent].right
                      ELSE t.nodes[parent].left
           above == t.nodes[parent].parent
           g == [n \in D \ {leaf, parent} |->
                    IF n = sibling THEN [t.nodes[n] EXCEPT !.parent = above]
                    ELSE t.nodes[n]]
           y == [t EXCEPT !.nodes = g]
           x == ReplaceChild(y, above, parent, sibling)
<1>1. DetachLeaf(t, leaf) = RefitFrom(x, above)
  BY DEF DetachLeaf
<1>2. Linked(t)
  BY DEF Sound, Repairing
<1>3. /\ t = [root |-> t.root, nodes |-> t.nodes] /\ t.root \in Names \cup {None}
      /\ D \subseteq Names /\ None \notin Names
      /\ \A m \in D : t.nodes[m] \in NodeRecord
  BY <1>2, LinkedFields, TreeFields
<1>4. /\ parent \in D /\ parent # leaf
      /\ leaf = t.nodes[parent].left \/ leaf = t.nodes[parent].right
  BY <1>2 DEF Linked, ChildOf
<1>5. parent \notin Keys /\ ForkAt(t, parent)
  <2>1. parent \in Keys => t.nodes[parent].left = None /\ t.nodes[parent].right = None
    BY <1>2, <1>4, LinkedFields DEF LeafAt
  <2> HIDE DEF parent
  <2>2. parent \notin Keys
    BY <1>3, <1>4, <2>1
  <2> QED
    BY <1>2, <1>4, <2>2, LinkedFields
<1>6. /\ sibling \in D /\ sibling # leaf /\ t.nodes[sibling].parent = parent
      /\ \/ t.nodes[parent].left = leaf /\ t.nodes[parent].right = sibling
         \/ t.nodes[parent].left = sibling /\ t.nodes[parent].right = leaf
  <2> HIDE DEF parent
  <2> QED
    BY <1>4, <1>5 DEF ForkAt
<1>7. sibling # parent
  BY <1>2, <1>6, LinkedFields
<1>8. /\ above \in D \cup {None} /\ above # parent
      /\ above # None => above \notin Keys /\ t.nodes[parent].height < t.nodes[above].height
  <2>1. above \in D \cup {None} /\ above # parent
    BY <1>2, <1>4, LinkedFields
  <2> HIDE DEF parent
  <2>2. ASSUME above # None
        PROVE  above \notin Keys /\ t.nodes[parent].height < t.nodes[above].height
    BY <1>4, <2>1, <2>2, ChildHeights DEF Sound
  <2> QED
    BY <2>1, <2>2
<1>9. t.nodes[sibling].height < t.nodes[parent].height
  <2>1. t.nodes[sibling].parent # None
    BY <1>3, <1>4, <1>6
  <2> HIDE DEF parent, sibling
  <2>2. parent # None
    BY <1>3, <1>4
  <2> QED
    BY <1>6, <2>1, <2>2, ChildHeights DEF Sound
<1>10. above # leaf /\ above # sibling
  <2>1. /\ t.nodes[sibling].height \in Nat /\ t.nodes[parent].height \in Nat
        /\ above # None => t.nodes[above].height \in Nat
    BY <1>2, <1>4, <1>6, <1>8, LinkedFields
  <2> HIDE DEF parent, sibling, above
  <2>2. leaf # None
    BY <1>3
  <2>3. sibling # None
    BY <1>3, <1>6
  <2> QED
    BY <1>8, <1>9, <2>1, <2>2, <2>3
<1> HIDE DEF parent, sibling, above
<1>11. /\ DOMAIN g = D \ {leaf, parent}
       /\ g[sibling] = Under(t.nodes[sibling], above)
       /\ \A m \in D \ {leaf, parent, sibling} : g[m] = t.nodes[m]
  BY <1>6, <1>7 DEF Under
<1>12. Under(t.nodes[sibling], above) \in NodeRecord
  <2>1. t.nodes[sibling] \in NodeRecord /\ above \in Names \cup {None}
    BY <1>3, <1>6, <1>8
  <2> QED
    BY <2>1, UnderFields
<1>13. g \in [DOMAIN g -> NodeRecord] /\ DOMAIN g \in SUBSET Names
  <2>1. DOMAIN g \subseteq Names
    BY <1>3, <1>11
  <2>2. g = [m \in DOMAIN g |-> g[m]]
    OBVIOUS
  <2> HIDE DEF g
  <2>3. \A m \in DOMAIN g : g[m] \in NodeRecord
    BY <1>3, <1>11, <1>12
  <2> QED
    BY <2>1, <2>2, <2>3
<1> HIDE DEF g
<1>14. y = [root |-> t.root, nodes |-> g]
  BY <1>3
<1>15. y \in Trees /\ y.root = t.root /\ y.nodes = g
  BY <1>3, <1>13, <1>14 DEF Trees
<1> HIDE DEF y
<1>16. /\ x \in Trees
       /\ x.root = IF above = None THEN sibling ELSE y.root
       /\ DOMAIN x.nodes = DOMAIN y.nodes
       /\ \A m \in DOMAIN y.nodes : x.nodes[m] =
              IF m = above THEN Swapped(y.nodes[m], parent, sibling) ELSE y.nodes[m]
  <2>1. above \in DOMAIN y.nodes \cup {None}
    BY <1>8, <1>10, <1>11, <1>15
  <2>2. sibling \in Names
    BY <1>3, <1>6
  <2> QED
    BY <1>15, <2>1, <2>2, ReplaceChildEffect
<1> HIDE DEF x
<1>17. /\ x.nodes[sibling] = Under(t.nodes[sibling], above)
       /\ above # None => x.nodes[above] = Swapped(t.nodes[above], parent, sibling)
       /\ \A m \in D \ {leaf, parent, sibling, above} : x.nodes[m] = t.nodes[m]
  BY <1>6, <1>7, <1>8, <1>10, <1>11, <1>15, <1>16
<1>18. /\ DOMAIN x.nodes = D \ {leaf, parent} /\ x \in Trees
       /\ x.root = IF above = None THEN sibling ELSE t.root
       /\ t.nodes[leaf].parent = parent /\ t.nodes[parent].parent = above
  BY <1>11, <1>15, <1>16 DEF parent, above
<1>19. Pruned(t, x, leaf, parent, sibling, above)
  BY <1>4, <1>5, <1>6, <1>7, <1>8, <1>10, <1>17, <1>18 DEF Pruned
<1> QED
  BY <1>1, <1>19

(* u holds the leaves of t but that of key. *)
HasDropped(t, key, u) ==
    /\ Leaves(u) = Leaves(t) \ {key}
    /\ \A k \in Leaves(u) : u.nodes[k].box = t.nodes[k].box

LEMMA NoTree == Well(EmptyTree) /\ Leaves(EmptyTree) = {} /\ EmptyTree.root = None
<1> DEFINE u == EmptyTree
<1>1. u.root = None /\ DOMAIN u.nodes = {} /\ u = [root |-> None, nodes |-> u.nodes]
  BY DEF EmptyTree
<1>2. u.nodes \in [{} -> NodeRecord]
  BY DEF EmptyTree
<1> HIDE DEF u
<1>3. u \in Trees
  BY <1>1, <1>2 DEF Trees
<1>4. Well(u) /\ Leaves(u) = {}
  BY <1>1, <1>3 DEF Well, Sound, Repairing, Linked, Leaves
<1> QED
  BY <1>1, <1>4 DEF u

LEMMA DetachSound ==
    ASSUME NEW t, Well(t), NEW key \in Leaves(t)
    PROVE  Well(DetachLeaf(t, key)) /\ HasDropped(t, key, DetachLeaf(t, key))
<1>1. Sound(t) /\ Linked(t) /\ t \in Trees /\ key \in DOMAIN t.nodes \cap Keys
  BY DEF Well, Sound, Repairing, Linked, Leaves
<1>2. CASE key = t.root
  <2>1. DetachLeaf(t, key) = EmptyTree
    BY <1>2 DEF DetachLeaf
  <2>2. ASSUME NEW n \in DOMAIN t.nodes, t.nodes[n].parent # None, t.nodes[n].parent \in {key}
        PROVE  n \in {key}
    <3>1. ChildOf(t, n, key) /\ LeafAt(t, key) /\ n # None
      BY <1>1, <2>2, LinkedFields
    <3> QED
      BY <3>1 DEF ChildOf, LeafAt
  <2>3. DOMAIN t.nodes \subseteq {key}
    BY <1>1, <1>2, <2>2, TopDown DEF Sound
  <2>4. Leaves(t) = {key}
    BY <1>1, <2>3 DEF Leaves
  <2> QED
    BY <2>1, <2>4, NoTree DEF HasDropped
<1>3. CASE key # t.root
  <2>1. PICK x, parent, sibling, above :
            /\ Pruned(t, x, key, parent, sibling, above)
            /\ DetachLeaf(t, key) = RefitFrom(x, above)
    BY <1>1, <1>3, DetachPrunes
  <2>2. Repairing(x, above) /\ PruneShape(t, x, key, parent, sibling, above)
    BY <1>1, <2>1, PrunedRepair, PrunedFields
  <2>3. /\ parent \in DOMAIN t.nodes \ Keys /\ sibling \in DOMAIN x.nodes
        /\ DOMAIN x.nodes = DOMAIN t.nodes \ {key, parent}
        /\ above \in Names \cup {None}
    BY <1>1, <2>1, LinkedFields DEF Pruned
  <2>4. x.root # None
    BY <2>2, <2>3 DEF Repairing, Linked
  <2> DEFINE u == RefitFrom(x, above)
  <2>5. Sound(u) /\ SameLeaves(x, u)
    BY <2>2, <2>3, <2>4, RefitFromSound
  <2> HIDE DEF u
  <2>6. Leaves(u) = Leaves(t) \ {key} /\ Forks(u) = Forks(t) \ {parent}
    BY <1>1, <2>3, <2>5 DEF SameLeaves, Leaves, Forks
  <2>7. HasDropped(t, key, u)
    BY <2>2, <2>3, <2>5, <2>6 DEF HasDropped, PruneShape, SameLeaves, Leaves
  <2>8. /\ IsFiniteSet(Leaves(t)) /\ IsFiniteSet(Forks(t))
        /\ Cardinality(Leaves(t)) \in Nat /\ Cardinality(Forks(t)) \in Nat
    BY <1>1, NodesFinite
  <2>9. Cardinality(Leaves(u)) = Cardinality(Leaves(t)) - 1
    BY <2>6, <2>8, FS_RemoveElement
  <2>10. Cardinality(Forks(u)) = Cardinality(Forks(t)) - 1
    <3>1. parent \in Forks(t)
      BY <2>3 DEF Forks
    <3> QED
      BY <2>6, <2>8, <3>1, FS_RemoveElement
  <2>11. Cardinality(Leaves(t)) = 1 + Cardinality(Forks(t))
    <3>1. t.root # None
      BY <1>1 DEF Linked
    <3> QED
      BY <3>1 DEF Well
  <2>12. Well(u)
    BY <2>5, <2>8, <2>9, <2>10, <2>11 DEF Well
  <2> QED
    BY <2>1, <2>7, <2>12 DEF u
<1> QED
  BY <1>2, <1>3

-----------------------------------------------------------------------------
(* Bulk building *)

(* The tree o hangs in t below branch. *)
Hung(o, t, branch) ==
    /\ DOMAIN o.nodes \subseteq DOMAIN t.nodes /\ branch \in DOMAIN t.nodes
    /\ branch \notin DOMAIN o.nodes
    /\ o.root = t.nodes[branch].left \/ o.root = t.nodes[branch].right
    /\ \A n \in DOMAIN o.nodes :
           t.nodes[n] = IF n = o.root THEN Under(o.nodes[n], branch) ELSE o.nodes[n]

LEMMA HungSound ==
    ASSUME NEW o, Sound(o), o.root # None, NEW branch \in Names \ Keys, NEW t, Hung(o, t, branch),
           NEW n \in DOMAIN o.nodes
    PROVE  /\ ChildOf(t, n, t.nodes[n].parent)
           /\ t.nodes[n] \in NodeRecord
           /\ LeafAt(t, n) \/ ForkAt(t, n)
           /\ n \notin Keys => Fits(t, n)
           /\ t.nodes[n].height = o.nodes[n].height
           /\ t.nodes[n].box = o.nodes[n].box /\ t.nodes[n].least = o.nodes[n].least
           /\ n = o.root => t.nodes[n].parent = branch
<1> DEFINE D == DOMAIN o.nodes
<1>1. /\ Linked(o) /\ o.root \in D /\ o.nodes[o.root].parent = None
      /\ \A m \in D \ Keys : Fits(o, m)
  <2>1. \A m \in D : m # None
    BY LinkedFields DEF Sound, Repairing
  <2> QED
    BY <2>1 DEF Sound, Repairing, Linked
<1>2. /\ None \notin D
      /\ \A m \in D : /\ o.nodes[m] \in NodeRecord
                      /\ m \in Keys => LeafAt(o, m)
                      /\ m \notin Keys => ForkAt(o, m)
                      /\ o.nodes[m].parent # None => ChildOf(o, m, o.nodes[m].parent)
                      /\ o.nodes[m].parent = None => m = o.root
  BY <1>1, LinkedFields
<1>3. ASSUME NEW m \in D
      PROVE  /\ t.nodes[m] \in NodeRecord
             /\ t.nodes[m].parent = IF m = o.root THEN branch ELSE o.nodes[m].parent
             /\ t.nodes[m].left = o.nodes[m].left /\ t.nodes[m].right = o.nodes[m].right
             /\ t.nodes[m].height = o.nodes[m].height
             /\ t.nodes[m].box = o.nodes[m].box /\ t.nodes[m].least = o.nodes[m].least
  <2>1. CASE m = o.root
    <3> DEFINE d == o.nodes[m]
    <3>1. d \in NodeRecord /\ t.nodes[m] = Under(d, branch) /\ branch \in Names \cup {None}
      BY <1>2, <2>1 DEF Hung
    <3> HIDE DEF d
    <3>2. LET y == Under(d, branch)
          IN  /\ y \in NodeRecord /\ y.parent = branch
              /\ y.left = d.left /\ y.right = d.right
              /\ y.height = d.height /\ y.box = d.box /\ y.least = d.least
      BY <3>1, UnderFields
    <3> QED
      BY <2>1, <3>1, <3>2 DEF d
  <2>2. CASE m # o.root
    BY <1>2, <2>2 DEF Hung
  <2> QED
    BY <2>1, <2>2
<1>4. D \subseteq DOMAIN t.nodes /\ branch \in DOMAIN t.nodes /\ branch \notin D
  BY DEF Hung
<1>5. ChildOf(t, n, t.nodes[n].parent)
  <2>1. CASE n = o.root
    <3>1. o.root = t.nodes[branch].left \/ o.root = t.nodes[branch].right
      BY DEF Hung
    <3> QED
      BY <1>3, <1>4, <2>1, <3>1 DEF ChildOf
  <2>2. CASE n # o.root
    <3> DEFINE p == o.nodes[n].parent
    <3>1. p \in D /\ p # n /\ (n = o.nodes[p].left \/ n = o.nodes[p].right)
      BY <1>2, <2>2 DEF ChildOf
    <3>2. t.nodes[n].parent = p
      BY <1>3, <2>2
    <3> HIDE DEF p
    <3> QED
      BY <1>3, <1>4, <3>1, <3>2 DEF ChildOf
  <2> QED
    BY <2>1, <2>2
<1>6. CASE n \in Keys
  <2>1. LeafAt(t, n)
    BY <1>2, <1>3, <1>6 DEF LeafAt
  <2> QED
    BY <1>3, <1>5, <1>6, <2>1
<1>7. CASE n \notin Keys
  <2> DEFINE l == o.nodes[n].left
             g == o.nodes[n].right
             p == o.nodes[n].parent
  <2>1. /\ l # g /\ l \in D /\ o.nodes[l].parent = n /\ g \in D /\ o.nodes[g].parent = n
    BY <1>2, <1>7 DEF ForkAt
  <2>2. /\ o.nodes[l].height - o.nodes[g].height \in -1..1
        /\ o.nodes[n] = Branch(p, l, g, o.nodes[l], o.nodes[g])
    BY <1>1, <1>7 DEF Fits
  <2>3. t.nodes[n].left = l /\ t.nodes[n].right = g
    BY <1>3
  <2>4. l # o.root /\ g # o.root
    BY <1>1, <1>2, <2>1
  <2>5. \E q : t.nodes[n] = Branch(q, l, g, o.nodes[l], o.nodes[g])
    <3>1. CASE n = o.root
      <4>1. t.nodes[n] = Under(o.nodes[n], branch)
        BY <3>1 DEF Hung
      <4> HIDE DEF l, g, p
      <4>2. t.nodes[n] = Branch(branch, l, g, o.nodes[l], o.nodes[g])
        BY <2>2, <4>1, UnderBranch
      <4> QED
        BY <4>2
    <3>2. CASE n # o.root
      BY <2>2, <3>2 DEF Hung
    <3> QED
      BY <3>1, <3>2
  <2> HIDE DEF l, g, p
  <2>6. PICK q : t.nodes[n] = Branch(q, l, g, o.nodes[l], o.nodes[g])
    BY <2>5
  <2>7. t.nodes[n] = Branch(q, l, g, t.nodes[l], t.nodes[g])
    BY <1>3, <2>1, <2>6, BranchOfSame
  <2>8. t.nodes[n].parent = q
    BY <2>6, BranchFields
  <2>9. Fits(t, n)
    BY <1>3, <2>1, <2>2, <2>3, <2>7, <2>8 DEF Fits
  <2>10. ForkAt(t, n)
    BY <1>3, <1>4, <1>7, <2>1, <2>3, <2>4 DEF ForkAt
  <2> QED
    BY <1>3, <1>5, <1>7, <2>9, <2>10
<1> QED
  BY <1>6, <1>7

(* What joining two trees of about the same height gives. *)
JoinedShape(t, l, r, branch) ==
    /\ Sound(t) /\ t.root = branch /\ branch # None
    /\ Leaves(t) = Leaves(l) \cup Leaves(r)
    /\ Forks(t) = Forks(l) \cup Forks(r) \cup {branch}
    /\ LET a == l.nodes[l.root].height
           b == r.nodes[r.root].height
       IN  t.nodes[t.root].height = 1 + (IF a >= b THEN a ELSE b)
    /\ \A k \in Leaves(l) : t.nodes[k].box = l.nodes[k].box
    /\ \A k \in Leaves(r) : t.nodes[k].box = r.nodes[k].box

RootOver(b, left, right, x, y) ==
    /\ b \in NodeRecord
    /\ b.parent = None /\ b.left = left /\ b.right = right
    /\ b.height = 1 + (IF x.height >= y.height THEN x.height ELSE y.height)

LEMMA RootBranch ==
    ASSUME NEW left \in Names, NEW right \in Names,
           NEW x \in NodeRecord, NEW y \in NodeRecord
    PROVE  RootOver(Branch(None, left, right, x, y), left, right, x, y)
<1>1. None \in Names \cup {None}
  OBVIOUS
<1>2. x.height \in Nat /\ y.height \in Nat
  BY DEF NodeRecord
<1>3. Branch(None, left, right, x, y).height
          = 1 + (IF x.height >= y.height THEN x.height ELSE y.height)
  BY <1>2, BranchHeight
<1>4. Branch(None, left, right, x, y) \in NodeRecord
  BY <1>1, BranchType
<1>5. /\ Branch(None, left, right, x, y).parent = None
      /\ Branch(None, left, right, x, y).left = left
      /\ Branch(None, left, right, x, y).right = right
  BY BranchFields
<1> QED
  BY <1>3, <1>4, <1>5 DEF RootOver

LEMMA JoinedSound ==
    ASSUME NEW l, Sound(l), l.root # None, NEW r, Sound(r), r.root # None,
           DOMAIN l.nodes \cap DOMAIN r.nodes = {},
           NEW branch \in Names \ Keys,
           branch \notin DOMAIN l.nodes, branch \notin DOMAIN r.nodes,
           l.nodes[l.root].height - r.nodes[r.root].height \in -1..1
    PROVE  JoinedShape(Joined(l, r, branch), l, r, branch)
<1> DEFINE L == DOMAIN l.nodes
           R == DOMAIN r.nodes
           D == {branch} \cup L \cup R
           b == Branch(None, l.root, r.root, l.nodes[l.root], r.nodes[r.root])
           w(n) == IF n \in L THEN l.nodes[n] ELSE r.nodes[n]
           g == [n \in D |->
                    IF n = branch THEN b
                    ELSE IF n \in {l.root, r.root} THEN [w(n) EXCEPT !.parent = branch]
                    ELSE w(n)]
           t == Joined(l, r, branch)
<1>1. /\ Linked(l) /\ Linked(r) /\ l.root \in L /\ r.root \in R
      /\ L \subseteq Names /\ R \subseteq Names /\ None \notin Names
      /\ l.nodes[l.root] \in NodeRecord /\ r.nodes[r.root] \in NodeRecord
  <2>1. Linked(l) /\ Linked(r)
    BY DEF Sound, Repairing
  <2>2. l.root \in L /\ r.root \in R
    BY <2>1 DEF Linked
  <2> QED
    BY <2>1, <2>2, LinkedFields
<1>2. t = [root |-> branch, nodes |-> g]
  BY DEF Joined
<1>3. t.root = branch /\ t.nodes = g
  BY <1>2
<1> HIDE DEF t
<1>4. /\ b \in NodeRecord /\ b.parent = None /\ b.left = l.root /\ b.right = r.root
      /\ b.height = 1 + (IF l.nodes[l.root].height >= r.nodes[r.root].height
                         THEN l.nodes[l.root].height ELSE r.nodes[r.root].height)
  <2> DEFINE x == l.nodes[l.root]
             y == r.nodes[r.root]
             i == l.root
             j == r.root
  <2>1. i \in Names /\ j \in Names /\ None \in Names \cup {None}
    BY <1>1
  <2>2. x \in NodeRecord /\ y \in NodeRecord /\ b = Branch(None, i, j, x, y)
    BY <1>1
  <2> HIDE DEF x, y, i, j, b
  <2>3. RootOver(b, i, j, x, y)
    BY <2>1, <2>2, RootBranch
  <2> QED
    BY <2>3 DEF x, y, i, j, RootOver
<1> HIDE DEF b
<1>5. /\ DOMAIN g = D /\ g[branch] = b
      /\ \A n \in L : g[n] = IF n = l.root THEN Under(l.nodes[n], branch) ELSE l.nodes[n]
      /\ \A n \in R : g[n] = IF n = r.root THEN Under(r.nodes[n], branch) ELSE r.nodes[n]
  BY <1>1 DEF Under
<1> HIDE DEF g
<1>6. Hung(l, t, branch) /\ Hung(r, t, branch)
  BY <1>3, <1>4, <1>5 DEF Hung
<1>7. ASSUME NEW n \in D, n # branch
      PROVE  /\ ChildOf(t, n, t.nodes[n].parent)
             /\ t.nodes[n] \in NodeRecord
             /\ LeafAt(t, n) \/ ForkAt(t, n)
             /\ n \notin Keys => Fits(t, n)
  <2>1. CASE n \in L
    BY <1>6, <2>1, HungSound
  <2>2. CASE n \in R
    BY <1>6, <2>2, HungSound
  <2> QED
    BY <1>7, <2>1, <2>2
<1>8. /\ \A n \in L : /\ t.nodes[n].height = l.nodes[n].height
                      /\ t.nodes[n].box = l.nodes[n].box /\ t.nodes[n].least = l.nodes[n].least
      /\ \A n \in R : /\ t.nodes[n].height = r.nodes[n].height
                      /\ t.nodes[n].box = r.nodes[n].box /\ t.nodes[n].least = r.nodes[n].least
      /\ t.nodes[l.root].parent = branch /\ t.nodes[r.root].parent = branch
  BY <1>1, <1>6, HungSound
<1>9. b = Branch(None, l.root, r.root, t.nodes[l.root], t.nodes[r.root])
  BY <1>1, <1>8, BranchOfSame DEF b
<1>10. ForkAt(t, branch) /\ Fits(t, branch)
  BY <1>1, <1>3, <1>4, <1>5, <1>8, <1>9, ZenonT(60) DEF ForkAt, Fits
<1>11. t \in Trees
  <2>1. D \in SUBSET Names /\ branch \in Names
    BY <1>1
  <2>2. \A n \in D : g[n] \in NodeRecord
    BY <1>3, <1>4, <1>5, <1>7
  <2>3. g = [n \in D |-> g[n]]
    <3>1. g = [n \in DOMAIN g |-> g[n]]
      BY DEF g
    <3> QED
      BY <1>5, <3>1
  <2> HIDE DEF D
  <2>4. g \in [D -> NodeRecord]
    BY <2>2, <2>3
  <2> QED
    BY <1>2, <2>1, <2>4 DEF Trees
<1>12. Linked(t)
  <2>1. branch # None
    BY <1>1
  <2>2. t.root = branch /\ t.nodes[branch].parent = None /\ DOMAIN t.nodes = D
    BY <1>3, <1>4, <1>5
  <2> QED
    BY <1>7, <1>10, <1>11, <2>1, <2>2 DEF Linked
<1>13. Sound(t)
  BY <1>3, <1>5, <1>7, <1>10, <1>12 DEF Sound, Repairing
<1>14. Leaves(t) = Leaves(l) \cup Leaves(r) /\ Forks(t) = Forks(l) \cup Forks(r) \cup {branch}
  BY <1>3, <1>5 DEF Leaves, Forks
<1>15. /\ \A k \in Leaves(l) : t.nodes[k].box = l.nodes[k].box
       /\ \A k \in Leaves(r) : t.nodes[k].box = r.nodes[k].box
  BY <1>8 DEF Leaves
<1>16. branch # None
  BY <1>1
<1> QED
  BY <1>3, <1>4, <1>5, <1>13, <1>14, <1>15, <1>16 DEF JoinedShape, t

(* The parts that a bulk build splits, and how. *)
Parts(size) == {p \in (1..size) \X (1..size) : p[1] <= p[2]}
Length(p) == p[2] - p[1] + 1
Middle(p) == p[1] + (p[2] - p[1] + 1) \div 2 - 1
Lower(p) == <<p[1], Middle(p)>>
Upper(p) == <<Middle(p) + 1, p[2]>>

LEMMA Halves ==
    ASSUME NEW n \in Nat, n >= 2
    PROVE  /\ n \div 2 \in Nat /\ n \div 2 >= 1 /\ n \div 2 < n
           /\ n - n \div 2 < n /\ n \div 2 <= n - n \div 2 /\ n - n \div 2 <= n \div 2 + 1
OBVIOUS

LEMMA HalvesGrow ==
    ASSUME NEW n \in Nat, NEW k \in Nat, n <= k, k <= n + 1
    PROVE  /\ n - n \div 2 <= k - k \div 2 /\ k - k \div 2 <= n - n \div 2 + 1
           /\ n - n \div 2 \in Nat /\ k - k \div 2 \in Nat
OBVIOUS

LEMMA PartFields ==
    ASSUME NEW size \in Nat, NEW p \in Parts(size)
    PROVE  /\ p[1] \in 1..size /\ p[2] \in 1..size /\ p[1] <= p[2]
           /\ Length(p) \in 1..size /\ p = <<p[1], p[2]>>
           /\ Length(p) = 1 <=> p[1] = p[2]
<1>1. p[1] \in 1..size /\ p[2] \in 1..size /\ p[1] <= p[2] /\ p = <<p[1], p[2]>>
  BY DEF Parts
<1> QED
  BY <1>1 DEF Length

LEMMA PartSplit ==
    ASSUME NEW size \in Nat, NEW p \in Parts(size), p[1] # p[2]
    PROVE  /\ Lower(p) \in Parts(size) /\ Upper(p) \in Parts(size)
           /\ Middle(p) \in p[1]..(p[2] - 1)
           /\ Length(Lower(p)) = Length(p) \div 2
           /\ Length(Upper(p)) = Length(p) - Length(p) \div 2
           /\ Length(Lower(p)) < Length(p) /\ Length(Upper(p)) < Length(p)
           /\ Length(Lower(p)) <= Length(Upper(p))
           /\ Length(Upper(p)) <= Length(Lower(p)) + 1
<1> DEFINE a == p[1]
           b == p[2]
           n == b - a + 1
           h == n \div 2
           m == a + h - 1
<1>1. a \in 1..size /\ b \in 1..size /\ a < b /\ n \in Nat /\ n >= 2
  BY PartFields
<1>2. Length(p) = n /\ Middle(p) = m
  BY DEF Length, Middle
<1>3. Lower(p) = <<a, m>> /\ Upper(p) = <<m + 1, b>>
  BY <1>2 DEF Lower, Upper
<1> HIDE DEF a, b
<1>4. /\ h \in Nat /\ h >= 1 /\ h < n
      /\ n - h < n /\ h <= n - h /\ n - h <= h + 1
  <2>1. \A i \in Nat : i >= 2 =>
            /\ i \div 2 \in Nat /\ i \div 2 >= 1 /\ i \div 2 < i
            /\ i - i \div 2 < i /\ i \div 2 <= i - i \div 2 /\ i - i \div 2 <= i \div 2 + 1
    BY Halves
  <2> HIDE DEF n
  <2> QED
    BY <1>1, <2>1
<1> HIDE DEF h
<1>5. m \in a..(b - 1) /\ m \in 1..size /\ m + 1 \in 1..size /\ m - a + 1 = h
      /\ b - (m + 1) + 1 = n - h
  BY <1>1, <1>4
<1> HIDE DEF m, n
<1>6. Lower(p) \in Parts(size) /\ Upper(p) \in Parts(size)
  <2>1. <<a, m>> \in Parts(size)
    BY <1>1, <1>5 DEF Parts
  <2>2. <<m + 1, b>> \in Parts(size)
    BY <1>1, <1>5 DEF Parts
  <2> QED
    BY <1>3, <2>1, <2>2
<1>7. Length(Lower(p)) = h /\ Length(Upper(p)) = n - h
  BY <1>3, <1>5 DEF Length
<1> QED
  BY <1>2, <1>4, <1>5, <1>6, <1>7 DEF a, b, h

(* One part, from the trees f has for the parts it is split into. *)
BuildStep(bounds, order, f, p) ==
    IF p[1] = p[2]
    THEN [root |-> order[p[1]],
          nodes |-> [n \in {order[p[1]]} |-> Leaf(order[p[1]], Fatten(bounds[order[p[1]]]))]]
    ELSE Joined(f[Lower(p)], f[Upper(p)], NumKeys + Middle(p))

LEMMA BuildStepSame ==
    ASSUME NEW size \in Nat, NEW p \in Parts(size), NEW f, NEW g, NEW bounds, NEW order,
           \A q \in Parts(size) : Length(q) < Length(p) => f[q] = g[q]
    PROVE  BuildStep(bounds, order, f, p) = BuildStep(bounds, order, g, p)
<1>1. p[1] # p[2] => f[Lower(p)] = g[Lower(p)] /\ f[Upper(p)] = g[Upper(p)]
  BY PartSplit
<1> QED
  BY <1>1 DEF BuildStep

LEMMA BuildRecursion ==
    ASSUME NEW bounds, NEW order, NEW size \in Nat, size # 0,
           size = Cardinality(DOMAIN bounds)
    PROVE  \E f : /\ BuildBalanced(bounds, order) = f[<<1, size>>]
                  /\ \A p \in Parts(size) : f[p] = BuildStep(bounds, order, f, p)
<1> DEFINE P == Parts(size)
           Upto(f, m) == \A p \in P : Length(p) <= m => f[p] = BuildStep(bounds, order, f, p)
           T == {m \in 0..size : \E f : Upto(f, m)}
           Def(f) == [p \in P |-> BuildStep(bounds, order, f, p)]
           R == CHOOSE f : f = Def(f)
<1>1. \A p \in P : Length(p) \in 1..size
  BY PartFields
<1>2. 0 \in T
  <2>1. \A f : Upto(f, 0)
    BY <1>1
  <2> HIDE DEF Upto
  <2> QED
    BY <2>1
<1>3. ASSUME NEW m \in 0..size, m \in T, m < size PROVE m + 1 \in T
  <2>1. PICK f : Upto(f, m)
    BY <1>3
  <2> DEFINE h == [p \in P |-> IF Length(p) <= m THEN f[p] ELSE BuildStep(bounds, order, f, p)]
  <2>2. \A q \in P : Length(q) <= m => f[q] = h[q]
    OBVIOUS
  <2>3. ASSUME NEW p \in P, Length(p) <= m + 1 PROVE h[p] = BuildStep(bounds, order, f, p)
    BY <2>1
  <2> HIDE DEF h
  <2>4. ASSUME NEW p \in P, Length(p) <= m + 1
        PROVE  BuildStep(bounds, order, f, p) = BuildStep(bounds, order, h, p)
    <3>1. \A q \in P : Length(q) < Length(p) => Length(q) <= m
      BY <1>1, <2>4
    <3>2. \A q \in P : Length(q) < Length(p) => f[q] = h[q]
      BY <2>2, <3>1
    <3> QED
      BY <3>2, BuildStepSame
  <2>5. Upto(h, m + 1)
    BY <2>3, <2>4
  <2> HIDE DEF Upto
  <2> QED
    BY <1>3, <2>5
<1>4. size \in T
  <2> HIDE DEF T
  <2>1. \A n \in 0..size : n \in T
    BY <1>2, <1>3, SegmentInduction
  <2> QED
    BY <2>1
<1>5. PICK f : Upto(f, size)
  BY <1>4
<1>6. \A p \in P : f[p] = BuildStep(bounds, order, f, p)
  BY <1>1, <1>5
<1> DEFINE F == [p \in P |-> f[p]]
<1>7. F = Def(F)
  <2>1. ASSUME NEW p \in P PROVE f[p] = BuildStep(bounds, order, F, p)
    <3>1. \A q \in P : Length(q) < Length(p) => f[q] = F[q]
      OBVIOUS
    <3> HIDE DEF F
    <3>2. BuildStep(bounds, order, f, p) = BuildStep(bounds, order, F, p)
      BY <3>1, BuildStepSame
    <3> QED
      BY <1>6, <3>2
  <2> DEFINE d(p) == BuildStep(bounds, order, F, p)
  <2>2. \A p \in P : f[p] = d(p)
    BY <2>1
  <2> HIDE DEF d
  <2>3. F = [p \in P |-> d(p)]
    BY <2>2
  <2> QED
    BY <2>3 DEF d
<1>8. R = Def(R)
  <2> HIDE DEF Def, F
  <2> QED
    BY <1>7
<1>9. BuildBalanced(bounds, order) = R[<<1, size>>]
  BY DEF BuildBalanced, BuildStep, Parts, Lower, Upper, Middle
<1>10. \A p \in P : R[p] = BuildStep(bounds, order, R, p)
  <2> HIDE DEF R
  <2> QED
    BY <1>8
<1> HIDE DEF R
<1> QED
  BY <1>9, <1>10

LEMMA Padded ==
    ASSUME NEW b \in Boxes
    PROVE  /\ b \in Box /\ PaddingFor(b) \in Nat /\ Fatten(b) \in Box /\ Limit(b) \in Box
           /\ Contains(Fatten(b), b) /\ Contains(Limit(b), Fatten(b))
<1> DEFINE pad == PaddingFor(b)
<1>1. /\ b \in [lo : Int, hi : Int] /\ b.lo <= b.hi
      /\ FatMargin \in Nat /\ RelativeMargin \in Nat
  BY SpatialAssumption
<1>2. b.lo \in Int /\ b.hi \in Int /\ b.hi - b.lo \in Nat
  BY <1>1
<1>3. pad \in Nat
  <2> DEFINE d == b.hi - b.lo
  <2>1. d \in Nat
    BY <1>2
  <2>2. pad = FatMargin + RelativeMargin * d
    BY DEF PaddingFor
  <2> HIDE DEF d, pad
  <2> QED
    BY <1>1, <2>1, <2>2
<1> HIDE DEF pad
<1>4. Fatten(b) = [lo |-> b.lo - pad, hi |-> b.hi + pad]
  BY DEF Fatten, Expanded, pad
<1>5. Limit(b) = [lo |-> b.lo - pad - 4 * pad, hi |-> b.hi + pad + 4 * pad]
  BY <1>4 DEF Limit, Expanded, pad
<1>6. /\ Fatten(b) \in Box /\ Limit(b) \in Box
      /\ Contains(Fatten(b), b) /\ Contains(Limit(b), Fatten(b))
  BY <1>2, <1>3, <1>4, <1>5 DEF Box, Contains
<1> QED
  BY <1>1, <1>3, <1>6 DEF Box, pad

(* The bounds and the order of a bulk build. *)
Bounds(bounds) ==
    DOMAIN bounds \subseteq Keys /\ \A k \in DOMAIN bounds : bounds[k] \in Boxes

Ordering(bounds, order, size) ==
    /\ order \in [1..size -> DOMAIN bounds]
    /\ \A i, j \in 1..size : order[i] = order[j] => i = j
    /\ \A k \in DOMAIN bounds : \E i \in 1..size : order[i] = k

(* The tree of one part. *)
PartTree(t, bounds, order, p) ==
    /\ Sound(t) /\ t.root # None
    /\ Leaves(t) = {order[i] : i \in p[1]..p[2]}
    /\ Forks(t) = (NumKeys + p[1])..(NumKeys + p[2] - 1)
    /\ \A k \in Leaves(t) : t.nodes[k].box = Fatten(bounds[k])

Level(t) == t.nodes[t.root].height

LEMMA PartLeaf ==
    ASSUME NEW bounds, Bounds(bounds), NEW size \in Nat, NEW order, Ordering(bounds, order, size),
           NEW f, NEW p \in Parts(size), p[1] = p[2]
    PROVE  /\ PartTree(BuildStep(bounds, order, f, p), bounds, order, p)
           /\ Level(BuildStep(bounds, order, f, p)) = 0
<1> DEFINE a == p[1]
           key == order[a]
           box == Fatten(bounds[key])
           t == [root |-> key, nodes |-> [n \in {key} |-> Leaf(key, box)]]
<1>1. a \in 1..size /\ p[2] = a
  BY PartFields
<1>2. key \in DOMAIN bounds /\ key \in Keys /\ bounds[key] \in Boxes
  BY <1>1 DEF Ordering, Bounds
<1>3. BuildStep(bounds, order, f, p) = t
  BY DEF BuildStep
<1>4. box \in Box
  BY <1>2, Padded
<1> HIDE DEF key, box
<1>5. Well(t) /\ HasAdded(EmptyTree, key, box, t)
  BY <1>2, <1>4, NoTree, FirstLeaf
<1>6. t.root = key /\ DOMAIN t.nodes = {key} /\ t.nodes[key].height = 0
  <2>1. t.nodes[key] = Leaf(key, box)
    OBVIOUS
  <2> QED
    BY <2>1 DEF Leaf
<1> HIDE DEF t
<1>7. Leaves(t) = {key} /\ Forks(t) = {}
  BY <1>2, <1>6 DEF Leaves, Forks
<1>8. {order[i] : i \in p[1]..p[2]} = {key}
  BY <1>1 DEF key
<1>9. (NumKeys + p[1])..(NumKeys + p[2] - 1) = {}
  BY <1>1, NamesNat
<1>10. key # None
  BY <1>2, NamesNat DEF Keys, None
<1>11. t.nodes[key].box = Fatten(bounds[key])
  BY <1>5 DEF HasAdded, box
<1> HIDE DEF a
<1>12. PartTree(t, bounds, order, p)
  BY <1>5, <1>6, <1>7, <1>8, <1>9, <1>10, <1>11 DEF PartTree, Well
<1>13. Level(t) = 0
  BY <1>6 DEF Level
<1> QED
  BY <1>3, <1>12, <1>13

LEMMA PartJoin ==
    ASSUME NEW bounds, Bounds(bounds), NEW size \in Nat, size <= NumKeys,
           NEW order, Ordering(bounds, order, size),
           NEW f, NEW p \in Parts(size), p[1] # p[2],
           PartTree(f[Lower(p)], bounds, order, Lower(p)),
           PartTree(f[Upper(p)], bounds, order, Upper(p)),
           Level(f[Lower(p)]) - Level(f[Upper(p)]) \in -1..1
    PROVE  LET t == BuildStep(bounds, order, f, p)
               a == Level(f[Lower(p)])
               b == Level(f[Upper(p)])
           IN  /\ PartTree(t, bounds, order, p)
               /\ Level(t) = 1 + (IF a >= b THEN a ELSE b)
<1> DEFINE i == p[1]
           j == p[2]
           m == Middle(p)
           l == f[Lower(p)]
           r == f[Upper(p)]
           branch == NumKeys + m
           t == Joined(l, r, branch)
<1>1. i \in 1..size /\ j \in 1..size /\ m \in i..(j - 1)
  BY PartFields, PartSplit
<1>2. /\ Lower(p)[1] = i /\ Lower(p)[2] = m
      /\ Upper(p)[1] = m + 1 /\ Upper(p)[2] = j
  BY DEF Lower, Upper
<1>3. BuildStep(bounds, order, f, p) = t
  BY DEF BuildStep
<1>4. /\ Sound(l) /\ l.root # None /\ Sound(r) /\ r.root # None
      /\ Leaves(l) = {order[n] : n \in i..m} /\ Leaves(r) = {order[n] : n \in (m + 1)..j}
      /\ Forks(l) = (NumKeys + i)..(NumKeys + m - 1)
      /\ Forks(r) = (NumKeys + (m + 1))..(NumKeys + j - 1)
      /\ \A k \in Leaves(l) : l.nodes[k].box = Fatten(bounds[k])
      /\ \A k \in Leaves(r) : r.nodes[k].box = Fatten(bounds[k])
  BY <1>2 DEF PartTree
<1>5. Level(l) - Level(r) \in -1..1
  OBVIOUS
<1> HIDE DEF i, j, m, l, r, t
<1>6. /\ branch \in Names \ Keys /\ branch \notin Forks(l) /\ branch \notin Forks(r)
  BY <1>1, <1>4, NamesNat DEF Names, Keys
<1>7. branch \notin DOMAIN l.nodes /\ branch \notin DOMAIN r.nodes
  BY <1>6 DEF Forks
<1>8. Leaves(l) \cap Leaves(r) = {}
  <2>1. \A n, o \in 1..size : order[n] = order[o] => n = o
    BY DEF Ordering
  <2>2. \A n \in i..m, o \in (m + 1)..j : n \in 1..size /\ o \in 1..size /\ n # o
    BY <1>1
  <2> QED
    BY <1>4, <2>1, <2>2
<1>9. Forks(l) \cap Forks(r) = {}
  BY <1>1, <1>4, NamesNat
<1>10. DOMAIN l.nodes \cap DOMAIN r.nodes = {}
  BY <1>8, <1>9 DEF Leaves, Forks
<1> HIDE DEF branch
<1>11. JoinedShape(t, l, r, branch)
  BY <1>4, <1>5, <1>6, <1>7, <1>10, JoinedSound DEF Level, t
<1>12. /\ Sound(t) /\ t.root = branch /\ branch # None
       /\ Leaves(t) = Leaves(l) \cup Leaves(r)
       /\ Forks(t) = Forks(l) \cup Forks(r) \cup {branch}
       /\ Level(t) = 1 + (IF Level(l) >= Level(r) THEN Level(l) ELSE Level(r))
       /\ \A k \in Leaves(l) : t.nodes[k].box = l.nodes[k].box
       /\ \A k \in Leaves(r) : t.nodes[k].box = r.nodes[k].box
  BY <1>11 DEF JoinedShape, Level
<1>13. Leaves(t) = {order[n] : n \in i..j}
  <2>1. \A n \in Int : n \in i..j <=> n \in i..m \/ n \in (m + 1)..j
    BY <1>1
  <2> QED
    BY <1>4, <1>12, <2>1
<1>14. Forks(t) = (NumKeys + i)..(NumKeys + j - 1)
  <2>1. ASSUME NEW n \in Int
        PROVE  n \in (NumKeys + i)..(NumKeys + j - 1)
                   <=> \/ n \in (NumKeys + i)..(NumKeys + m - 1)
                       \/ n \in (NumKeys + (m + 1))..(NumKeys + j - 1)
                       \/ n = branch
    BY <1>1, NamesNat DEF branch
  <2>2. branch \in Int
    BY <1>1, NamesNat DEF branch
  <2> QED
    BY <1>4, <1>12, <2>1, <2>2
<1>15. \A k \in Leaves(t) : t.nodes[k].box = Fatten(bounds[k])
  BY <1>4, <1>12
<1>16. PartTree(t, bounds, order, p)
  BY <1>12, <1>13, <1>14, <1>15 DEF PartTree, i, j
<1> QED
  BY <1>3, <1>12, <1>16 DEF l, r

(* Every part of at most m keys is right, and a part with as many keys as  *)
(* another or one more is as high or one level higher.                     *)
PartsRight(bounds, order, f, size, m) ==
    \A p \in Parts(size) : Length(p) <= m => PartTree(f[p], bounds, order, p)

PartsEven(f, size, m) ==
    \A p, q \in Parts(size) :
        Length(p) <= Length(q) /\ Length(q) <= Length(p) + 1 /\ Length(q) <= m =>
            Level(f[p]) <= Level(f[q]) /\ Level(f[q]) <= Level(f[p]) + 1

LEMMA LevelNat ==
    ASSUME NEW t, NEW bounds, NEW order, NEW p, PartTree(t, bounds, order, p)
    PROVE  Level(t) \in Nat
<1>1. Linked(t) /\ t.root # None
  BY DEF PartTree, Sound, Repairing
<1>2. t.root \in DOMAIN t.nodes
  BY <1>1 DEF Linked
<1> QED
  BY <1>1, <1>2, LinkedFields DEF Level

LEMMA PartGrows ==
    ASSUME NEW bounds, Bounds(bounds), NEW size \in Nat, size <= NumKeys,
           NEW order, Ordering(bounds, order, size),
           NEW f, \A p \in Parts(size) : f[p] = BuildStep(bounds, order, f, p),
           NEW m \in Nat, PartsRight(bounds, order, f, size, m), PartsEven(f, size, m),
           NEW p \in Parts(size), Length(p) <= m + 1, p[1] # p[2]
    PROVE  /\ PartTree(f[p], bounds, order, p)
           /\ Level(f[p]) = 1 + Level(f[Upper(p)])
           /\ Length(Upper(p)) <= m /\ Upper(p) \in Parts(size)
           /\ Level(f[Upper(p)]) \in Nat
<1> DEFINE l == f[Lower(p)]
           r == f[Upper(p)]
<1>1. /\ Lower(p) \in Parts(size) /\ Upper(p) \in Parts(size)
      /\ Length(p) \in Nat /\ Length(Lower(p)) \in Nat /\ Length(Upper(p)) \in Nat
      /\ Length(Lower(p)) < Length(p) /\ Length(Upper(p)) < Length(p)
      /\ Length(Lower(p)) <= Length(Upper(p))
      /\ Length(Upper(p)) <= Length(Lower(p)) + 1
  <2>1. Lower(p) \in Parts(size) /\ Upper(p) \in Parts(size)
    BY PartSplit
  <2>2. Length(p) \in Nat /\ Length(Lower(p)) \in Nat /\ Length(Upper(p)) \in Nat
    BY <2>1, PartFields
  <2> QED
    BY <2>1, <2>2, PartSplit
<1>2. Length(Lower(p)) <= m /\ Length(Upper(p)) <= m
  BY <1>1
<1>3. /\ PartTree(l, bounds, order, Lower(p)) /\ PartTree(r, bounds, order, Upper(p))
  BY <1>1, <1>2 DEF PartsRight
<1>4. Level(l) <= Level(r) /\ Level(r) <= Level(l) + 1
  BY <1>1, <1>2 DEF PartsEven
<1>5. Level(l) \in Nat /\ Level(r) \in Nat
  BY <1>3, LevelNat
<1>6. Level(l) - Level(r) \in -1..1
  BY <1>4, <1>5
<1>7. LET t == BuildStep(bounds, order, f, p)
      IN  /\ PartTree(t, bounds, order, p)
          /\ Level(t) = 1 + (IF Level(l) >= Level(r) THEN Level(l) ELSE Level(r))
  BY <1>3, <1>6, PartJoin
<1>8. f[p] = BuildStep(bounds, order, f, p)
  OBVIOUS
<1> HIDE DEF l, r
<1>9. Level(f[p]) = 1 + Level(r)
  BY <1>4, <1>5, <1>7, <1>8
<1> QED
  BY <1>1, <1>2, <1>5, <1>7, <1>8, <1>9 DEF r

LEMMA BuildParts ==
    ASSUME NEW bounds, Bounds(bounds), NEW size \in Nat, size <= NumKeys,
           NEW order, Ordering(bounds, order, size),
           NEW f, \A p \in Parts(size) : f[p] = BuildStep(bounds, order, f, p)
    PROVE  PartsRight(bounds, order, f, size, size)
<1> DEFINE T == {m \in 0..size : PartsRight(bounds, order, f, size, m)
                                 /\ PartsEven(f, size, m)}
<1>1. \A p \in Parts(size) : Length(p) \in 1..size
  BY PartFields
<1>2. 0 \in T
  BY <1>1 DEF PartsRight, PartsEven
<1>3. ASSUME NEW m \in 0..size, m \in T, m < size PROVE m + 1 \in T
  <2>1. PartsRight(bounds, order, f, size, m) /\ PartsEven(f, size, m) /\ m \in Nat
    BY <1>3
  <2>2. ASSUME NEW p \in Parts(size), p[1] = p[2]
        PROVE  PartTree(f[p], bounds, order, p) /\ Level(f[p]) = 0 /\ Length(p) = 1
    BY <2>2, PartLeaf, PartFields
  <2>3. ASSUME NEW p \in Parts(size), p[1] # p[2], Length(p) <= m + 1
        PROVE  /\ PartTree(f[p], bounds, order, p)
               /\ Level(f[p]) = 1 + Level(f[Upper(p)])
               /\ Length(Upper(p)) <= m /\ Upper(p) \in Parts(size)
               /\ Level(f[Upper(p)]) \in Nat
               /\ Length(p) # 1
    BY <2>1, <2>3, PartGrows, PartFields
  <2>4. PartsRight(bounds, order, f, size, m + 1)
    BY <2>2, <2>3 DEF PartsRight
  <2>5. PartsEven(f, size, m + 1)
    <3> SUFFICES ASSUME NEW p \in Parts(size), NEW q \in Parts(size),
                        Length(p) <= Length(q), Length(q) <= Length(p) + 1, Length(q) <= m + 1
                 PROVE  Level(f[p]) <= Level(f[q]) /\ Level(f[q]) <= Level(f[p]) + 1
      BY DEF PartsEven
    <3>1. Length(p) \in Nat /\ Length(q) \in Nat /\ Length(p) >= 1
      BY <1>1
    <3>2. CASE q[1] = q[2]
      <4>1. Length(q) = 1 /\ Level(f[q]) = 0
        BY <2>2, <3>2
      <4>2. Length(p) = 1
        BY <3>1, <4>1
      <4>3. Level(f[p]) = 0
        BY <2>2, <4>2, PartFields
      <4> QED
        BY <4>1, <4>3
    <3>3. CASE q[1] # q[2] /\ p[1] = p[2]
      <4>1. /\ Level(f[p]) = 0 /\ Length(p) = 1 /\ Length(q) # 1
            /\ Level(f[q]) = 1 + Level(f[Upper(q)]) /\ Upper(q) \in Parts(size)
        BY <2>2, <2>3, <3>3
      <4>2. Length(Upper(q)) = 1
        <5>1. Length(q) = 2
          BY <3>1, <4>1
        <5>2. Length(Upper(q)) < 2 /\ Length(Upper(q)) \in 1..size
          BY <1>1, <3>3, <4>1, <5>1, PartSplit
        <5> QED
          BY <5>2
      <4>3. Level(f[Upper(q)]) = 0
        BY <2>2, <4>1, <4>2, PartFields
      <4> QED
        BY <4>1, <4>3
    <3>4. CASE q[1] # q[2] /\ p[1] # p[2]
      <4> DEFINE u == Upper(p)
                 v == Upper(q)
      <4>1. Length(p) <= m + 1
        BY <3>1, <2>1
      <4>2. /\ Level(f[p]) = 1 + Level(f[u]) /\ u \in Parts(size) /\ Level(f[u]) \in Nat
            /\ Level(f[q]) = 1 + Level(f[v]) /\ v \in Parts(size) /\ Level(f[v]) \in Nat
            /\ Length(v) <= m
        BY <2>3, <3>4, <4>1
      <4>3. /\ Length(u) = Length(p) - Length(p) \div 2
            /\ Length(v) = Length(q) - Length(q) \div 2
        BY <3>4, PartSplit
      <4>4. Length(u) <= Length(v) /\ Length(v) <= Length(u) + 1
        BY <3>1, <4>3, HalvesGrow
      <4> HIDE DEF u, v
      <4>5. Level(f[u]) <= Level(f[v]) /\ Level(f[v]) <= Level(f[u]) + 1
        BY <2>1, <4>2, <4>4 DEF PartsEven
      <4> QED
        BY <4>2, <4>5
    <3> QED
      BY <3>2, <3>3, <3>4
  <2> QED
    BY <1>3, <2>4, <2>5
<1>4. size \in T
  <2> HIDE DEF T
  <2>1. \A n \in 0..size : n \in T
    BY <1>2, <1>3, SegmentInduction
  <2> QED
    BY <2>1
<1> QED
  BY <1>4

(* A bulk build gives a tree over exactly the given bounds, padded. *)
LEMMA BuildSound ==
    ASSUME NEW bounds, Bounds(bounds),
           NEW order \in Bijection(1..Cardinality(DOMAIN bounds), DOMAIN bounds)
    PROVE  LET t == BuildBalanced(bounds, order)
           IN  /\ Well(t) /\ Leaves(t) = DOMAIN bounds
               /\ \A k \in DOMAIN bounds : t.nodes[k].box = Fatten(bounds[k])
<1> DEFINE size == Cardinality(DOMAIN bounds)
           t == BuildBalanced(bounds, order)
<1>1. IsFiniteSet(DOMAIN bounds) /\ size \in Nat /\ size <= NumKeys
  <2>1. IsFiniteSet(Keys) /\ Cardinality(Keys) = NumKeys
    BY NamesNat, FS_Interval, SpatialAssumption DEF Keys
  <2>2. DOMAIN bounds \in SUBSET Keys
    BY DEF Bounds
  <2>3. IsFiniteSet(DOMAIN bounds) /\ size <= NumKeys
    BY <2>1, <2>2, FS_Subset
  <2> QED
    BY <2>3, FS_CardinalityType
<1>2. CASE size = 0
  <2>1. t = EmptyTree
    BY <1>2 DEF BuildBalanced
  <2>2. DOMAIN bounds = {}
    BY <1>1, <1>2, FS_EmptySet
  <2> HIDE DEF t
  <2>3. Well(t) /\ Leaves(t) = DOMAIN bounds
    BY <2>1, <2>2, NoTree
  <2> QED
    BY <2>2, <2>3 DEF t
<1>3. CASE size # 0
  <2>1. Ordering(bounds, order, size)
    BY DEF Ordering, Bijection, Injection, Surjection, IsInjective
  <2>2. PICK f : /\ t = f[<<1, size>>]
                 /\ \A p \in Parts(size) : f[p] = BuildStep(bounds, order, f, p)
    BY <1>1, <1>3, BuildRecursion
  <2> HIDE DEF t
  <2>3. PartsRight(bounds, order, f, size, size)
    BY <1>1, <2>1, <2>2, BuildParts
  <2> DEFINE p == <<1, size>>
  <2>4. p[1] = 1 /\ p[2] = size
    OBVIOUS
  <2>5. p \in Parts(size) /\ Length(p) <= size
    BY <1>1, <1>3 DEF Parts, Length
  <2>6. PartTree(t, bounds, order, p)
    BY <2>2, <2>3, <2>5 DEF PartsRight
  <2> HIDE DEF p
  <2> HIDE DEF size
  <2>7. /\ Sound(t) /\ t.root # None
        /\ Leaves(t) = {order[i] : i \in 1..size}
        /\ Forks(t) = (NumKeys + 1)..(NumKeys + size - 1)
        /\ \A k \in Leaves(t) : t.nodes[k].box = Fatten(bounds[k])
    BY <2>4, <2>6 DEF PartTree
  <2>8. Leaves(t) = DOMAIN bounds
    <3>1. \A i \in 1..size : order[i] \in DOMAIN bounds
      BY <2>1 DEF Ordering
    <3>2. \A k \in DOMAIN bounds : \E i \in 1..size : k = order[i]
      BY <2>1 DEF Ordering
    <3>3. {order[i] : i \in 1..size} = DOMAIN bounds
      BY <3>1, <3>2
    <3> QED
      BY <2>7, <3>3
  <2>9. Cardinality(Forks(t)) = size - 1
    <3> DEFINE a == NumKeys + 1
               b == NumKeys + size - 1
    <3>1. a \in Int /\ b \in Int /\ (IF a > b THEN 0 ELSE b - a + 1) = size - 1
      BY <1>1, <1>3, NamesNat DEF size
    <3>2. Forks(t) = a..b
      BY <2>7
    <3> HIDE DEF a, b
    <3>3. Cardinality(a..b) = IF a > b THEN 0 ELSE b - a + 1
      BY <3>1, FS_Interval
    <3> QED
      BY <3>1, <3>2, <3>3
  <2>10. Cardinality(Leaves(t)) = 1 + Cardinality(Forks(t))
    BY <1>1, <2>8, <2>9 DEF size
  <2> QED
    BY <2>7, <2>8, <2>10 DEF Well, t
<1> QED
  BY <1>2, <1>3

-----------------------------------------------------------------------------
(* The invariant *)

(* The leaf of every key holds its bounds and stays within their limit.    *)
Fitted(t, bounds) ==
    \A k \in DOMAIN bounds : /\ t.nodes[k].box \in Box
                             /\ Contains(t.nodes[k].box, bounds[k])
                             /\ Contains(Limit(bounds[k]), t.nodes[k].box)

TreeInv ==
    /\ Well(tree) /\ Bounds(boxes)
    /\ Leaves(tree) = DOMAIN boxes
    /\ Fitted(tree, boxes)

LEMMA InitTreeInv == Init => TreeInv
<1> SUFFICES ASSUME Init PROVE TreeInv
  OBVIOUS
<1>1. Bounds(boxes)
  BY DEF Init, Bounds
<1>2. PICK order \in Bijection(1..Cardinality(DOMAIN boxes), DOMAIN boxes) :
          tree = BuildBalanced(boxes, order)
  BY DEF Init
<1>3. /\ Well(tree) /\ Leaves(tree) = DOMAIN boxes
      /\ \A k \in DOMAIN boxes : tree.nodes[k].box = Fatten(boxes[k])
  BY <1>1, <1>2, BuildSound
<1>4. ASSUME NEW k \in DOMAIN boxes
      PROVE  /\ tree.nodes[k].box \in Box
             /\ Contains(tree.nodes[k].box, boxes[k])
             /\ Contains(Limit(boxes[k]), tree.nodes[k].box)
  <2>1. boxes[k] \in Boxes
    BY <1>1 DEF Bounds
  <2> QED
    BY <1>3, <2>1, Padded
<1> QED
  BY <1>1, <1>3, <1>4 DEF TreeInv, Fitted

(* A leaf more, padded. *)
LEMMA InsertFits ==
    ASSUME NEW t, Well(t), NEW bounds, Bounds(bounds), Fitted(t, bounds),
           Leaves(t) = DOMAIN bounds,
           NEW key \in Keys \ DOMAIN bounds, NEW b \in Boxes, NEW sibling \in ChooseSibling(t),
           NEW after, DOMAIN after = DOMAIN bounds \cup {key}, after[key] = b,
           \A k \in DOMAIN bounds : after[k] = bounds[k]
    PROVE  LET u == InsertLeaf(t, key, Fatten(b), sibling)
           IN  /\ Well(u) /\ Bounds(after) /\ Leaves(u) = DOMAIN after
               /\ Fitted(u, after)
<1> DEFINE u == InsertLeaf(t, key, Fatten(b), sibling)
<1>1. key \in Keys \ DOMAIN t.nodes
  BY DEF Leaves
<1>2. /\ Fatten(b) \in Box /\ Contains(Fatten(b), b) /\ Contains(Limit(b), Fatten(b))
  BY Padded
<1>3. Well(u) /\ HasAdded(t, key, Fatten(b), u)
  BY <1>1, <1>2, InsertSound
<1> HIDE DEF u
<1>4. Bounds(after)
  BY DEF Bounds
<1>5. Leaves(u) = DOMAIN after
  BY <1>3 DEF HasAdded
<1>6. Fitted(u, after)
  <2> SUFFICES ASSUME NEW k \in DOMAIN after
               PROVE  /\ u.nodes[k].box \in Box
                      /\ Contains(u.nodes[k].box, after[k])
                      /\ Contains(Limit(after[k]), u.nodes[k].box)
    BY DEF Fitted
  <2>1. CASE k = key
    BY <1>2, <1>3, <2>1 DEF HasAdded
  <2>2. CASE k # key
    <3>1. u.nodes[k].box = t.nodes[k].box /\ after[k] = bounds[k] /\ k \in DOMAIN bounds
      BY <1>3, <2>2 DEF HasAdded
    <3> QED
      BY <3>1 DEF Fitted
  <2> QED
    BY <2>1, <2>2
<1> QED
  BY <1>3, <1>4, <1>5, <1>6 DEF u

(* A leaf less. *)
LEMMA DetachFits ==
    ASSUME NEW t, Well(t), NEW bounds, Bounds(bounds), Fitted(t, bounds),
           Leaves(t) = DOMAIN bounds, NEW key \in DOMAIN bounds,
           NEW after, DOMAIN after = DOMAIN bounds \ {key},
           \A k \in DOMAIN after : after[k] = bounds[k]
    PROVE  LET u == DetachLeaf(t, key)
           IN  /\ Well(u) /\ Bounds(after) /\ Leaves(u) = DOMAIN after
               /\ Fitted(u, after)
<1> DEFINE u == DetachLeaf(t, key)
<1>1. Well(u) /\ HasDropped(t, key, u)
  BY DetachSound
<1> HIDE DEF u
<1>2. Bounds(after) /\ Leaves(u) = DOMAIN after
  BY <1>1 DEF Bounds, HasDropped
<1>3. Fitted(u, after)
  <2> SUFFICES ASSUME NEW k \in DOMAIN after
               PROVE  /\ u.nodes[k].box \in Box
                      /\ Contains(u.nodes[k].box, after[k])
                      /\ Contains(Limit(after[k]), u.nodes[k].box)
    BY DEF Fitted
  <2>1. u.nodes[k].box = t.nodes[k].box /\ after[k] = bounds[k] /\ k \in DOMAIN bounds
    BY <1>1, <1>2 DEF HasDropped
  <2> QED
    BY <2>1 DEF Fitted
<1> QED
  BY <1>1, <1>2, <1>3 DEF u

LEMMA NextTreeInv == TreeInv /\ [Next]_vars => TreeInv'
<1> SUFFICES ASSUME TreeInv, [Next]_vars PROVE TreeInv'
  OBVIOUS
<1>0. /\ Well(tree) /\ Bounds(boxes) /\ Leaves(tree) = DOMAIN boxes /\ Fitted(tree, boxes)
  BY DEF TreeInv
<1>1. ASSUME NEW key \in Keys, NEW b \in Boxes, Insert(key, b) PROVE TreeInv'
  <2>1. key \in Keys \ DOMAIN boxes
    BY <1>1 DEF Insert
  <2>2. /\ DOMAIN boxes' = DOMAIN boxes \cup {key} /\ boxes'[key] = b
        /\ \A k \in DOMAIN boxes : boxes'[k] = boxes[k]
    BY <1>1, <2>1 DEF Insert, Put
  <2>3. PICK sibling \in ChooseSibling(tree) :
            tree' = InsertLeaf(tree, key, Fatten(b), sibling)
    BY <1>1 DEF Insert
  <2>4. /\ Well(tree') /\ Bounds(boxes') /\ Leaves(tree') = DOMAIN boxes'
        /\ Fitted(tree', boxes')
    BY <1>0, <2>1, <2>2, <2>3, InsertFits
  <2> QED
    BY <2>4 DEF TreeInv
<1>2. ASSUME NEW key \in Keys, NEW b \in Boxes, Update(key, b) PROVE TreeInv'
  <2>1. /\ key \in DOMAIN boxes /\ DOMAIN boxes' = DOMAIN boxes /\ boxes'[key] = b
        /\ \A k \in DOMAIN boxes : k # key => boxes'[k] = boxes[k]
    BY <1>2 DEF Update, Put
  <2>2. CASE Absorbed(tree.nodes[key].box, b)
    <3>1. tree' = tree
      BY <1>2, <2>2 DEF Update
    <3>2. Bounds(boxes')
      BY <1>0, <2>1 DEF Bounds
    <3>3. Fitted(tree', boxes')
      <4> SUFFICES ASSUME NEW k \in DOMAIN boxes
                   PROVE  /\ tree.nodes[k].box \in Box
                          /\ Contains(tree.nodes[k].box, boxes'[k])
                          /\ Contains(Limit(boxes'[k]), tree.nodes[k].box)
        BY <2>1, <3>1 DEF Fitted
      <4>1. CASE k = key
        BY <1>0, <2>1, <2>2, <4>1 DEF Fitted, Absorbed
      <4>2. CASE k # key
        BY <1>0, <2>1, <4>2 DEF Fitted
      <4> QED
        BY <4>1, <4>2
    <3>4. Well(tree') /\ Leaves(tree') = DOMAIN boxes'
      BY <1>0, <2>1, <3>1
    <3> QED
      BY <3>2, <3>3, <3>4 DEF TreeInv
  <2>3. CASE ~Absorbed(tree.nodes[key].box, b)
    <3> DEFINE rest == DetachLeaf(tree, key)
               less == [k \in DOMAIN boxes \ {key} |-> boxes[k]]
    <3>1. PICK sibling \in ChooseSibling(rest) :
              tree' = InsertLeaf(rest, key, Fatten(b), sibling)
      BY <1>2, <2>3 DEF Update
    <3>2. DOMAIN less = DOMAIN boxes \ {key} /\ \A k \in DOMAIN less : less[k] = boxes[k]
      OBVIOUS
    <3> HIDE DEF less
    <3>3. /\ Well(rest) /\ Bounds(less) /\ Leaves(rest) = DOMAIN less /\ Fitted(rest, less)
      BY <1>0, <2>1, <3>2, DetachFits
    <3> HIDE DEF rest
    <3>4. /\ key \in Keys \ DOMAIN less /\ DOMAIN boxes' = DOMAIN less \cup {key}
          /\ \A k \in DOMAIN less : boxes'[k] = less[k]
      BY <2>1, <3>2
    <3>5. /\ Well(tree') /\ Bounds(boxes') /\ Leaves(tree') = DOMAIN boxes'
          /\ Fitted(tree', boxes')
      BY <2>1, <3>1, <3>3, <3>4, InsertFits
    <3> QED
      BY <3>5 DEF TreeInv
  <2> QED
    BY <2>2, <2>3
<1>3. ASSUME NEW key \in Keys, Remove(key) PROVE TreeInv'
  <2>1. /\ key \in DOMAIN boxes /\ DOMAIN boxes' = DOMAIN boxes \ {key}
        /\ \A k \in DOMAIN boxes' : boxes'[k] = boxes[k]
        /\ tree' = DetachLeaf(tree, key)
    BY <1>3 DEF Remove
  <2>2. /\ Well(tree') /\ Bounds(boxes') /\ Leaves(tree') = DOMAIN boxes'
        /\ Fitted(tree', boxes')
    BY <1>0, <2>1, DetachFits
  <2> QED
    BY <2>2 DEF TreeInv
<1>4. CASE UNCHANGED vars
  BY <1>4 DEF TreeInv, vars
<1> QED
  BY <1>1, <1>2, <1>3, <1>4 DEF Next

(* The state the other theorems start from: the tree is well-formed and    *)
(* balanced over exactly the stored keys, and every leaf holds the bounds  *)
(* of its key.                                                             *)
LEMMA TreeInvariant == Spec => []TreeInv
<1>1. Init => TreeInv
  BY InitTreeInv
<1>2. TreeInv /\ [Next]_vars => TreeInv'
  BY NextTreeInv
<1> QED
  BY <1>1, <1>2, PTL DEF Spec

(* After any history of insertions, removals, updates and the rotations    *)
(* they cause (spatial.py: _refit_from, _balance, _detach_leaf), the links *)
(* form one tree over the stored keys, no branch leans by more than a      *)
(* level, and every cached height, box and least key is right.             *)
THEOREM TreeAlwaysSound == Spec => []TreeSound
<1>1. TreeInv => TreeSound
  <2> SUFFICES ASSUME TreeInv PROVE TreeSound
    OBVIOUS
  <2> DEFINE D == DOMAIN tree.nodes
  <2>1. /\ Sound(tree) /\ Linked(tree) /\ Leaves(tree) = DOMAIN boxes
        /\ None \notin D /\ \A n \in D \ Keys : Fits(tree, n)
    <3>1. Sound(tree) /\ Linked(tree) /\ Leaves(tree) = DOMAIN boxes
      BY DEF TreeInv, Well, Sound, Repairing
    <3>2. \A n \in D : n # None
      BY <3>1, LinkedFields
    <3> QED
      BY <3>1, <3>2 DEF Sound, Repairing
  <2>2. {n \in D : IsLeaf(tree, n)} = DOMAIN boxes
    BY <2>1, LeafNodes
  <2>3. IF tree.root = None THEN D = {}
        ELSE tree.root \in D /\ tree.nodes[tree.root].parent = None
    BY <2>1 DEF Linked
  <2>4. ASSUME NEW n \in D, n # tree.root
        PROVE  /\ tree.nodes[n].parent \in D
               /\ n \in {tree.nodes[tree.nodes[n].parent].left,
                         tree.nodes[tree.nodes[n].parent].right}
    BY <2>1, <2>4 DEF Linked, ChildOf
  <2>5. ASSUME NEW n \in D, IsLeaf(tree, n)
        PROVE  /\ tree.nodes[n].right = None /\ tree.nodes[n].height = 0
               /\ tree.nodes[n].least = n /\ Contains(tree.nodes[n].box, boxes[n])
    <3>1. n \in DOMAIN boxes /\ LeafAt(tree, n)
      BY <2>1, <2>2, <2>5, LinkedFields DEF Leaves
    <3> QED
      BY <3>1 DEF LeafAt, TreeInv, Fitted
  <2>6. ASSUME NEW n \in D, ~IsLeaf(tree, n)
        PROVE  LET node == tree.nodes[n] IN
               /\ {node.left, node.right} \subseteq D /\ node.left # node.right
               /\ LET l == tree.nodes[node.left]
                      r == tree.nodes[node.right]
                  IN /\ l.parent = n /\ r.parent = n
                     /\ l.height - r.height \in -1..1
                     /\ node = Branch(node.parent, node.left, node.right, l, r)
    <3>1. n \notin Keys
      BY <2>1, <2>6, LinkedFields DEF LeafAt, IsLeaf
    <3>2. ForkAt(tree, n) /\ Fits(tree, n)
      BY <2>1, <3>1, LinkedFields
    <3> QED
      BY <3>2 DEF ForkAt, Fits
  <2> QED
    BY <2>2, <2>3, <2>4, <2>5, <2>6 DEF TreeSound
<1> QED
  BY <1>1, TreeInvariant, PTL

(* However many updates a leaf absorbs (spatial.py: update), its padded    *)
(* box stays within five paddings of the bounds it now stands for.         *)
THEOREM LeavesAlwaysTight == Spec => []LeavesStayTight
<1>1. TreeInv => LeavesStayTight
  BY DEF TreeInv, Fitted, LeavesStayTight
<1> QED
  BY <1>1, TreeInvariant, PTL

-----------------------------------------------------------------------------
(* Overlap queries *)

(* What holds of the leaves and passes from children to parent holds of    *)
(* all.                                                                    *)
LEMMA BottomUp ==
    ASSUME NEW t, Sound(t), NEW S,
           \A n \in DOMAIN t.nodes \cap Keys : n \in S,
           \A n \in DOMAIN t.nodes \ Keys :
               t.nodes[n].left \in S /\ t.nodes[n].right \in S => n \in S
    PROVE  DOMAIN t.nodes \subseteq S
<1> DEFINE C == DOMAIN t.nodes \ S
           h == [m \in DOMAIN t.nodes |-> t.nodes[m].height]
<1> SUFFICES ASSUME C # {} PROVE FALSE
  OBVIOUS
<1>1. Linked(t)
  BY DEF Sound, Repairing
<1>2. \A m \in C : h[m] \in Nat
  BY <1>1, LinkedFields
<1>3. PICK m \in C : \A n \in C : h[m] <= h[n]
  <2> HIDE DEF C, h
  <2> QED
    BY <1>2, LeastName
<1>4. m \in DOMAIN t.nodes \ Keys /\ ForkAt(t, m)
  BY <1>1, LinkedFields
<1>5. ASSUME NEW c \in DOMAIN t.nodes, t.nodes[c].parent = m PROVE c \notin C
  <2>1. m # None
    BY <1>1, <1>4, LinkedFields
  <2>2. t.nodes[c].height < t.nodes[m].height
    BY <1>5, <2>1, ChildHeights DEF Sound
  <2>3. h[c] < h[m] /\ h[c] \in Nat /\ h[m] \in Nat
    BY <1>1, <1>4, <2>2, LinkedFields
  <2> HIDE DEF h
  <2> QED
    BY <1>3, <2>3
<1>6. t.nodes[m].left \in S /\ t.nodes[m].right \in S
  BY <1>4, <1>5 DEF ForkAt
<1> QED
  BY <1>4, <1>6

(* And what passes from child to parent holds of the root when it holds of *)
(* any node.                                                               *)
LEMMA UpToRoot ==
    ASSUME NEW t, Sound(t), NEW S \in SUBSET DOMAIN t.nodes, S # {},
           \A n \in S : t.nodes[n].parent # None => t.nodes[n].parent \in S
    PROVE  t.root \in S
<1> DEFINE h == [m \in DOMAIN t.nodes |-> t.nodes[m].height]
<1>1. Linked(t)
  BY DEF Sound, Repairing
<1>2. S \in SUBSET Names /\ \A m \in S : h[m] \in Nat
  BY <1>1, LinkedFields
<1>3. PICK m \in S : \A n \in S : h[n] <= h[m]
  <2> HIDE DEF h
  <2> QED
    BY <1>2, GreatestName
<1>4. t.nodes[m].parent = None
  <2> DEFINE p == t.nodes[m].parent
  <2> SUFFICES ASSUME p # None PROVE FALSE
    OBVIOUS
  <2>1. p \in S /\ t.nodes[m].height < t.nodes[p].height
    BY ChildHeights DEF Sound
  <2>2. h[m] < h[p] /\ h[m] \in Nat /\ h[p] \in Nat
    BY <1>2, <2>1
  <2> HIDE DEF h, p
  <2> QED
    BY <1>3, <2>1, <2>2
<1> QED
  BY <1>1, <1>4, LinkedFields

(* _query_one of one node, from what f has for its children. *)
QueryStep(region, f, n) ==
    IF ~Intersects(tree.nodes[n].box, region) THEN {}
    ELSE IF IsLeaf(tree, n) THEN {k \in {n} : Intersects(boxes[k], region)}
    ELSE f[tree.nodes[n].left] \cup f[tree.nodes[n].right]

LEMMA QueryStepSame ==
    ASSUME Sound(tree), NEW n \in DOMAIN tree.nodes, NEW f, NEW g, NEW region,
           \A m \in DOMAIN tree.nodes :
               tree.nodes[m].height < tree.nodes[n].height => f[m] = g[m]
    PROVE  QueryStep(region, f, n) = QueryStep(region, g, n)
<1>1. Linked(tree) /\ n # None
  BY LinkedFields DEF Sound, Repairing
<1>2. CASE n \in Keys
  <2>1. IsLeaf(tree, n)
    BY <1>1, <1>2, LinkedFields DEF LeafAt, IsLeaf
  <2> QED
    BY <2>1 DEF QueryStep
<1>3. CASE n \notin Keys
  <2>1. ForkAt(tree, n)
    BY <1>1, <1>3, LinkedFields
  <2> DEFINE l == tree.nodes[n].left
             r == tree.nodes[n].right
  <2>2. /\ l \in DOMAIN tree.nodes /\ tree.nodes[l].parent = n
        /\ r \in DOMAIN tree.nodes /\ tree.nodes[r].parent = n
    BY <2>1 DEF ForkAt
  <2> HIDE DEF l, r
  <2>3. /\ tree.nodes[l].height < tree.nodes[n].height
        /\ tree.nodes[r].height < tree.nodes[n].height
    BY <1>1, <2>2, ChildHeights DEF Sound
  <2>4. f[l] = g[l] /\ f[r] = g[r]
    BY <2>2, <2>3
  <2> QED
    BY <2>4 DEF QueryStep, l, r
<1> QED
  BY <1>2, <1>3

LEMMA QueryRecursion ==
    ASSUME Sound(tree), tree.root # None, NEW region
    PROVE  \E f : /\ Query(region) = f[tree.root]
                  /\ \A n \in DOMAIN tree.nodes : f[n] = QueryStep(region, f, n)
<1> DEFINE D == DOMAIN tree.nodes
           H == tree.nodes[tree.root].height
           h == [n \in D |-> tree.nodes[n].height]
           Upto(f, m) == \A n \in D : h[n] <= m => f[n] = QueryStep(region, f, n)
           T == {m \in 0..H : \E f : Upto(f, m)}
           Def(f) == [n \in D |-> QueryStep(region, f, n)]
           R == CHOOSE f : f = Def(f)
<1>1. Linked(tree) /\ tree.root \in D
  BY DEF Sound, Repairing, Linked
<1>2. /\ H \in Nat /\ \A n \in D : h[n] \in Nat
  BY <1>1, LinkedFields
<1>3. \A n \in D : h[n] <= H
  BY RootHighest DEF Sound
<1>4. ASSUME NEW n \in D, NEW f, NEW g, \A m \in D : h[m] < h[n] => f[m] = g[m]
      PROVE  QueryStep(region, f, n) = QueryStep(region, g, n)
  <2>1. \A m \in D : tree.nodes[m].height < tree.nodes[n].height => f[m] = g[m]
    BY <1>4
  <2> QED
    BY <2>1, QueryStepSame
<1> HIDE DEF h, H
<1>5. ASSUME NEW m \in Nat, NEW f, \A n \in D : h[n] < m => f[n] = QueryStep(region, f, n)
      PROVE  \E g : Upto(g, m)
  <2> DEFINE g == [n \in D |-> IF h[n] < m THEN f[n] ELSE QueryStep(region, f, n)]
  <2>1. \A n \in D : h[n] < m => f[n] = g[n]
    OBVIOUS
  <2>2. ASSUME NEW n \in D, h[n] <= m PROVE g[n] = QueryStep(region, f, n)
    BY <1>5
  <2> HIDE DEF g
  <2>3. ASSUME NEW n \in D, h[n] <= m
        PROVE  QueryStep(region, f, n) = QueryStep(region, g, n)
    <3>1. \A o \in D : h[o] < h[n] => h[o] < m
      BY <1>2, <2>3
    <3>2. \A o \in D : h[o] < h[n] => f[o] = g[o]
      BY <2>1, <3>1
    <3> QED
      BY <1>4, <3>2
  <2>4. Upto(g, m)
    BY <2>2, <2>3
  <2> HIDE DEF Upto
  <2> QED
    BY <2>4
<1>6. 0 \in T
  <2>1. \A f : \A n \in D : h[n] < 0 => f[n] = QueryStep(region, f, n)
    BY <1>2
  <2>2. \E g : Upto(g, 0)
    BY <1>5, <2>1
  <2> HIDE DEF Upto
  <2> QED
    BY <1>2, <2>2
<1>7. ASSUME NEW m \in 0..H, m \in T, m < H PROVE m + 1 \in T
  <2>1. PICK f : Upto(f, m)
    BY <1>7
  <2>2. \A n \in D : h[n] < m + 1 => f[n] = QueryStep(region, f, n)
    BY <1>2, <2>1
  <2>3. \E g : Upto(g, m + 1)
    BY <1>5, <2>2
  <2> HIDE DEF Upto
  <2> QED
    BY <1>2, <1>7, <2>3
<1>8. H \in T
  <2> HIDE DEF T
  <2>1. \A n \in 0..H : n \in T
    BY <1>2, <1>6, <1>7, SegmentInduction
  <2> QED
    BY <1>2, <2>1
<1>9. PICK f : Upto(f, H)
  BY <1>8
<1>10. \A n \in D : f[n] = QueryStep(region, f, n)
  BY <1>3, <1>9
<1> DEFINE F == [n \in D |-> f[n]]
<1>11. F = Def(F)
  <2>1. ASSUME NEW n \in D PROVE f[n] = QueryStep(region, F, n)
    <3>1. \A m \in D : h[m] < h[n] => f[m] = F[m]
      OBVIOUS
    <3> HIDE DEF F
    <3>2. QueryStep(region, f, n) = QueryStep(region, F, n)
      BY <1>4, <3>1
    <3> QED
      BY <1>10, <3>2
  <2> DEFINE d(n) == QueryStep(region, F, n)
  <2>2. \A n \in D : f[n] = d(n)
    BY <2>1
  <2> HIDE DEF d
  <2>3. F = [n \in D |-> d(n)]
    BY <2>2
  <2> QED
    BY <2>3 DEF d
<1>12. R = Def(R)
  <2> HIDE DEF Def, F
  <2> QED
    BY <1>11
<1>13. Query(region) = R[tree.root]
  BY DEF Query, QueryStep
<1>14. \A n \in D : R[n] = QueryStep(region, R, n)
  <2> HIDE DEF R
  <2> QED
    BY <1>12
<1> HIDE DEF R
<1> QED
  BY <1>13, <1>14

LEMMA ContainsMeets ==
    ASSUME NEW a \in Box, NEW b \in Box, NEW region \in Box,
           Contains(a, b), Intersects(b, region)
    PROVE  Intersects(a, region)
BY DEF Box, Contains, Intersects

LEMMA ContainsAll ==
    ASSUME NEW a \in Box, NEW b \in Box, NEW c \in Box, Contains(a, b), Contains(b, c)
    PROVE  Contains(a, c)
BY DEF Box, Contains

(* The box of a branch contains those of its children. *)
LEMMA BranchContains ==
    ASSUME Sound(tree), NEW n \in DOMAIN tree.nodes, tree.nodes[n].parent # None
    PROVE  LET p == tree.nodes[n].parent
           IN  /\ p \in DOMAIN tree.nodes \ Keys /\ ~IsLeaf(tree, p)
               /\ tree.nodes[p].box \in Box /\ tree.nodes[n].box \in Box
               /\ Contains(tree.nodes[p].box, tree.nodes[n].box)
               /\ n = tree.nodes[p].left \/ n = tree.nodes[p].right
<1> DEFINE p == tree.nodes[n].parent
           l == tree.nodes[p].left
           r == tree.nodes[p].right
<1>1. Linked(tree)
  BY DEF Sound, Repairing
<1>2. p \in DOMAIN tree.nodes \ Keys /\ (n = l \/ n = r) /\ None \notin DOMAIN tree.nodes
  BY <1>1, ChildHeights, LinkedFields DEF Sound, ChildOf
<1> HIDE DEF p
<1>3. ForkAt(tree, p) /\ Fits(tree, p)
  BY <1>1, <1>2, LinkedFields DEF Sound, Repairing
<1>4. /\ tree.nodes[p].box \in Box /\ tree.nodes[n].box \in Box
      /\ l \in DOMAIN tree.nodes /\ r \in DOMAIN tree.nodes
      /\ tree.nodes[l].box \in Box /\ tree.nodes[r].box \in Box
  BY <1>1, <1>2, <1>3, LinkedFields DEF ForkAt
<1>5. tree.nodes[p].box = United(tree.nodes[l].box, tree.nodes[r].box)
  BY <1>3, BranchFields DEF Fits
<1>6. /\ Contains(tree.nodes[p].box, tree.nodes[l].box)
      /\ Contains(tree.nodes[p].box, tree.nodes[r].box)
  BY <1>4, <1>5, UnitedBox
<1>7. ~IsLeaf(tree, p)
  BY <1>1, <1>2, <1>4 DEF IsLeaf
<1> QED
  BY <1>2, <1>4, <1>6, <1>7 DEF p

LEMMA LeafState ==
    ASSUME TreeInv, NEW k \in DOMAIN boxes
    PROVE  /\ k \in DOMAIN tree.nodes /\ k \in Keys /\ IsLeaf(tree, k) /\ LeafAt(tree, k)
           /\ boxes[k] \in Boxes /\ boxes[k] \in Box /\ tree.nodes[k].box \in Box
           /\ Contains(tree.nodes[k].box, boxes[k])
           /\ tree.root # None
<1>1. k \in DOMAIN tree.nodes /\ k \in Keys /\ Linked(tree)
  BY DEF TreeInv, Leaves, Well, Sound, Repairing
<1>2. LeafAt(tree, k) /\ IsLeaf(tree, k)
  BY <1>1, LinkedFields DEF LeafAt, IsLeaf
<1>3. boxes[k] \in Boxes /\ boxes[k] \in Box
  BY Padded DEF TreeInv, Bounds
<1>4. tree.root # None
  BY <1>1 DEF Linked
<1> QED
  BY <1>1, <1>2, <1>3, <1>4 DEF TreeInv, Fitted

LEMMA QueryFinds ==
    ASSUME TreeInv, NEW region \in Box
    PROVE  Query(region) = {k \in DOMAIN boxes : Intersects(boxes[k], region)}
<1> DEFINE D == DOMAIN tree.nodes
           Hits == {k \in DOMAIN boxes : Intersects(boxes[k], region)}
<1>1. /\ Sound(tree) /\ Linked(tree) /\ Leaves(tree) = DOMAIN boxes
  BY DEF TreeInv, Well, Sound, Repairing
<1>2. CASE tree.root = None
  <2>1. Query(region) = {}
    BY <1>2 DEF Query
  <2>2. DOMAIN boxes = {}
    BY <1>1, <1>2 DEF Linked, Leaves
  <2> QED
    BY <2>1, <2>2
<1>3. CASE tree.root # None
  <2>1. PICK f : /\ Query(region) = f[tree.root]
                 /\ \A n \in D : f[n] = QueryStep(region, f, n)
    BY <1>1, <1>3, QueryRecursion
  <2>2. tree.root \in D /\ tree.nodes[tree.root].parent = None
    BY <1>1, <1>3 DEF Linked
  <2>3. f[tree.root] \subseteq Hits
    <3> DEFINE S == {n \in D : f[n] \subseteq Hits}
    <3>1. ASSUME NEW n \in D \cap Keys PROVE f[n] \subseteq Hits
      <4>1. n \in DOMAIN boxes
        BY <1>1 DEF Leaves
      <4>2. IsLeaf(tree, n)
        BY <4>1, LeafState
      <4> QED
        BY <2>1, <4>1, <4>2 DEF QueryStep
    <3>2. ASSUME NEW n \in D \ Keys, tree.nodes[n].left \in S, tree.nodes[n].right \in S
          PROVE  f[n] \subseteq Hits
      <4>1. ~IsLeaf(tree, n)
        <5>1. ForkAt(tree, n) /\ None \notin D
          BY <1>1, LinkedFields
        <5> QED
          BY <5>1 DEF ForkAt, IsLeaf
      <4> DEFINE l == tree.nodes[n].left
                 r == tree.nodes[n].right
      <4>2. f[l] \subseteq Hits /\ f[r] \subseteq Hits
        BY <3>2
      <4>3. f[n] = {} \/ f[n] = f[l] \cup f[r]
        BY <2>1, <4>1 DEF QueryStep
      <4> HIDE DEF l, r, Hits
      <4> QED
        BY <4>2, <4>3
    <3>3. D \subseteq S
      <4>1. \A n \in D \cap Keys : n \in S
        BY <3>1
      <4>2. \A n \in D \ Keys : tree.nodes[n].left \in S /\ tree.nodes[n].right \in S => n \in S
        BY <3>2
      <4> HIDE DEF S
      <4> QED
        BY <1>1, <4>1, <4>2, BottomUp
    <3> QED
      BY <2>2, <3>3
  <2>4. ASSUME NEW k \in Hits PROVE k \in f[tree.root]
    <3>1. /\ k \in DOMAIN boxes /\ Intersects(boxes[k], region)
          /\ k \in D /\ IsLeaf(tree, k) /\ boxes[k] \in Box /\ tree.nodes[k].box \in Box
          /\ Contains(tree.nodes[k].box, boxes[k])
      BY LeafState
    <3> DEFINE S == {n \in D : /\ Contains(tree.nodes[n].box, boxes[k]) /\ k \in f[n]}
    <3>2. k \in S
      <4>1. Intersects(tree.nodes[k].box, region)
        BY <3>1, ContainsMeets
      <4>2. k \in f[k]
        BY <2>1, <3>1, <4>1 DEF QueryStep
      <4> QED
        BY <3>1, <4>2
    <3>3. ASSUME NEW n \in S, tree.nodes[n].parent # None PROVE tree.nodes[n].parent \in S
      <4> DEFINE p == tree.nodes[n].parent
      <4>1. /\ p \in D /\ ~IsLeaf(tree, p)
            /\ tree.nodes[p].box \in Box /\ tree.nodes[n].box \in Box
            /\ Contains(tree.nodes[p].box, tree.nodes[n].box)
            /\ n = tree.nodes[p].left \/ n = tree.nodes[p].right
        BY <1>1, <3>3, BranchContains
      <4> HIDE DEF p
      <4>2. Contains(tree.nodes[p].box, boxes[k])
        BY <3>1, <4>1, ContainsAll
      <4>3. Intersects(tree.nodes[p].box, region)
        BY <3>1, <4>1, <4>2, ContainsMeets
      <4>4. k \in f[p]
        BY <2>1, <4>1, <4>3 DEF QueryStep
      <4> QED
        BY <4>1, <4>2, <4>4 DEF p
    <3>4. tree.root \in S
      <4>1. S \in SUBSET D /\ S # {}
        BY <3>2
      <4> HIDE DEF S
      <4> QED
        BY <1>1, <3>3, <4>1, UpToRoot
    <3> QED
      BY <3>4
  <2> QED
    BY <2>1, <2>3, <2>4
<1> QED
  BY <1>2, <1>3

(* An overlap query (spatial.py: query, _query_one) skips subtrees by      *)
(* their cached boxes and still returns exactly the keys whose current     *)
(* bounds meet the region.                                                 *)
THEOREM QueriesAlwaysExact == Spec => []QueriesExact
<1>1. TreeInv => QueriesExact
  <2>1. \A region \in Regions : region \in Box
    BY SpatialAssumption DEF Box
  <2> QED
    BY <2>1, QueryFinds DEF QueriesExact
<1> QED
  BY <1>1, TreeInvariant, PTL

-----------------------------------------------------------------------------
(* The search for the nearest key *)

(* d is how far p is from the box a. *)
Away(d, a, p) ==
    /\ d \in Nat /\ d >= a.lo - p /\ d >= p - a.hi
    /\ d \in {0, a.lo - p, p - a.hi}

LEMMA DistanceFacts ==
    ASSUME NEW a \in Box, NEW p \in Int
    PROVE  Away(Distance(a, p), a, p)
<1> DEFINE x == a.lo - p
           y == p - a.hi
<1>1. x \in Int /\ y \in Int
  BY DEF Box
<1>2. Distance(a, p) = Max({0, x, y})
  BY DEF Distance
<1> HIDE DEF x, y
<1>3. Max({0, x, y}) = IF x >= 0 /\ x >= y THEN x ELSE IF y >= 0 THEN y ELSE 0
  BY <1>1 DEF Max
<1> QED
  BY <1>1, <1>2, <1>3 DEF x, y, Away

LEMMA DistanceGrows ==
    ASSUME NEW a \in Box, NEW b \in Box, NEW p \in Int, Contains(a, b)
    PROVE  Distance(a, p) <= Distance(b, p)
<1> DEFINE d == Distance(a, p)
           e == Distance(b, p)
<1>1. Away(d, a, p) /\ Away(e, b, p)
  BY DistanceFacts
<1> HIDE DEF d, e
<1>2. d <= e
  BY <1>1 DEF Away, Box, Contains
<1> QED
  BY <1>2 DEF d, e

LEMMA LeastNat ==
    ASSUME NEW t, Sound(t)
    PROVE  \A n \in DOMAIN t.nodes : t.nodes[n].least \in Nat
<1> DEFINE S == {n \in DOMAIN t.nodes : t.nodes[n].least \in Nat}
<1>1. Linked(t)
  BY DEF Sound, Repairing
<1>2. ASSUME NEW n \in DOMAIN t.nodes \cap Keys PROVE n \in S
  BY <1>1, LinkedFields, NamesNat DEF LeafAt, Keys
<1>3. ASSUME NEW n \in DOMAIN t.nodes \ Keys, t.nodes[n].left \in S, t.nodes[n].right \in S
      PROVE  n \in S
  <2> DEFINE a == t.nodes[t.nodes[n].left].least
             b == t.nodes[t.nodes[n].right].least
  <2>1. Fits(t, n)
    <3>1. n # None
      BY <1>1, LinkedFields
    <3> QED
      BY <3>1 DEF Sound, Repairing
  <2>2. t.nodes[n].least = Min({a, b})
    BY <2>1 DEF Fits, Branch
  <2>3. a \in Nat /\ b \in Nat
    BY <1>3
  <2> HIDE DEF a, b
  <2>4. Min({a, b}) = IF a <= b THEN a ELSE b
    BY <2>3, Extremes
  <2>5. t.nodes[n].least \in Nat
    BY <2>2, <2>3, <2>4
  <2> QED
    BY <2>5
<1>4. DOMAIN t.nodes \subseteq S
  <2> HIDE DEF S
  <2> QED
    BY <1>2, <1>3, BottomUp
<1> QED
  BY <1>4

LEMMA EntryFields ==
    ASSUME TreeInv, NEW p \in Int, NEW n \in DOMAIN tree.nodes
    PROVE  /\ Entry(n, p)[1] = Distance(tree.nodes[n].box, p) /\ Entry(n, p)[3] = n
           /\ Entry(n, p)[1] \in Nat /\ Entry(n, p)[2] \in Nat /\ Entry(n, p)[3] \in Nat
<1>1. Sound(tree) /\ Linked(tree)
  BY DEF TreeInv, Well, Sound, Repairing
<1>2. /\ tree.nodes[n].box \in Box /\ tree.nodes[n].least \in Nat /\ n \in Nat
  BY <1>1, LinkedFields, LeastNat, NamesNat
<1>3. Distance(tree.nodes[n].box, p) \in Nat
  BY <1>2, DistanceFacts DEF Away
<1> QED
  BY <1>2, <1>3 DEF Entry

(* The entry at the head of a queue. *)
Head(queue) == CHOOSE e \in queue : \A f \in queue : Precedes(e, f)

LEMMA HeadLeast ==
    ASSUME NEW Q, Q # {}, \A e \in Q : e[1] \in Nat /\ e[2] \in Nat /\ e[3] \in Nat
    PROVE  Head(Q) \in Q /\ \A f \in Q : Head(Q)[1] <= f[1]
<1> DEFINE g1 == [e \in Q |-> e[1]]
           g2 == [e \in Q |-> e[2]]
           g3 == [e \in Q |-> e[3]]
<1>1. \A e \in Q : /\ g1[e] = e[1] /\ g2[e] = e[2] /\ g3[e] = e[3]
                   /\ g1[e] \in Nat /\ g2[e] \in Nat /\ g3[e] \in Nat
  OBVIOUS
<1> HIDE DEF g1, g2, g3
<1>2. PICK a \in Q : \A e \in Q : g1[a] <= g1[e]
  BY <1>1, LeastName
<1> DEFINE Q1 == {e \in Q : g1[e] = g1[a]}
<1>3. PICK b \in Q1 : \A e \in Q1 : g2[b] <= g2[e]
  <2>1. Q1 # {} /\ \A e \in Q1 : g2[e] \in Nat
    BY <1>1
  <2> HIDE DEF Q1
  <2> QED
    BY <2>1, LeastName
<1> DEFINE Q2 == {e \in Q1 : g2[e] = g2[b]}
<1>4. PICK c \in Q2 : \A e \in Q2 : g3[c] <= g3[e]
  <2>1. Q2 # {} /\ \A e \in Q2 : g3[e] \in Nat
    BY <1>1
  <2> HIDE DEF Q1, Q2
  <2> QED
    BY <2>1, LeastName
<1>5. ASSUME NEW e \in Q PROVE Precedes(c, e)
  <2>1. /\ g1[c] = g1[a] /\ g2[c] = g2[b] /\ c \in Q /\ g1[c] <= g1[e]
    BY <1>2
  <2>2. CASE g1[e] # g1[c]
    BY <1>1, <2>1, <2>2 DEF Precedes
  <2>3. CASE g1[e] = g1[c] /\ g2[e] # g2[c]
    <3>1. e \in Q1
      BY <2>1, <2>3
    <3>2. g2[c] <= g2[e]
      BY <1>3, <2>1, <3>1
    <3> QED
      BY <1>1, <2>1, <2>3, <3>2 DEF Precedes
  <2>4. CASE g1[e] = g1[c] /\ g2[e] = g2[c]
    <3>1. e \in Q2
      BY <2>1, <2>4
    <3>2. g3[c] <= g3[e]
      BY <1>4, <3>1
    <3> QED
      BY <1>1, <2>1, <2>4, <3>2 DEF Precedes
  <2> QED
    BY <2>2, <2>3, <2>4
<1>6. c \in Q
  OBVIOUS
<1>7. Head(Q) \in Q /\ \A f \in Q : Precedes(Head(Q), f)
  BY <1>5, <1>6 DEF Head
<1>8. ASSUME NEW f \in Q PROVE Head(Q)[1] <= f[1]
  <2>1. Precedes(Head(Q), f) /\ Head(Q)[1] \in Nat /\ f[1] \in Nat
    BY <1>7
  <2> QED
    BY <2>1 DEF Precedes
<1> QED
  BY <1>7, <1>8

-----------------------------------------------------------------------------
(* The nodes above a key *)

Rising(S) == \A n \in S : tree.nodes[n].parent # None => tree.nodes[n].parent \in S

Above(k) == {n \in DOMAIN tree.nodes :
                 \A S \in SUBSET DOMAIN tree.nodes : k \in S /\ Rising(S) => n \in S}

LEMMA AboveFacts ==
    ASSUME TreeInv, NEW k \in DOMAIN boxes
    PROVE  /\ tree.root \in Above(k) /\ k \in Above(k)
           /\ \A n \in Above(k) : /\ n \in DOMAIN tree.nodes
                                  /\ n \in Keys => n = k
                                  /\ n \notin Keys => \/ tree.nodes[n].left \in Above(k)
                                                      \/ tree.nodes[n].right \in Above(k)
                                  /\ Contains(tree.nodes[n].box, boxes[k])
<1> DEFINE D == DOMAIN tree.nodes
           A == Above(k)
<1>1. /\ Sound(tree) /\ Linked(tree) /\ None \notin D
      /\ \A n \in D : tree.nodes[n].parent \in D \cup {None}
  <2>1. Sound(tree) /\ Linked(tree)
    BY DEF TreeInv, Well, Sound, Repairing
  <2>2. \A n \in D : n # None
    BY <2>1, LinkedFields
  <2> QED
    BY <2>1, <2>2, LinkedFields
<1>2. A \in SUBSET D /\ k \in A
  BY LeafState DEF Above
<1>3. Rising(A)
  BY <1>1 DEF Above, Rising
<1>4. tree.root \in A
  BY <1>1, <1>2, <1>3, UpToRoot DEF Rising
<1>5. ASSUME NEW n \in A, n # k PROVE \E c \in A : c # n /\ tree.nodes[c].parent = n
  <2> SUFFICES ASSUME \A c \in A : c # n => tree.nodes[c].parent # n PROVE FALSE
    OBVIOUS
  <2> DEFINE S == A \ {n}
  <2>1. S \in SUBSET D /\ k \in S
    BY <1>2, <1>5
  <2>2. Rising(S)
    BY <1>3 DEF Rising
  <2> QED
    BY <2>1, <2>2 DEF Above
<1>6. ASSUME NEW n \in A, n \in Keys PROVE n = k
  <2> SUFFICES ASSUME n # k PROVE FALSE
    OBVIOUS
  <2>1. PICK c \in A : c # n /\ tree.nodes[c].parent = n
    BY <1>5
  <2>2. n # None /\ c \in D
    BY <1>1, <1>2
  <2>3. tree.nodes[c].parent \notin Keys
    BY <1>1, <2>1, <2>2, ChildHeights DEF Sound
  <2> QED
    BY <1>6, <2>1, <2>3
<1>7. ASSUME NEW n \in A, n \notin Keys
      PROVE  tree.nodes[n].left \in A \/ tree.nodes[n].right \in A
  <2>1. n # k
    BY <1>7, LeafState
  <2>2. PICK c \in A : c # n /\ tree.nodes[c].parent = n
    BY <1>5, <2>1
  <2>3. c \in D /\ n # None
    BY <1>1, <1>2
  <2>4. c = tree.nodes[n].left \/ c = tree.nodes[n].right
    BY <1>1, <2>2, <2>3, LinkedFields DEF ChildOf
  <2> QED
    BY <2>2, <2>4
<1>8. ASSUME NEW n \in A PROVE Contains(tree.nodes[n].box, boxes[k])
  <2> DEFINE S == {m \in D : Contains(tree.nodes[m].box, boxes[k])}
  <2>1. k \in S
    BY LeafState
  <2>2. ASSUME NEW m \in S, tree.nodes[m].parent # None PROVE tree.nodes[m].parent \in S
    <3> DEFINE q == tree.nodes[m].parent
    <3>1. /\ q \in D /\ tree.nodes[q].box \in Box /\ tree.nodes[m].box \in Box
          /\ Contains(tree.nodes[q].box, tree.nodes[m].box)
      BY <1>1, <2>2, BranchContains
    <3>2. boxes[k] \in Box /\ Contains(tree.nodes[m].box, boxes[k])
      BY LeafState
    <3> HIDE DEF q
    <3>3. Contains(tree.nodes[q].box, boxes[k])
      BY <3>1, <3>2, ContainsAll
    <3> QED
      BY <3>1, <3>3 DEF q
  <2>3. S \in SUBSET D /\ Rising(S)
    BY <2>2 DEF Rising
  <2>4. n \in S
    <3> HIDE DEF S
    <3> QED
      BY <2>1, <2>3 DEF Above
  <2> QED
    BY <2>4
<1> QED
  BY <1>2, <1>4, <1>6, <1>7, <1>8

-----------------------------------------------------------------------------
(* The rounds of the search *)

SearchRounds(f, exact, p) ==
    LET N == Cardinality(DOMAIN tree.nodes)
    IN  /\ Nearest(exact, p) = f[N].best
        /\ f[0] = [queue |-> {Entry(tree.root, p)}, best |-> NoHit]
        /\ \A i \in 1..N : f[i] = SearchStep(f[i - 1], exact, p)

LEMMA SearchRecursion ==
    ASSUME tree.root # None, Cardinality(DOMAIN tree.nodes) \in Nat, NEW exact, NEW p
    PROVE  \E f : SearchRounds(f, exact, p)
<1> DEFINE N == Cardinality(DOMAIN tree.nodes)
           a == [queue |-> {Entry(tree.root, p)}, best |-> NoHit]
           step(s) == SearchStep(s, exact, p)
           Upto(f, m) == f[0] = a /\ \A i \in 1..m : f[i] = step(f[i - 1])
           T == {m \in 0..N : \E f : Upto(f, m)}
           Def(f) == [i \in 0..N |-> IF i = 0 THEN a ELSE SearchStep(f[i - 1], exact, p)]
           R == CHOOSE f : f = Def(f)
<1>1. N \in Nat
  OBVIOUS
<1> HIDE DEF N, a, step
<1>2. 0 \in T
  <2> DEFINE f == [i \in 0..N |-> a]
  <2>1. Upto(f, 0)
    BY <1>1
  <2> HIDE DEF Upto, f
  <2>2. \E g : Upto(g, 0)
    BY <2>1
  <2> QED
    BY <1>1, <2>2
<1>3. ASSUME NEW m \in 0..N, m \in T, m < N PROVE m + 1 \in T
  <2>1. PICK f : Upto(f, m)
    BY <1>3
  <2> DEFINE h == [i \in 0..N |-> IF i <= m THEN f[i] ELSE step(f[m])]
  <2>2. h[0] = a
    BY <1>1, <2>1
  <2>3. ASSUME NEW i \in 1..(m + 1) PROVE h[i] = step(h[i - 1])
    <3>1. h[i - 1] = f[i - 1]
      BY <1>1, <1>3
    <3>2. CASE i <= m
      BY <1>1, <2>1, <3>1, <3>2
    <3>3. CASE i = m + 1
      BY <1>1, <1>3, <3>1, <3>3
    <3> QED
      BY <3>2, <3>3
  <2> HIDE DEF h
  <2>4. Upto(h, m + 1)
    BY <2>2, <2>3
  <2> HIDE DEF Upto
  <2>5. \E g : Upto(g, m + 1)
    BY <2>4
  <2> QED
    BY <1>1, <1>3, <2>5
<1>4. N \in T
  <2> HIDE DEF T
  <2>1. \A n \in 0..N : n \in T
    BY <1>1, <1>2, <1>3, SegmentInduction
  <2> QED
    BY <1>1, <2>1
<1>5. PICK f : Upto(f, N)
  BY <1>4
<1> DEFINE F == [i \in 0..N |-> f[i]]
<1>6. F = Def(F)
  <2>1. ASSUME NEW i \in 0..N
        PROVE  F[i] = IF i = 0 THEN a ELSE SearchStep(F[i - 1], exact, p)
    <3>1. CASE i = 0
      BY <1>1, <1>5, <3>1
    <3>2. CASE i # 0
      <4>1. F[i] = f[i] /\ F[i - 1] = f[i - 1] /\ i \in 1..N
        BY <1>1, <3>2
      <4> HIDE DEF F
      <4>2. f[i] = step(f[i - 1])
        BY <1>5, <4>1
      <4> QED
        BY <3>2, <4>1, <4>2 DEF step
    <3> QED
      BY <3>1, <3>2
  <2>2. F = [i \in 0..N |-> F[i]]
    OBVIOUS
  <2> DEFINE d(i) == IF i = 0 THEN a ELSE SearchStep(F[i - 1], exact, p)
  <2> HIDE DEF F
  <2>3. \A i \in 0..N : F[i] = d(i)
    BY <2>1
  <2> HIDE DEF d
  <2>4. F = [i \in 0..N |-> d(i)]
    BY <2>2, <2>3
  <2> QED
    BY <2>4 DEF d
<1>7. R = Def(R)
  <2> HIDE DEF Def, F
  <2> QED
    BY <1>6
<1>8. Nearest(exact, p) = R[N].best
  BY DEF Nearest, N, a
<1>9. R[0] = a /\ \A i \in 1..N : R[i] = SearchStep(R[i - 1], exact, p)
  <2> HIDE DEF R
  <2> QED
    BY <1>1, <1>7
<1>10. SearchRounds(R, exact, p)
  <2> HIDE DEF R
  <2> QED
    BY <1>8, <1>9 DEF SearchRounds, N, a
<1> HIDE DEF R
<1> QED
  BY <1>10

(* Exact distances not below the distance of the bounds. *)
Exact(exact, p) ==
    \A k \in DOMAIN boxes : exact[k] \in Nat /\ Distance(boxes[k], p) <= exact[k]

(* The best hit so far is at least as good as k. *)
Beats(best, exact, k) ==
    /\ best.key # None
    /\ \/ best.distance < exact[k]
       \/ best.distance = exact[k] /\ best.key <= k

(* Each key is beaten or below an entry of the queue. *)
Covered(queue, best, exact, p) ==
    /\ \A e \in queue : \E n \in DOMAIN tree.nodes : e = Entry(n, p)
    /\ best = [key |-> best.key, distance |-> best.distance]
    /\ best.key # None => best.key \in DOMAIN boxes /\ best.distance = exact[best.key]
    /\ \A k \in DOMAIN boxes :
           Beats(best, exact, k) \/ \E n \in Above(k) : Entry(n, p) \in queue

Over(queue, best) == queue = {} \/ Worse(Head(queue)[1], best)

(* Unless it is over, as many nodes are done with as rounds have passed:   *)
(* those above any of them too, and none is in the queue.                  *)
Passed(queue, best, p, i) ==
    \/ Over(queue, best)
    \/ \E V \in SUBSET DOMAIN tree.nodes :
           /\ Cardinality(V) = i /\ Rising(V)
           /\ \A n \in DOMAIN tree.nodes : Entry(n, p) \in queue =>
                  n \notin V /\ (tree.nodes[n].parent # None => tree.nodes[n].parent \in V)

(* What a round does to a search that is not over. *)
Searched(u, queue, best, exact, p) ==
    LET n == Head(queue)[3]
        rest == queue \ {Head(queue)}
        kids == {Entry(tree.nodes[n].left, p), Entry(tree.nodes[n].right, p)}
        near == ~Worse(Distance(boxes[n], p), best) /\ Improves(exact[n], n, best)
    IN  /\ ~IsLeaf(tree, n) =>
               u = [queue |-> rest \cup {e \in kids : ~Worse(e[1], best)}, best |-> best]
        /\ IsLeaf(tree, n) /\ near =>
               u = [queue |-> rest, best |-> [key |-> n, distance |-> exact[n]]]
        /\ IsLeaf(tree, n) /\ ~near => u = [queue |-> rest, best |-> best]

LEMMA SearchStepCases ==
    ASSUME NEW queue, NEW best, NEW exact, NEW p, ~Over(queue, best)
    PROVE  Searched(SearchStep([queue |-> queue, best |-> best], exact, p),
                  queue, best, exact, p)
<1> DEFINE s == [queue |-> queue, best |-> best]
           head == Head(queue)
           n == head[3]
<1>1. s.queue = queue /\ s.best = best
  OBVIOUS
<1>2. ~(queue = {} \/ Worse(head[1], best))
  BY DEF Over
<1>3. \A q : [s EXCEPT !.queue = q] = [queue |-> q, best |-> best]
  OBVIOUS
<1> HIDE DEF s
<1>4. SearchStep(s, exact, p) =
          LET first == Head(s.queue)
              m == first[3]
              rest == s.queue \ {first}
              kids == {Entry(tree.nodes[m].left, p), Entry(tree.nodes[m].right, p)}
          IN IF s.queue = {} \/ Worse(first[1], s.best) THEN s
             ELSE IF ~IsLeaf(tree, m)
             THEN [s EXCEPT !.queue = rest \cup {e \in kids : ~Worse(e[1], s.best)}]
             ELSE IF ~Worse(Distance(boxes[m], p), s.best) /\ Improves(exact[m], m, s.best)
             THEN [queue |-> rest, best |-> [key |-> m, distance |-> exact[m]]]
             ELSE [s EXCEPT !.queue = rest]
  BY DEF SearchStep, Head
<1> DEFINE rest == queue \ {head}
           kids == {Entry(tree.nodes[n].left, p), Entry(tree.nodes[n].right, p)}
           near == ~Worse(Distance(boxes[n], p), best) /\ Improves(exact[n], n, best)
           some == {e \in kids : ~Worse(e[1], best)}
<1>5. SearchStep(s, exact, p) =
          IF ~IsLeaf(tree, n) THEN [s EXCEPT !.queue = rest \cup some]
          ELSE IF near
          THEN [queue |-> rest, best |-> [key |-> n, distance |-> exact[n]]]
          ELSE [s EXCEPT !.queue = rest]
  BY <1>1, <1>2, <1>4
<1>6. SearchStep(s, exact, p) =
          IF ~IsLeaf(tree, n) THEN [queue |-> rest \cup some, best |-> best]
          ELSE IF near
          THEN [queue |-> rest, best |-> [key |-> n, distance |-> exact[n]]]
          ELSE [queue |-> rest, best |-> best]
  <2> HIDE DEF rest, some, near, n, head
  <2> QED
    BY <1>3, <1>5
<1> QED
  BY <1>6 DEF s, Searched

LEMMA HeadEntry ==
    ASSUME TreeInv, NEW p \in Int, NEW queue, NEW best, NEW exact,
           Covered(queue, best, exact, p), queue # {}
    PROVE  LET n == Head(queue)[3]
           IN  /\ Head(queue) \in queue /\ Head(queue) = Entry(n, p) /\ n \in DOMAIN tree.nodes
               /\ \A m \in DOMAIN tree.nodes : Entry(m, p) = Head(queue) => m = n
               /\ \A e \in queue : Head(queue)[1] <= e[1]
               /\ \A e \in queue : e[1] \in Nat
<1>1. \A e \in queue : \E n \in DOMAIN tree.nodes : e = Entry(n, p)
  BY DEF Covered
<1>2. \A e \in queue : e[1] \in Nat /\ e[2] \in Nat /\ e[3] \in Nat
  BY <1>1, EntryFields
<1>3. Head(queue) \in queue /\ \A e \in queue : Head(queue)[1] <= e[1]
  BY <1>2, HeadLeast
<1>4. PICK n \in DOMAIN tree.nodes : Head(queue) = Entry(n, p)
  BY <1>1, <1>3
<1>5. \A m \in DOMAIN tree.nodes : Entry(m, p)[3] = m
  BY EntryFields
<1> QED
  BY <1>2, <1>3, <1>4, <1>5

(* The bound of a node above a key is not above its exact distance. *)
LEMMA BoundBelow ==
    ASSUME TreeInv, NEW p \in Int, NEW exact, Exact(exact, p),
           NEW k \in DOMAIN boxes, NEW n \in Above(k)
    PROVE  Entry(n, p)[1] \in Nat /\ exact[k] \in Nat /\ Entry(n, p)[1] <= exact[k]
<1>1. /\ n \in DOMAIN tree.nodes /\ Contains(tree.nodes[n].box, boxes[k])
      /\ boxes[k] \in Box
  BY AboveFacts, LeafState
<1>2. tree.nodes[n].box \in Box
  BY <1>1, LinkedFields DEF TreeInv, Well, Sound, Repairing
<1>3. Distance(tree.nodes[n].box, p) <= Distance(boxes[k], p)
  BY <1>1, <1>2, DistanceGrows
<1>4. /\ Distance(tree.nodes[n].box, p) \in Nat /\ Distance(boxes[k], p) \in Nat
  BY <1>1, <1>2, DistanceFacts DEF Away
<1>5. exact[k] \in Nat /\ Distance(boxes[k], p) <= exact[k]
  BY DEF Exact
<1>6. Entry(n, p)[1] = Distance(tree.nodes[n].box, p)
  BY <1>1, EntryFields
<1> QED
  BY <1>3, <1>4, <1>5, <1>6

(* One node more is done with, in each case. *)
LEMMA PassedOn ==
    ASSUME TreeInv, NEW p \in Int, NEW queue, NEW best, NEW exact, NEW i \in Nat,
           Covered(queue, best, exact, p), Passed(queue, best, p, i), ~Over(queue, best),
           NEW rest, NEW after,
           LET n == Head(queue)[3]
               kids == {Entry(tree.nodes[n].left, p), Entry(tree.nodes[n].right, p)}
           IN  \/ rest = queue \ {Head(queue)}
               \/ /\ ~IsLeaf(tree, n)
                  /\ rest \subseteq (queue \ {Head(queue)}) \cup kids
    PROVE  Passed(rest, after, p, i + 1)
<1> DEFINE D == DOMAIN tree.nodes
           n == Head(queue)[3]
           l == tree.nodes[n].left
           r == tree.nodes[n].right
<1>1. /\ Head(queue) \in queue /\ Head(queue) = Entry(n, p) /\ n \in D
      /\ \A m \in D : Entry(m, p)[3] = m
  BY HeadEntry, EntryFields DEF Over
<1>2. PICK V \in SUBSET D :
          /\ Cardinality(V) = i /\ Rising(V)
          /\ \A m \in D : Entry(m, p) \in queue =>
                 m \notin V /\ (tree.nodes[m].parent # None => tree.nodes[m].parent \in V)
  BY DEF Passed
<1> HIDE DEF n
<1> DEFINE W == V \cup {n}
<1>3. W \in SUBSET D /\ n \notin V
  BY <1>1, <1>2
<1>4. Cardinality(W) = i + 1
  <2>1. tree \in Trees
    BY DEF TreeInv, Well, Sound, Repairing, Linked
  <2>2. IsFiniteSet(D)
    BY <2>1, NodesFinite
  <2>3. IsFiniteSet(V)
    BY <2>2, FS_Subset
  <2> QED
    BY <1>2, <1>3, <2>3, FS_AddElement
<1>5. Rising(W)
  BY <1>1, <1>2 DEF Rising
<1>6. ASSUME NEW m \in D, Entry(m, p) \in rest
      PROVE  m \notin W /\ (tree.nodes[m].parent # None => tree.nodes[m].parent \in W)
  <2>1. CASE Entry(m, p) \in queue \ {Head(queue)}
    BY <1>1, <1>2, <2>1
  <2>2. CASE Entry(m, p) \notin queue \ {Head(queue)}
    <3>1. ~IsLeaf(tree, n) /\ (Entry(m, p) = Entry(l, p) \/ Entry(m, p) = Entry(r, p))
      BY <1>6, <2>2 DEF n
    <3>2. Linked(tree)
      BY DEF TreeInv, Well, Sound, Repairing
    <3>3. ForkAt(tree, n)
      BY <1>1, <3>1, <3>2, LinkedFields DEF LeafAt, IsLeaf
    <3>4. /\ l \in D /\ r \in D /\ tree.nodes[l].parent = n /\ tree.nodes[r].parent = n
      BY <3>3 DEF ForkAt
    <3>5. m = l \/ m = r
      BY <1>1, <3>1, <3>4
    <3>6. tree.nodes[m].parent = n /\ m # n /\ n # None
      BY <1>1, <3>2, <3>4, <3>5, LinkedFields
    <3>7. m \notin V
      BY <1>2, <1>3, <3>6 DEF Rising
    <3> QED
      BY <3>6, <3>7
  <2> QED
    BY <2>1, <2>2
<1> HIDE DEF W
<1> QED
  BY <1>3, <1>4, <1>5, <1>6 DEF Passed

LEMMA SearchRound ==
    ASSUME TreeInv, NEW p \in Int, NEW queue, NEW best, NEW exact, NEW i \in Nat,
           Exact(exact, p), Covered(queue, best, exact, p), Passed(queue, best, p, i)
    PROVE  LET u == SearchStep([queue |-> queue, best |-> best], exact, p)
           IN  /\ Covered(u.queue, u.best, exact, p) /\ Passed(u.queue, u.best, p, i + 1)
               /\ u = [queue |-> u.queue, best |-> u.best]
<1> DEFINE D == DOMAIN tree.nodes
           u == SearchStep([queue |-> queue, best |-> best], exact, p)
           head == Head(queue)
           n == head[3]
           l == tree.nodes[n].left
           r == tree.nodes[n].right
           rest == queue \ {head}
           near == ~Worse(Distance(boxes[n], p), best) /\ Improves(exact[n], n, best)
<1>1. CASE Over(queue, best)
  <2> DEFINE s == [queue |-> queue, best |-> best]
  <2>1. s.queue = queue /\ s.best = best
    OBVIOUS
  <2>2. queue = {} \/ Worse(head[1], best)
    BY <1>1 DEF Over
  <2> HIDE DEF s
  <2>3. SearchStep(s, exact, p) = s
    BY <2>1, <2>2 DEF SearchStep, Head
  <2>4. u = s
    BY <2>3 DEF s
  <2> HIDE DEF u
  <2>5. Passed(u.queue, u.best, p, i + 1)
    BY <1>1, <2>1, <2>4 DEF Passed
  <2> QED
    BY <2>1, <2>4, <2>5 DEF s, u
<1>2. CASE ~Over(queue, best)
  <2>1. /\ head \in queue /\ head = Entry(n, p) /\ n \in D
        /\ \A m \in D : Entry(m, p) = head => m = n
    BY <1>2, HeadEntry DEF Over
  <2>2. Linked(tree) /\ Leaves(tree) = DOMAIN boxes /\ None \notin D
    <3>1. Linked(tree) /\ Leaves(tree) = DOMAIN boxes
      BY DEF TreeInv, Well, Sound, Repairing
    <3>2. \A m \in D : m # None
      BY <3>1, LinkedFields
    <3> QED
      BY <3>1, <3>2
  <2>3. /\ \A e \in queue : \E m \in D : e = Entry(m, p)
        /\ best = [key |-> best.key, distance |-> best.distance]
        /\ best.key # None => best.key \in DOMAIN boxes /\ best.distance = exact[best.key]
        /\ \A k \in DOMAIN boxes : Beats(best, exact, k) \/ \E a \in Above(k) : Entry(a, p) \in queue
    BY DEF Covered
  <2>4. \A k \in DOMAIN boxes :
            Beats(best, exact, k) \/ n \in Above(k) \/ \E a \in Above(k) : Entry(a, p) \in rest
    <3> SUFFICES ASSUME NEW k \in DOMAIN boxes, ~Beats(best, exact, k), n \notin Above(k)
                 PROVE  \E a \in Above(k) : Entry(a, p) \in rest
      OBVIOUS
    <3>1. PICK a \in Above(k) : Entry(a, p) \in queue
      BY <2>3
    <3>2. a \in D
      BY AboveFacts
    <3> HIDE DEF n, head
    <3> QED
      BY <2>1, <3>1, <3>2
  <2>5. \A k \in DOMAIN boxes : exact[k] \in Nat
    BY DEF Exact
  <2> HIDE DEF u
  <2>round. Searched(u, queue, best, exact, p)
    BY <1>2, SearchStepCases DEF u
  <2>6. CASE ~IsLeaf(tree, n)
    <3> DEFINE kids == {Entry(l, p), Entry(r, p)}
               next == rest \cup {e \in kids : ~Worse(e[1], best)}
    <3>1. u = [queue |-> next, best |-> best]
      BY <2>round, <2>6 DEF Searched
    <3>2. u.queue = next /\ u.best = best /\ u = [queue |-> u.queue, best |-> u.best]
      BY <3>1
    <3>3. n \notin Keys /\ l \in D /\ r \in D
      <4> HIDE DEF n
      <4>1. n \notin Keys
        BY <2>1, <2>2, <2>6, LinkedFields DEF LeafAt, IsLeaf
      <4> QED
        BY <2>1, <2>2, <4>1, LinkedFields DEF ForkAt
    <3>4. \A e \in next : \E m \in D : e = Entry(m, p)
      BY <2>3, <3>3
    <3>5. ASSUME NEW k \in DOMAIN boxes
          PROVE  Beats(best, exact, k) \/ \E a \in Above(k) : Entry(a, p) \in next
      <4>1. CASE Beats(best, exact, k) \/ \E a \in Above(k) : Entry(a, p) \in rest
        BY <4>1
      <4>2. CASE n \in Above(k)
        <5>1. PICK c \in {l, r} : c \in Above(k)
          BY <3>3, <4>2, AboveFacts
        <5>2. Entry(c, p) \in kids
          OBVIOUS
        <5>3. ASSUME Worse(Entry(c, p)[1], best) PROVE Beats(best, exact, k)
          <6>1. best.key # None /\ Entry(c, p)[1] > best.distance
            BY <5>3 DEF Worse
          <6>2. Entry(c, p)[1] \in Nat /\ exact[k] \in Nat /\ Entry(c, p)[1] <= exact[k]
            BY <5>1, BoundBelow
          <6>3. best.distance \in Nat
            BY <2>3, <2>5, <6>1
          <6>4. best.distance < exact[k]
            BY <6>1, <6>2, <6>3
          <6> QED
            BY <6>1, <6>4 DEF Beats
        <5> QED
          BY <5>1, <5>2, <5>3
      <4> QED
        BY <2>4, <4>1, <4>2
    <3> HIDE DEF next
    <3>6. Covered(u.queue, u.best, exact, p)
      BY <2>3, <3>2, <3>4, <3>5 DEF Covered
    <3>7. next \subseteq rest \cup kids
      BY DEF next
    <3>8. Passed(u.queue, u.best, p, i + 1)
      BY <1>2, <2>6, <3>2, <3>7, PassedOn
    <3> QED
      BY <3>2, <3>6, <3>8 DEF u
  <2>7. ASSUME IsLeaf(tree, n)
        PROVE  /\ n \in DOMAIN boxes /\ \A k \in DOMAIN boxes : n \in Above(k) => n = k
               /\ exact[n] \in Nat /\ n \in Nat /\ n # None
               /\ \A k \in DOMAIN boxes : k \in Nat
    <3> HIDE DEF n
    <3>1. n \in Keys
      BY <2>1, <2>2, <2>7, LinkedFields DEF ForkAt, IsLeaf
    <3>2. n \in DOMAIN boxes
      BY <2>1, <2>2, <3>1 DEF Leaves
    <3>3. DOMAIN boxes \subseteq Nat /\ None \notin Keys
      BY <2>2, NamesNat DEF Leaves, Keys, None
    <3>4. \A k \in DOMAIN boxes : n \in Above(k) => n = k
      BY <3>1, AboveFacts
    <3> QED
      BY <2>5, <3>1, <3>2, <3>3, <3>4
  <2>8. CASE IsLeaf(tree, n) /\ near
    <3> DEFINE hit == [key |-> n, distance |-> exact[n]]
    <3>1. u = [queue |-> rest, best |-> hit]
      BY <2>round, <2>8 DEF Searched
    <3>2. u.queue = rest /\ u.best = hit /\ u = [queue |-> u.queue, best |-> u.best]
      BY <3>1
    <3>3. hit.key = n /\ hit.distance = exact[n] /\ hit = [key |-> hit.key, distance |-> hit.distance]
      OBVIOUS
    <3> HIDE DEF hit
    <3>4. n \in DOMAIN boxes /\ exact[n] \in Nat /\ n \in Nat /\ n # None
          /\ \A k \in DOMAIN boxes : n \in Above(k) => n = k
      BY <2>7, <2>8
    <3>5. Improves(exact[n], n, best)
      BY <2>8
    <3> HIDE DEF n
    <3>6. ASSUME NEW k \in DOMAIN boxes, Beats(best, exact, k) PROVE Beats(hit, exact, k)
      <4>1. /\ best.key # None /\ best.distance \in Nat /\ best.key \in Nat
            /\ exact[k] \in Nat /\ k \in Nat
        BY <2>3, <2>5, <2>7, <2>8, <3>6 DEF Beats
      <4>2. exact[n] < best.distance \/ (exact[n] = best.distance /\ n < best.key)
        BY <3>5, <4>1 DEF Improves
      <4>3. best.distance < exact[k] \/ (best.distance = exact[k] /\ best.key <= k)
        BY <3>6 DEF Beats
      <4>4. exact[n] < exact[k] \/ (exact[n] = exact[k] /\ n <= k)
        BY <3>4, <4>1, <4>2, <4>3
      <4> QED
        BY <3>3, <3>4, <4>4 DEF Beats
    <3>7. Beats(hit, exact, n)
      BY <3>3, <3>4 DEF Beats
    <3>8. \A k \in DOMAIN boxes : Beats(hit, exact, k) \/ \E a \in Above(k) : Entry(a, p) \in rest
      BY <2>4, <3>4, <3>6, <3>7
    <3>9. \A e \in rest : \E m \in D : e = Entry(m, p)
      BY <2>3
    <3>10. Covered(u.queue, u.best, exact, p)
      BY <3>2, <3>3, <3>4, <3>8, <3>9 DEF Covered
    <3>11. Passed(u.queue, u.best, p, i + 1)
      BY <1>2, <3>2, PassedOn
    <3> QED
      BY <3>2, <3>10, <3>11 DEF u
  <2>9. CASE IsLeaf(tree, n) /\ ~near
    <3>1. u = [queue |-> rest, best |-> best]
      BY <2>round, <2>9 DEF Searched
    <3>2. u.queue = rest /\ u.best = best /\ u = [queue |-> u.queue, best |-> u.best]
      BY <3>1
    <3>3. n \in DOMAIN boxes /\ exact[n] \in Nat /\ n \in Nat /\ n # None
          /\ \A k \in DOMAIN boxes : n \in Above(k) => n = k
      BY <2>7, <2>9
    <3>4. Worse(Distance(boxes[n], p), best) \/ ~Improves(exact[n], n, best)
      BY <2>9
    <3> HIDE DEF n
    <3>5. Beats(best, exact, n)
      <4>1. boxes[n] \in Box
        BY <3>3, LeafState
      <4>2. Distance(boxes[n], p) \in Nat /\ Distance(boxes[n], p) <= exact[n]
        BY <3>3, <4>1, DistanceFacts DEF Away, Exact
      <4>3. best.key # None
        BY <3>4 DEF Worse, Improves
      <4>4. best.distance \in Nat /\ best.key \in Nat
        BY <2>3, <2>5, <2>7, <2>9, <4>3
      <4>5. CASE Worse(Distance(boxes[n], p), best)
        <5>1. Distance(boxes[n], p) > best.distance
          BY <4>5 DEF Worse
        <5>2. best.distance < exact[n]
          BY <3>3, <4>2, <4>4, <5>1
        <5> QED
          BY <4>3, <5>2 DEF Beats
      <4>6. CASE ~Improves(exact[n], n, best)
        <5>1. ~(exact[n] < best.distance) /\ ~(exact[n] = best.distance /\ n < best.key)
          BY <4>6 DEF Improves
        <5>2. best.distance < exact[n] \/ (best.distance = exact[n] /\ best.key <= n)
          BY <3>3, <4>4, <5>1
        <5> QED
          BY <4>3, <5>2 DEF Beats
      <4> QED
        BY <3>4, <4>5, <4>6
    <3>6. \A k \in DOMAIN boxes : Beats(best, exact, k) \/ \E a \in Above(k) : Entry(a, p) \in rest
      BY <2>4, <3>3, <3>5
    <3>7. \A e \in rest : \E m \in D : e = Entry(m, p)
      BY <2>3
    <3>8. Covered(u.queue, u.best, exact, p)
      BY <2>3, <3>2, <3>6, <3>7 DEF Covered
    <3>9. Passed(u.queue, u.best, p, i + 1)
      BY <1>2, <3>2, PassedOn
    <3> QED
      BY <3>2, <3>8, <3>9 DEF u
  <2> QED
    BY <2>6, <2>8, <2>9
<1> QED
  BY <1>1, <1>2

-----------------------------------------------------------------------------
(* The end of the search *)

(* After as many rounds as there are nodes, the search is over: every node *)
(* is done with and the queue, which holds none of those, is empty.        *)
LEMMA SearchStops ==
    ASSUME TreeInv, NEW p \in Int, NEW queue, NEW best, NEW exact,
           Covered(queue, best, exact, p),
           Passed(queue, best, p, Cardinality(DOMAIN tree.nodes))
    PROVE  Over(queue, best)
<1> DEFINE D == DOMAIN tree.nodes
<1> SUFFICES ASSUME ~Over(queue, best) PROVE FALSE
  OBVIOUS
<1>1. PICK V \in SUBSET D :
          /\ Cardinality(V) = Cardinality(D)
          /\ \A n \in D : Entry(n, p) \in queue => n \notin V
  BY DEF Passed
<1>2. IsFiniteSet(D)
  BY NodesFinite DEF TreeInv, Well, Sound, Repairing, Linked
<1>3. V = D
  <2> HIDE DEF D
  <2> QED
    BY <1>1, <1>2, FS_Subset
<1>4. queue = {}
  BY <1>1, <1>3 DEF Covered
<1> QED
  BY <1>4 DEF Over

(* When the search is over, the best hit beats every key.                  *)
LEMMA SearchBeats ==
    ASSUME TreeInv, NEW p \in Int, NEW queue, NEW best, NEW exact, Exact(exact, p),
           Covered(queue, best, exact, p), Over(queue, best), NEW k \in DOMAIN boxes
    PROVE  Beats(best, exact, k)
<1> SUFFICES ASSUME ~Beats(best, exact, k) PROVE FALSE
  OBVIOUS
<1>1. PICK n \in Above(k) : Entry(n, p) \in queue
  BY DEF Covered
<1>2. Worse(Head(queue)[1], best)
  BY <1>1 DEF Over
<1>3. /\ Head(queue)[1] <= Entry(n, p)[1] /\ Head(queue)[1] \in Nat
  BY <1>1, HeadEntry
<1>4. Entry(n, p)[1] \in Nat /\ exact[k] \in Nat /\ Entry(n, p)[1] <= exact[k]
  BY BoundBelow
<1>5. best.key # None /\ best.distance \in Nat /\ Head(queue)[1] > best.distance
  BY <1>2 DEF Worse, Covered, Exact
<1>6. best.distance < exact[k]
  BY <1>3, <1>4, <1>5
<1> QED
  BY <1>5, <1>6 DEF Beats

LEMMA SearchStarts ==
    ASSUME TreeInv, NEW p \in Int, NEW exact, Exact(exact, p), DOMAIN boxes # {}
    PROVE  /\ Covered({Entry(tree.root, p)}, NoHit, exact, p)
           /\ Passed({Entry(tree.root, p)}, NoHit, p, 0)
<1> DEFINE D == DOMAIN tree.nodes
           queue == {Entry(tree.root, p)}
<1>1. \A k \in DOMAIN boxes : tree.root \in Above(k)
  BY AboveFacts
<1>2. tree.root \in D
  BY <1>1, AboveFacts
<1>3. tree.nodes[tree.root].parent = None
  BY <1>2, LinkedFields DEF TreeInv, Well, Sound, Repairing, Linked
<1>4. NoHit.key = None /\ NoHit = [key |-> NoHit.key, distance |-> NoHit.distance]
  BY DEF NoHit
<1>5. Covered(queue, NoHit, exact, p)
  <2> HIDE DEF NoHit
  <2> QED
    BY <1>1, <1>2, <1>4 DEF Covered
<1>6. \A n \in D : Entry(n, p) \in queue => n = tree.root
  BY <1>2, EntryFields
<1>7. Cardinality({}) = 0 /\ Rising({}) /\ {} \in SUBSET D
  BY FS_EmptySet DEF Rising
<1>8. Passed(queue, NoHit, p, 0)
  <2> HIDE DEF queue, D
  <2>1. \A n \in D : Entry(n, p) \in queue =>
            n \notin {} /\ (tree.nodes[n].parent # None => tree.nodes[n].parent \in {})
    BY <1>3, <1>6
  <2> QED
    BY <1>7, <2>1 DEF Passed, D
<1> QED
  BY <1>5, <1>8

LEMMA MinIs ==
    ASSUME NEW S \in SUBSET Int, NEW x \in S, \A y \in S : x <= y
    PROVE  Min(S) = x
<1>1. \A y \in S : (\A z \in S : y <= z) => y = x
  OBVIOUS
<1> QED
  BY <1>1 DEF Min

(* A hit that beats every key is the least one at the least distance. *)
LEMMA LeastHit ==
    ASSUME TreeInv, NEW p \in Int, NEW best, NEW exact, Exact(exact, p),
           \A k \in DOMAIN boxes : Beats(best, exact, k),
           best = [key |-> best.key, distance |-> best.distance],
           best.key \in DOMAIN boxes, best.distance = exact[best.key]
    PROVE  LET least == Min({exact[k] : k \in DOMAIN boxes})
           IN  best = [key |-> Min({k \in DOMAIN boxes : exact[k] = least}),
                       distance |-> least]
<1> DEFINE S == {exact[k] : k \in DOMAIN boxes}
           b == best.key
           d == best.distance
<1>1. /\ \A k \in DOMAIN boxes : exact[k] \in Nat /\ k \in Nat
      /\ \A k \in DOMAIN boxes : d < exact[k] \/ (d = exact[k] /\ b <= k)
  <2>1. \A k \in DOMAIN boxes : k \in Nat
    BY LeafState, NamesNat DEF Keys
  <2> QED
    BY <2>1 DEF Exact, Beats
<1>2. Min(S) = d
  <2>1. S \in SUBSET Int /\ d \in S /\ \A y \in S : d <= y
    BY <1>1
  <2> HIDE DEF S, d
  <2> QED
    BY <2>1, MinIs
<1> DEFINE K == {k \in DOMAIN boxes : exact[k] = d}
<1>3. Min(K) = b
  <2>1. K \in SUBSET Int /\ b \in K /\ \A y \in K : b <= y
    BY <1>1
  <2> HIDE DEF K, b
  <2> QED
    BY <2>1, MinIs
<1>4. Min({k \in DOMAIN boxes : exact[k] = Min(S)}) = b
  BY <1>2, <1>3
<1> HIDE DEF S
<1> QED
  BY <1>2, <1>4 DEF S

(* The search returns the least key at the least distance. *)
LEMMA NearestFinds ==
    ASSUME TreeInv, NEW p \in Int, NEW exact, Exact(exact, p), DOMAIN boxes # {}
    PROVE  LET least == Min({exact[k] : k \in DOMAIN boxes})
           IN  Nearest(exact, p) = [key |-> Min({k \in DOMAIN boxes : exact[k] = least}),
                                    distance |-> least]
<1> DEFINE N == Cardinality(DOMAIN tree.nodes)
<1>1. N \in Nat
  <2>1. IsFiniteSet(DOMAIN tree.nodes)
    BY NodesFinite DEF TreeInv, Well, Sound, Repairing, Linked
  <2> QED
    BY <2>1, FS_CardinalityType
<1>2. tree.root # None
  BY LeafState
<1>3. PICK f : SearchRounds(f, exact, p)
  BY <1>1, <1>2, SearchRecursion
<1> DEFINE T == {i \in 0..N : /\ Covered(f[i].queue, f[i].best, exact, p)
                              /\ Passed(f[i].queue, f[i].best, p, i)
                              /\ f[i] = [queue |-> f[i].queue, best |-> f[i].best]}
<1>4. 0 \in T
  <2> DEFINE first == {Entry(tree.root, p)}
  <2>1. f[0] = [queue |-> first, best |-> NoHit]
    BY <1>3 DEF SearchRounds
  <2> HIDE DEF first
  <2>2. f[0].queue = first /\ f[0].best = NoHit
    BY <2>1
  <2>3. Covered(first, NoHit, exact, p) /\ Passed(first, NoHit, p, 0)
    BY SearchStarts DEF first
  <2> QED
    BY <1>1, <2>1, <2>2, <2>3
<1>5. ASSUME NEW i \in 0..N, i \in T, i < N PROVE i + 1 \in T
  <2> DEFINE queue == f[i].queue
             best == f[i].best
             u == f[i + 1]
  <2>1. /\ Covered(queue, best, exact, p) /\ Passed(queue, best, p, i)
        /\ f[i] = [queue |-> queue, best |-> best]
    BY <1>5
  <2>2. i + 1 \in 1..N /\ i + 1 - 1 = i /\ i \in Nat /\ i + 1 \in 0..N
    BY <1>1, <1>5
  <2>3. u = SearchStep(f[i], exact, p)
    BY <1>3, <2>2 DEF SearchRounds
  <2> HIDE DEF queue, best
  <2>4. u = SearchStep([queue |-> queue, best |-> best], exact, p)
    BY <2>1, <2>3
  <2> HIDE DEF u
  <2>5. /\ Covered(u.queue, u.best, exact, p) /\ Passed(u.queue, u.best, p, i + 1)
        /\ u = [queue |-> u.queue, best |-> u.best]
    BY <2>1, <2>2, <2>4, SearchRound
  <2> QED
    BY <2>2, <2>5 DEF u
<1>6. N \in T
  <2> HIDE DEF T, N
  <2>1. \A i \in 0..N : i \in T
    BY <1>1, <1>4, <1>5, SegmentInduction
  <2> QED
    BY <1>1, <2>1
<1> DEFINE queue == f[N].queue
           best == f[N].best
<1>7. Covered(queue, best, exact, p) /\ Passed(queue, best, p, N)
  BY <1>6
<1>8. Nearest(exact, p) = best
  BY <1>3 DEF SearchRounds
<1> HIDE DEF queue, best
<1>9. Over(queue, best)
  BY <1>7, SearchStops
<1>10. \A k \in DOMAIN boxes : Beats(best, exact, k)
  BY <1>7, <1>9, SearchBeats
<1>11. /\ best = [key |-> best.key, distance |-> best.distance]
       /\ best.key \in DOMAIN boxes /\ best.distance = exact[best.key]
  BY <1>7, <1>10 DEF Covered, Beats
<1> QED
  BY <1>8, <1>10, <1>11, LeastHit

(* The nearest key (spatial.py: nearest) is the least one at the least     *)
(* exact distance: the best-first search stops early and prunes by the     *)
(* cached boxes, and neither the shape of the tree nor the order of equal  *)
(* bounds shows in its answer.                                             *)
THEOREM NearestAlwaysExact == Spec => []NearestExact
<1>1. TreeInv => NearestExact
  <2> SUFFICES ASSUME TreeInv, DOMAIN boxes # {}, NEW p \in Points,
                      NEW detour \in [DOMAIN boxes -> Detours]
               PROVE  LET exact == [k \in DOMAIN boxes |->
                                       Distance(boxes[k], p) + detour[k]]
                          least == Min({exact[k] : k \in DOMAIN boxes})
                      IN Nearest(exact, p) =
                          [key |-> Min({k \in DOMAIN boxes : exact[k] = least}),
                           distance |-> least]
    BY DEF NearestExact
  <2> DEFINE exact == [k \in DOMAIN boxes |-> Distance(boxes[k], p) + detour[k]]
  <2>1. p \in Int /\ Detours \subseteq Nat
    BY SpatialAssumption
  <2>2. ASSUME NEW k \in DOMAIN boxes
        PROVE  exact[k] \in Nat /\ Distance(boxes[k], p) <= exact[k]
    <3>1. Distance(boxes[k], p) \in Nat
      BY <2>1, LeafState, DistanceFacts DEF Away
    <3>2. detour[k] \in Nat
      BY <2>1
    <3> QED
      BY <3>1, <3>2
  <2>3. Exact(exact, p)
    <3> HIDE DEF exact
    <3> QED
      BY <2>2 DEF Exact
  <2> HIDE DEF exact
  <2>4. LET least == Min({exact[k] : k \in DOMAIN boxes})
        IN  Nearest(exact, p) = [key |-> Min({k \in DOMAIN boxes : exact[k] = least}),
                                 distance |-> least]
    BY <2>1, <2>3, NearestFinds
  <2> QED
    BY <2>4 DEF exact
<1> QED
  BY <1>1, TreeInvariant, PTL

=============================================================================
