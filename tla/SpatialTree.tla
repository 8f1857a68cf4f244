---------------------------- MODULE SpatialTree ----------------------------
(***************************************************************************)
(* AABBTree: the height-balanced tree of bounding boxes behind every       *)
(* overlap and nearest query.  Leaves hold one key each with a padded box; *)
(* branches cache the height, the box and the least key below them, and    *)
(* every insertion, removal and reinsertion repairs those caches on the    *)
(* way up to the root while it rotates.                                    *)
(*                                                                         *)
(* Boxes have one axis here: intersecting, containing and uniting act on   *)
(* each axis alike.  The cost that chooses the leaf to insert next to is   *)
(* left open (ChooseSibling), and so is the order in which a bulk build    *)
(* lays out the keys: the properties hold for any such choice.  Node       *)
(* identifiers are never compared: a leaf is named by its key, and a new   *)
(* branch takes the least free number above the keys.                      *)
(***************************************************************************)
EXTENDS Integers, FiniteSets, FiniteSetsExt

CONSTANTS
    NumKeys,         \* keys 1..NumKeys, ordered as SpatialKey is
    Boxes,           \* exact bounds: records [lo, hi]
    Regions,         \* regions to query
    Points,          \* points whose nearest key is asked
    Detours,         \* by how much an exact distance may exceed its bound
    FatMargin,       \* absolute padding
    RelativeMargin   \* padding per unit of extent

Keys == 1..NumKeys
None == 0
Branches == (NumKeys + 1)..(2 * NumKeys)

ASSUME SpatialAssumption ==
    /\ NumKeys \in Nat \ {0}
    /\ \A b \in Boxes \cup Regions : b \in [lo : Int, hi : Int] /\ b.lo <= b.hi
    /\ Points \subseteq Int /\ Detours \subseteq Nat
    /\ FatMargin \in Nat /\ RelativeMargin \in Nat

VARIABLES
    boxes,  \* key -> exact bounds
    tree    \* root, and node -> parent, children, height, padded box, least key
vars == <<boxes, tree>>

-----------------------------------------------------------------------------
(* Boxes. *)

Intersects(a, b) == a.lo <= b.hi /\ b.lo <= a.hi
Contains(a, b) == a.lo <= b.lo /\ b.hi <= a.hi
United(a, b) == [lo |-> Min({a.lo, b.lo}), hi |-> Max({a.hi, b.hi})]
Expanded(b, by) == [lo |-> b.lo - by, hi |-> b.hi + by]
Distance(b, p) == Max({0, b.lo - p, p - b.hi})

PaddingFor(b) == FatMargin + RelativeMargin * (b.hi - b.lo)
Fatten(b) == Expanded(b, PaddingFor(b))

-----------------------------------------------------------------------------
(* The tree as a value t. *)

EmptyTree == [root |-> None, nodes |-> <<>>]

IsLeaf(t, n) == t.nodes[n].left = None

Leaf(key, box) == [parent |-> None, left |-> None, right |-> None,
                   height |-> 0, box |-> box, least |-> key]

With(t, n, node) == [t EXCEPT !.nodes = [@ EXCEPT ![n] = node]]

Reparented(t, n, parent) == With(t, n, [t.nodes[n] EXCEPT !.parent = parent])

(* A branch and its caches, from its children l and r. *)
Branch(parent, left, right, l, r) ==
    [parent |-> parent, left |-> left, right |-> right,
     height |-> 1 + Max({l.height, r.height}),
     box |-> United(l.box, r.box),
     least |-> Min({l.least, r.least})]

(* _sync *)
Sync(t, n) ==
    LET node == t.nodes[n] IN
    IF IsLeaf(t, n) THEN t
    ELSE With(t, n, Branch(node.parent, node.left, node.right,
                           t.nodes[node.left], t.nodes[node.right]))

(* _replace_child *)
ReplaceChild(t, parent, old, new) ==
    IF parent = None THEN [t EXCEPT !.root = new]
    ELSE LET node == t.nodes[parent] IN
         With(t, parent, IF node.left = old THEN [node EXCEPT !.left = new]
                         ELSE [node EXCEPT !.right = new])

(* Mutant of Taller: the first child goes up, whatever its height. *)
FirstUp(t, first, second) == TRUE

(* Which grandchild stays with the raised child: the taller, and of two    *)
(* equal ones that with the lesser key.                                    *)
Taller(t, first, second) ==
    LET a == t.nodes[first]
        b == t.nodes[second]
    IN a.height > b.height \/ (a.height = b.height /\ a.least <= b.least)

(* The rotation of _balance: the heavy child takes the place of n, which   *)
(* becomes its left child and adopts the shorter grandchild.               *)
Rotate(t, n, heavy) ==
    LET node == t.nodes[heavy]
        up == IF Taller(t, node.left, node.right) THEN node.left ELSE node.right
        down == IF up = node.left THEN node.right ELSE node.left
        above == t.nodes[n].parent
        raised == ReplaceChild(
            With(t, heavy, [node EXCEPT !.parent = above, !.left = n, !.right = up]),
            above, n, heavy)
        lowered == ReplaceChild(
            Reparented(Reparented(raised, n, heavy), down, n), n, heavy, down)
    IN Sync(Sync(lowered, n), heavy)

(* The child of a branch that is two levels above the other, if one is.    *)
Heavy(t, n) ==
    LET node == t.nodes[n]
        tilt == t.nodes[node.right].height - t.nodes[node.left].height
    IN IF tilt > 1 THEN node.right ELSE IF tilt < -1 THEN node.left ELSE None

(* One round of _refit_from at the branch s.at: _balance between two       *)
(* _syncs.                                                                 *)
RefitStep(s) ==
    IF s.at = None THEN s
    ELSE LET synced == Sync(s.tree, s.at)
             heavy == Heavy(synced, s.at)
             top == IF heavy = None THEN s.at ELSE heavy
             balanced == Sync(IF heavy = None THEN synced
                              ELSE Rotate(synced, s.at, heavy), top)
         IN [tree |-> balanced, at |-> balanced.nodes[top].parent]

(* _refit_from: from a changed branch up to the root, which is as many     *)
(* levels away as it is high, or fewer.                                    *)
RefitFrom(t, n) ==
    LET rounds == 1 + t.nodes[t.root].height
        refit[i \in 0..rounds] == IF i = 0 THEN [tree |-> t, at |-> n]
                                  ELSE RefitStep(refit[i - 1])
    IN refit[rounds].tree

(* insert and _insert_leaf beside a leaf. *)
InsertLeaf(t, key, box, sibling) ==
    IF t.root = None
    THEN [root |-> key, nodes |-> [n \in {key} |-> Leaf(key, box)]]
    ELSE LET branch == Min(Branches \ DOMAIN t.nodes)
             above == t.nodes[sibling].parent
             first == Min({sibling, key})
             second == Max({sibling, key})
             nodes == [n \in DOMAIN t.nodes \cup {key} |->
                          IF n = key THEN Leaf(key, box) ELSE t.nodes[n]]
             linked == [n \in DOMAIN nodes \cup {branch} |->
                 IF n = branch
                 THEN Branch(above, first, second, nodes[first], nodes[second])
                 ELSE IF n \in {sibling, key}
                 THEN [nodes[n] EXCEPT !.parent = branch]
                 ELSE nodes[n]]
         IN RefitFrom(ReplaceChild([t EXCEPT !.nodes = linked], above, sibling, branch),
                      branch)

(* _detach_leaf: the sibling takes the place of the parent.  The two nodes *)
(* that go are dropped first, for the refit does not come to them.         *)
DetachLeaf(t, leaf) ==
    IF leaf = t.root THEN EmptyTree
    ELSE LET parent == t.nodes[leaf].parent
             sibling == IF t.nodes[parent].left = leaf THEN t.nodes[parent].right
                        ELSE t.nodes[parent].left
             above == t.nodes[parent].parent
             rest == [n \in DOMAIN t.nodes \ {leaf, parent} |->
                         IF n = sibling THEN [t.nodes[n] EXCEPT !.parent = above]
                         ELSE t.nodes[n]]
         IN RefitFrom(ReplaceChild([t EXCEPT !.nodes = rest], above, parent, sibling),
                      above)

(* _choose_sibling descends by cost to some leaf. *)
ChooseSibling(t) ==
    IF t.root = None THEN {None} ELSE {n \in DOMAIN t.nodes : IsLeaf(t, n)}

(* _build_balanced, of the keys first..last of an order: split at the      *)
(* middle.  The code sorts every part anew, by the axis on which it is     *)
(* widest; whatever it does, the leaves end up in some order.  A branch is *)
(* numbered by the place of its split, so no two share a number.           *)
Joined(l, r, branch) ==
    [root |-> branch,
     nodes |-> [n \in {branch} \cup DOMAIN l.nodes \cup DOMAIN r.nodes |->
         IF n = branch THEN Branch(None, l.root, r.root, l.nodes[l.root], r.nodes[r.root])
         ELSE LET node == IF n \in DOMAIN l.nodes THEN l.nodes[n] ELSE r.nodes[n]
              IN IF n \in {l.root, r.root} THEN [node EXCEPT !.parent = branch]
                 ELSE node]]

BuildBalanced(bounds, order) ==
    LET size == Cardinality(DOMAIN bounds)
        built[part \in {p \in (1..size) \X (1..size) : p[1] <= p[2]}] ==
            LET first == part[1]
                last == part[2]
                middle == first + (last - first + 1) \div 2 - 1
                key == order[first]
            IN IF first = last
               THEN [root |-> key, nodes |-> [n \in {key} |-> Leaf(key, Fatten(bounds[key]))]]
               ELSE Joined(built[<<first, middle>>], built[<<middle + 1, last>>],
                           NumKeys + middle)
    IN IF size = 0 THEN EmptyTree ELSE built[<<1, size>>]

-----------------------------------------------------------------------------
(* Mutations. *)

(* An index starts from whatever the model holds. *)
Init ==
    /\ boxes \in UNION {[S -> Boxes] : S \in SUBSET Keys}
    /\ \E order \in Bijection(1..Cardinality(DOMAIN boxes), DOMAIN boxes) :
           tree = BuildBalanced(boxes, order)

Put(key, bounds) ==
    boxes' = [k \in DOMAIN boxes \cup {key} |->
                 IF k = key THEN bounds ELSE boxes[k]]

Insert(key, bounds) ==
    /\ key \notin DOMAIN boxes
    /\ Put(key, bounds)
    /\ \E sibling \in ChooseSibling(tree) :
           tree' = InsertLeaf(tree, key, Fatten(bounds), sibling)

Remove(key) ==
    /\ key \in DOMAIN boxes
    /\ boxes' = [k \in DOMAIN boxes \ {key} |-> boxes[k]]
    /\ tree' = DetachLeaf(tree, key)

(* How much larger than needed a leaf may stay. *)
Limit(bounds) == Expanded(Fatten(bounds), 4 * PaddingFor(bounds))

(* Mutants of Absorbed: without the limit; without the exact box. *)
AbsorbedUnlimited(current, bounds) == Contains(current, bounds)
AbsorbedUnchecked(current, bounds) == Contains(Limit(bounds), current)

(* The padded leaf still fits: only the exact box changes. *)
Absorbed(current, bounds) ==
    Contains(current, bounds) /\ Contains(Limit(bounds), current)

Update(key, bounds) ==
    /\ key \in DOMAIN boxes
    /\ Put(key, bounds)
    /\ IF Absorbed(tree.nodes[key].box, bounds)
       THEN UNCHANGED tree
       ELSE LET rest == DetachLeaf(tree, key) IN
            \E sibling \in ChooseSibling(rest) :
                tree' = InsertLeaf(rest, key, Fatten(bounds), sibling)

Next ==
    \E key \in Keys :
        \/ \E bounds \in Boxes : Insert(key, bounds) \/ Update(key, bounds)
        \/ Remove(key)

Spec == Init /\ [][Next]_vars

-----------------------------------------------------------------------------
(* Queries. *)

(* _query_one: subtrees whose box misses the region are skipped. *)
Query(region) ==
    LET found[n \in DOMAIN tree.nodes] ==
            IF ~Intersects(tree.nodes[n].box, region) THEN {}
            ELSE IF IsLeaf(tree, n) THEN {k \in {n} : Intersects(boxes[k], region)}
            ELSE found[tree.nodes[n].left] \cup found[tree.nodes[n].right]
    IN IF tree.root = None THEN {} ELSE found[tree.root]

(* One entry of the queue of `nearest`: lower bound, least key, node. *)
Entry(n, p) == <<Distance(tree.nodes[n].box, p), tree.nodes[n].least, n>>

Precedes(a, b) ==
    \/ a[1] < b[1]
    \/ a[1] = b[1] /\ (a[2] < b[2] \/ (a[2] = b[2] /\ a[3] <= b[3]))

NoHit == [key |-> None, distance |-> 0]

Worse(d, best) == best.key # None /\ d > best.distance

(* Mutant of Improves: the first of two equal distances stays. *)
ImprovesStrictly(d, key, best) == best.key = None \/ d < best.distance

(* A hit replaces the best one so far; equal distances fall to the lesser  *)
(* key.                                                                    *)
Improves(d, key, best) ==
    \/ best.key = None \/ d < best.distance
    \/ d = best.distance /\ key < best.key

(* One round of `nearest`: the entry at the head of the queue.  The search *)
(* ends when there is none, or none that can improve.                      *)
SearchStep(s, exact, p) ==
    LET head == CHOOSE e \in s.queue : \A f \in s.queue : Precedes(e, f)
        n == head[3]
        rest == s.queue \ {head}
        kids == {Entry(tree.nodes[n].left, p), Entry(tree.nodes[n].right, p)}
    IN IF s.queue = {} \/ Worse(head[1], s.best) THEN s
       ELSE IF ~IsLeaf(tree, n)
       THEN [s EXCEPT !.queue = rest \cup {e \in kids : ~Worse(e[1], s.best)}]
       ELSE IF ~Worse(Distance(boxes[n], p), s.best) /\ Improves(exact[n], n, s.best)
       THEN [queue |-> rest, best |-> [key |-> n, distance |-> exact[n]]]
       ELSE [s EXCEPT !.queue = rest]

(* nearest: best first; exact[k] is the distance the evaluator returns.    *)
Nearest(exact, p) ==
    LET rounds == Cardinality(DOMAIN tree.nodes)
        search[i \in 0..rounds] ==
            IF i = 0 THEN [queue |-> {Entry(tree.root, p)}, best |-> NoHit]
            ELSE SearchStep(search[i - 1], exact, p)
    IN IF tree.root = None THEN NoHit ELSE search[rounds].best

-----------------------------------------------------------------------------
(* Properties. *)

(* What `validate` asserts, after every insertion, removal and update: the *)
(* links form one tree over exactly the stored keys, no branch leans by    *)
(* more than one level, and every cached height, box and least key is that *)
(* of the children, although a rotation changes several on the way up.     *)
TreeSound ==
    /\ {n \in DOMAIN tree.nodes : IsLeaf(tree, n)} = DOMAIN boxes
    /\ IF tree.root = None THEN DOMAIN tree.nodes = {}
       ELSE tree.root \in DOMAIN tree.nodes /\ tree.nodes[tree.root].parent = None
    /\ \A n \in DOMAIN tree.nodes :
        LET node == tree.nodes[n] IN
        /\ n # tree.root =>
               /\ node.parent \in DOMAIN tree.nodes
               /\ n \in {tree.nodes[node.parent].left, tree.nodes[node.parent].right}
        /\ IF IsLeaf(tree, n)
           THEN /\ node.right = None /\ node.height = 0 /\ node.least = n
                /\ Contains(node.box, boxes[n])
           ELSE /\ {node.left, node.right} \subseteq DOMAIN tree.nodes
                /\ node.left # node.right
                /\ LET l == tree.nodes[node.left]
                       r == tree.nodes[node.right]
                   IN /\ l.parent = n /\ r.parent = n
                      /\ l.height - r.height \in -1..1
                      /\ node = Branch(node.parent, node.left, node.right, l, r)

(* A leaf never stays much larger than its entity needs: "a once-large     *)
(* leaf" does not remain huge "forever after its exact box shrinks", by    *)
(* however many small updates it got there.                                *)
LeavesStayTight ==
    \A k \in DOMAIN boxes : Contains(Limit(boxes[k]), tree.nodes[k].box)

(* A query returns exactly the keys whose current bounds meet the region,  *)
(* whatever the history of padding, reinsertions and rotations.            *)
QueriesExact ==
    \A region \in Regions :
        Query(region) = {k \in DOMAIN boxes : Intersects(boxes[k], region)}

(* `nearest` returns the least key among those at the least exact          *)
(* distance, "independent of tree shape", for any distances not below the  *)
(* bounds.                                                                 *)
NearestExact ==
    DOMAIN boxes # {} =>
        \A p \in Points : \A detour \in [DOMAIN boxes -> Detours] :
            LET exact == [k \in DOMAIN boxes |->
                             Distance(boxes[k], p) + detour[k]]
                least == Min({exact[k] : k \in DOMAIN boxes})
            IN Nearest(exact, p) =
                [key |-> Min({k \in DOMAIN boxes : exact[k] = least}),
                 distance |-> least]

=============================================================================
