---------------------------- MODULE FeatureProofs ----------------------------
(***************************************************************************)
(* What FeatureHistory.tla guarantees for every number of features, edits  *)
(* and regenerations, every set of positions and moves: the published      *)
(* geometry is well formed, an identifier never comes to name another      *)
(* entity, nothing outlives its feature, outputs change only when they     *)
(* have to, references to old outputs lead to the new ones, no ordinary    *)
(* history is refused, and without transforms a regeneration makes exactly *)
(* what the definitions say.                                               *)
(***************************************************************************)
EXTENDS FeatureHistory, NaturalRecursion, FiniteSetTheorems

Entity(x) == x = Point(x.at, x.moves) \/ x = Line(x.from, x.to)

(* A geometry that regeneration may be given: its identifiers are below    *)
(* the counter, its lines end at live entities, and what is retired is not *)
(* live.                                                                   *)
Sound(g) ==
    /\ g = [ents |-> g.ents, hist |-> g.hist, next |-> g.next]
    /\ g.next \in Nat \ {0}
    /\ Live(g) \subseteq 1..(g.next - 1)
    /\ DOMAIN g.hist \subseteq 1..(g.next - 1)
    /\ Live(g) \cap DOMAIN g.hist = {}
    /\ \A e \in Live(g) : Entity(g.ents[e]) /\ Tips(g, e) \subseteq Live(g)

-----------------------------------------------------------------------------
(* Entities *)

LEMMA EntityForms ==
    ASSUME NEW a, NEW b
    PROVE  /\ Entity(Point(a, b)) /\ Point(a, b).kind = "vertex"
           /\ Point(a, b).at = a /\ Point(a, b).moves = b
           /\ Entity(Line(a, b)) /\ Line(a, b).kind = "edge"
           /\ Line(a, b).from = a /\ Line(a, b).to = b
BY DEF Entity, Point, Line

LEMMA EntityKinds ==
    ASSUME NEW x, Entity(x)
    PROVE  /\ x.kind \in {"vertex", "edge"}
           /\ x.kind = "vertex" <=> x = Point(x.at, x.moves)
           /\ x.kind = "edge" <=> x = Line(x.from, x.to)
<1>1. CASE x = Point(x.at, x.moves)
  <2>1. x.kind = "vertex"
    BY <1>1 DEF Point
  <2>2. x # Line(x.from, x.to)
    BY <2>1 DEF Line
  <2> QED
    BY <1>1, <2>1, <2>2
<1>2. CASE x = Line(x.from, x.to)
  <2>1. x.kind = "edge"
    BY <1>2 DEF Line
  <2>2. x # Point(x.at, x.moves)
    BY <2>1 DEF Point
  <2> QED
    BY <1>2, <2>1, <2>2
<1> QED
  BY <1>1, <1>2 DEF Entity

LEMMA MergedValues ==
    ASSUME NEW f, NEW g
    PROVE  /\ DOMAIN Merged(f, g) = DOMAIN f \cup DOMAIN g
           /\ \A x \in DOMAIN f : Merged(f, g)[x] = f[x]
           /\ \A x \in DOMAIN g \ DOMAIN f : Merged(f, g)[x] = g[x]
BY DEF Merged

LEMMA SingleValue ==
    ASSUME NEW x, NEW y
    PROVE  DOMAIN Single(x, y) = {x} /\ Single(x, y)[x] = y
BY DEF Single

(* m shows y from behind f. *)
Shows(m, f, x, y) == x \in DOMAIN m /\ (x \notin DOMAIN f => m[x] = y)

LEMMA MergedShows ==
    ASSUME NEW f, NEW g, NEW x \in DOMAIN g, NEW m, m = Merged(f, g)
    PROVE  Shows(m, f, x, g[x])
BY DEF Merged, Shows

(* An entry that gives way, and one that takes precedence. *)
LEMMA MergedSingle ==
    ASSUME NEW f, NEW x, NEW y
    PROVE  /\ DOMAIN Merged(f, Single(x, y)) = DOMAIN f \cup {x}
           /\ \A z \in DOMAIN f : Merged(f, Single(x, y))[z] = f[z]
           /\ x \notin DOMAIN f => Merged(f, Single(x, y))[x] = y
<1> DEFINE s == Single(x, y)
<1>1. DOMAIN s = {x} /\ s[x] = y
  BY SingleValue
<1>2. /\ DOMAIN Merged(f, s) = DOMAIN f \cup DOMAIN s
      /\ \A z \in DOMAIN f : Merged(f, s)[z] = f[z]
      /\ \A z \in DOMAIN s \ DOMAIN f : Merged(f, s)[z] = s[z]
  BY MergedValues
<1> HIDE DEF s
<1>3. /\ DOMAIN Merged(f, s) = DOMAIN f \cup {x}
      /\ \A z \in DOMAIN f : Merged(f, s)[z] = f[z]
      /\ x \notin DOMAIN f => Merged(f, s)[x] = y
  BY <1>1, <1>2
<1> QED
  BY <1>3 DEF s

(* m is f, but for x, which it leads to y. *)
Overrides(m, f, x, y) ==
    /\ DOMAIN m = DOMAIN f \cup {x} /\ m[x] = y
    /\ \A z \in DOMAIN f : z # x => m[z] = f[z]

LEMMA SingleMerged ==
    ASSUME NEW f, NEW x, NEW y, NEW m, m = Merged(Single(x, y), f)
    PROVE  Overrides(m, f, x, y)
<1> DEFINE s == Single(x, y)
<1>1. DOMAIN s = {x} /\ s[x] = y
  BY SingleValue
<1>2. /\ DOMAIN Merged(s, f) = DOMAIN s \cup DOMAIN f
      /\ \A z \in DOMAIN s : Merged(s, f)[z] = s[z]
      /\ \A z \in DOMAIN f \ DOMAIN s : Merged(s, f)[z] = f[z]
  BY MergedValues
<1> HIDE DEF s
<1>3. m = Merged(s, f)
  BY DEF s
<1> QED
  BY <1>1, <1>2, <1>3 DEF Overrides

-----------------------------------------------------------------------------
(* Following replacements *)

(* The rounds of Descend, and where they end. *)
Rounds(hist, S, reach) ==
    LET N == Cardinality(DOMAIN hist)
    IN  /\ N \in Nat /\ Descend(hist, S) = reach[N] /\ reach[0] = S
        /\ \A n \in 1..N :
               reach[n] = reach[n - 1]
                   \cup UNION {hist[x] : x \in reach[n - 1] \cap DOMAIN hist}

LEMMA DescendRounds ==
    ASSUME NEW hist, NEW S, IsFiniteSet(DOMAIN hist)
    PROVE  \E reach : Rounds(hist, S, reach)
<1> DEFINE N == Cardinality(DOMAIN hist)
           Round(A) == A \cup UNION {hist[x] : x \in A \cap DOMAIN hist}
           U == S \cup UNION {hist[x] : x \in DOMAIN hist}
           V == SUBSET U
           g == [p \in V \X (1..N) |-> Round(p[1])]
           Def(f) == [n \in 0..N |-> IF n = 0 THEN S ELSE Round(f[n - 1])]
           R == CHOOSE f : f = Def(f)
<1>1. N \in Nat
  BY FS_CardinalityType
<1>2. g \in [V \X (1..N) -> V]
  OBVIOUS
<1>3. S \in V
  OBVIOUS
<1>4. PICK f \in [0..N -> V] :
          f[0] = S /\ \A n \in 1..N : f[n] = g[<<f[n - 1], n>>]
  <2> HIDE DEF g, V, N
  <2>1. PICK f : Iterates(f, V, S, N, g)
    BY <1>1, <1>2, <1>3, SegmentRecursion
  <2> QED
    BY <2>1 DEF Iterates
<1>5. f = Def(f)
  <2> SUFFICES ASSUME NEW n \in 1..N PROVE f[n] = Round(f[n - 1])
    <3> HIDE DEF Round, N
    <3> QED
      BY <1>1, <1>4
  <2>1. f[n - 1] \in V
    <3> HIDE DEF N, V
    <3> QED
      BY <1>1, <1>4
  <2> QED
    BY <1>4, <2>1
<1>6. R = Def(R)
  <2> HIDE DEF Def
  <2> QED
    BY <1>5
<1>7. Descend(hist, S) = R[N]
  BY DEF Descend
<1>8. R[0] = S /\ \A n \in 1..N : R[n] = Round(R[n - 1])
  <2> HIDE DEF R, Round, N
  <2> QED
    BY <1>1, <1>6
<1>9. Rounds(hist, S, R)
  <2> HIDE DEF R
  <2> QED
    BY <1>1, <1>7, <1>8 DEF Rounds
<1> HIDE DEF R
<1> QED
  BY <1>9

LEMMA DescendAtRest ==
    ASSUME NEW hist, NEW S, IsFiniteSet(DOMAIN hist), S \cap DOMAIN hist = {}
    PROVE  Descend(hist, S) = S
<1> DEFINE N == Cardinality(DOMAIN hist)
<1>0. PICK reach : Rounds(hist, S, reach)
  BY DescendRounds
<1>1. /\ N \in Nat /\ Descend(hist, S) = reach[N] /\ reach[0] = S
      /\ \A n \in 1..N :
             reach[n] = reach[n - 1]
                 \cup UNION {hist[x] : x \in reach[n - 1] \cap DOMAIN hist}
  BY <1>0 DEF Rounds
<1> DEFINE T == {n \in 0..N : reach[n] = S}
<1> HIDE DEF N
<1>2. 0 \in T
  BY <1>1
<1>3. ASSUME NEW n \in 0..N, n \in T, n < N PROVE n + 1 \in T
  <2>1. n + 1 \in 1..N /\ n + 1 - 1 = n
    BY <1>1, <1>3
  <2>2. reach[n + 1] = reach[n] \cup UNION {hist[x] : x \in reach[n] \cap DOMAIN hist}
    BY <1>1, <2>1
  <2> QED
    BY <1>3, <2>1, <2>2
<1>4. N \in T
  <2> HIDE DEF T
  <2> QED
    BY <1>1, <1>2, <1>3, SegmentInduction
<1> QED
  BY <1>1, <1>4

LEMMA DescendOnce ==
    ASSUME NEW hist, NEW o \in DOMAIN hist, IsFiniteSet(DOMAIN hist),
           hist[o] \cap DOMAIN hist = {}
    PROVE  Descend(hist, {o}) = {o} \cup hist[o]
<1> DEFINE N == Cardinality(DOMAIN hist)
<1>0. PICK reach : Rounds(hist, {o}, reach)
  BY DescendRounds
<1>1. /\ N \in Nat /\ Descend(hist, {o}) = reach[N] /\ reach[0] = {o}
      /\ \A n \in 1..N :
             reach[n] = reach[n - 1]
                 \cup UNION {hist[x] : x \in reach[n - 1] \cap DOMAIN hist}
  BY <1>0 DEF Rounds
<1>2. N # 0
  BY FS_EmptySet
<1> DEFINE T == {n \in 0..N : n > 0 => reach[n] = {o} \cup hist[o]}
<1> HIDE DEF N
<1>3. 0 \in T
  BY <1>1
<1>4. ASSUME NEW n \in 0..N, n \in T, n < N PROVE n + 1 \in T
  <2>1. n + 1 \in 1..N /\ n + 1 - 1 = n
    BY <1>1, <1>4
  <2>2. reach[n + 1] = reach[n] \cup UNION {hist[x] : x \in reach[n] \cap DOMAIN hist}
    BY <1>1, <2>1
  <2>3. reach[n] = {o} \/ reach[n] = {o} \cup hist[o]
    BY <1>1, <1>4
  <2>4. reach[n] \cap DOMAIN hist = {o}
    BY <2>3
  <2>5. UNION {hist[x] : x \in {o}} = hist[o]
    OBVIOUS
  <2>6. reach[n + 1] = {o} \cup hist[o]
    BY <2>2, <2>3, <2>4, <2>5
  <2> QED
    BY <2>1, <2>6
<1>5. N \in T
  <2> HIDE DEF T
  <2> QED
    BY <1>1, <1>3, <1>4, SegmentInduction
<1> QED
  BY <1>1, <1>2, <1>5

LEMMA HistoryFinite ==
    ASSUME NEW g, Sound(g)
    PROVE  IsFiniteSet(DOMAIN g.hist)
<1>1. 1 \in Int /\ g.next - 1 \in Int /\ DOMAIN g.hist \subseteq 1..(g.next - 1)
  BY DEF Sound
<1> QED
  BY <1>1, FS_Interval, FS_Subset

(* A live identifier names itself. *)
LEMMA ResolveLive ==
    ASSUME NEW g, Sound(g), NEW e \in Live(g)
    PROVE  Resolve(g, e) = {e}
<1>1. {e} \cap DOMAIN g.hist = {}
  BY DEF Sound
<1>2. Descend(g.hist, {e}) = {e}
  BY <1>1, HistoryFinite, DescendAtRest
<1> QED
  BY <1>1, <1>2 DEF Resolve

(* The closure is live, and holds every live entity it is asked for with   *)
(* its end points.                                                         *)
LEMMA ClosureLive ==
    ASSUME NEW g, Sound(g), NEW S
    PROVE  /\ Closure(g, S) \subseteq Live(g)
           /\ \A e \in S \cap Live(g) : {e} \cup Tips(g, e) \subseteq Closure(g, S)
<1> DEFINE found == UNION {Resolve(g, e) : e \in S}
<1>1. found \subseteq Live(g)
  BY DEF Resolve
<1>2. Closure(g, S) = found \cup UNION {Tips(g, e) : e \in found}
  BY DEF Closure
<1>3. \A e \in S \cap Live(g) : e \in found
  BY ResolveLive
<1> HIDE DEF found
<1> QED
  BY <1>1, <1>2, <1>3 DEF Sound

LEMMA ClosureOfLive ==
    ASSUME NEW g, Sound(g), NEW S, S \subseteq Live(g)
    PROVE  Closure(g, S) = S \cup UNION {Tips(g, e) : e \in S}
<1>1. UNION {Resolve(g, e) : e \in S} = S
  BY ResolveLive
<1> QED
  BY <1>1 DEF Closure

-----------------------------------------------------------------------------
(* Geometries that grow and shrink *)

(* w comes from b by additions and moves. *)
Grown(b, w) ==
    /\ Sound(w) /\ w.hist = b.hist /\ b.next <= w.next
    /\ Live(b) \subseteq Live(w)
    /\ \A e \in Live(w) : e \in Live(b) \/ e >= b.next
    /\ \A e \in Live(b) : Unmoved(w.ents[e]) = Unmoved(b.ents[e])

LEMMA GrownReflexive ==
    ASSUME NEW g, Sound(g)
    PROVE  Grown(g, g)
BY DEF Grown, Sound

LEMMA GrownTransitive ==
    ASSUME NEW a, NEW b, NEW c, Sound(a), Grown(a, b), Grown(b, c)
    PROVE  Grown(a, c)
<1>1. a.next \in Nat /\ b.next \in Nat /\ c.next \in Nat
  BY DEF Grown, Sound
<1>2. Live(c) \subseteq Nat
  BY DEF Grown, Sound
<1> QED
  BY <1>1, <1>2 DEF Grown

LEMMA AddEffect ==
    ASSUME NEW g, Sound(g), NEW x, Entity(x),
           x.kind = "edge" => x.from \in Live(g) /\ x.to \in Live(g)
    PROVE  /\ Grown(g, Add(g, x))
           /\ Live(Add(g, x)) = Live(g) \cup {g.next}
           /\ Add(g, x).next = g.next + 1
           /\ Add(g, x).ents[g.next] = x
           /\ \A e \in Live(g) : Add(g, x).ents[e] = g.ents[e]
<1> DEFINE h == Add(g, x)
           grown == Merged(g.ents, Single(g.next, x))
<1>1. h = [ents |-> grown, hist |-> g.hist, next |-> g.next + 1]
  <2>1. g = [ents |-> g.ents, hist |-> g.hist, next |-> g.next]
    BY DEF Sound
  <2>2. h = [g EXCEPT !.ents = grown, !.next = g.next + 1]
    BY DEF Add
  <2> HIDE DEF h, grown
  <2> QED
    BY <2>1, <2>2
<1>2. g.next \in Nat \ {0} /\ g.next \notin Live(g)
  BY DEF Sound
<1>3. /\ DOMAIN grown = Live(g) \cup {g.next} /\ grown[g.next] = x
      /\ \A e \in Live(g) : grown[e] = g.ents[e]
  <2>1. DOMAIN Single(g.next, x) = {g.next} /\ Single(g.next, x)[g.next] = x
    BY SingleValue
  <2>2. /\ DOMAIN grown = DOMAIN g.ents \cup DOMAIN Single(g.next, x)
        /\ \A e \in DOMAIN g.ents : grown[e] = g.ents[e]
        /\ \A e \in DOMAIN Single(g.next, x) \ DOMAIN g.ents :
               grown[e] = Single(g.next, x)[e]
    BY MergedValues
  <2> HIDE DEF grown
  <2> QED
    BY <1>2, <2>1, <2>2 DEF Live
<1> HIDE DEF grown
<1>4. /\ h.ents = grown /\ h.hist = g.hist /\ h.next = g.next + 1
      /\ h = [ents |-> h.ents, hist |-> h.hist, next |-> h.next]
  BY <1>1
<1> HIDE DEF h
<1>5. Live(h) = Live(g) \cup {g.next}
  BY <1>3, <1>4 DEF Live
<1>6. ASSUME NEW e \in Live(h)
      PROVE  Entity(h.ents[e]) /\ Tips(h, e) \subseteq Live(h)
  <2>1. CASE e \in Live(g)
    BY <1>3, <1>4, <1>5, <2>1 DEF Sound, Tips, IsEdge
  <2>2. CASE e = g.next
    BY <1>3, <1>4, <1>5, <2>2 DEF Tips, IsEdge
  <2> QED
    BY <1>5, <2>1, <2>2
<1>7. Sound(h)
  <2>1. h.next \in Nat \ {0}
    BY <1>2, <1>4
  <2>2. Live(h) \subseteq 1..(h.next - 1) /\ DOMAIN h.hist \subseteq 1..(h.next - 1)
    BY <1>2, <1>4, <1>5 DEF Sound
  <2>3. Live(h) \cap DOMAIN h.hist = {}
    BY <1>2, <1>4, <1>5 DEF Sound
  <2> QED
    BY <1>4, <1>6, <2>1, <2>2, <2>3 DEF Sound
<1>8. Grown(g, h)
  BY <1>2, <1>3, <1>4, <1>5, <1>7 DEF Grown
<1> QED
  BY <1>3, <1>4, <1>5, <1>8 DEF h

LEMMA MovedEntity ==
    ASSUME NEW x, Entity(x), x.kind # "edge", NEW m
    PROVE  /\ Entity(Moved(x, m)) /\ Moved(x, m).kind = "vertex"
           /\ Unmoved(Moved(x, m)) = Unmoved(x)
<1>1. x = Point(x.at, x.moves)
  BY EntityKinds
<1> DEFINE y == Moved(x, m)
<1>2. y = Point(x.at, Append(x.moves, m))
  BY <1>1 DEF Point, Moved
<1> HIDE DEF y
<1>3. y.at = x.at /\ y.kind = "vertex" /\ x.kind = "vertex" /\ Entity(y)
  BY <1>1, <1>2, EntityForms
<1>4. Unmoved(y) = Unmoved(x)
  BY <1>3 DEF Unmoved
<1> QED
  BY <1>3, <1>4 DEF y

LEMMA ShiftEffect ==
    ASSUME NEW g, Sound(g), NEW S, NEW m
    PROVE  /\ Grown(g, Shift(g, S, m))
           /\ Live(Shift(g, S, m)) = Live(g)
           /\ Shift(g, S, m).next = g.next
           /\ \A e \in Live(g) : Tips(Shift(g, S, m), e) = Tips(g, e)
<1> DEFINE h == Shift(g, S, m)
           moved == {v \in Closure(g, S) : ~IsEdge(g, v)}
           shifted == [e \in Live(g) |->
               IF e \in moved THEN Moved(g.ents[e], m) ELSE g.ents[e]]
<1>1. h = [ents |-> shifted, hist |-> g.hist, next |-> g.next]
  <2>1. g = [ents |-> g.ents, hist |-> g.hist, next |-> g.next]
    BY DEF Sound
  <2>2. h = [g EXCEPT !.ents = shifted]
    BY DEF Shift
  <2> HIDE DEF h, shifted
  <2> QED
    BY <2>1, <2>2
<1>2. /\ h.ents = shifted /\ h.hist = g.hist /\ h.next = g.next
      /\ h = [ents |-> h.ents, hist |-> h.hist, next |-> h.next]
  BY <1>1
<1>3. Live(h) = Live(g)
  BY <1>2 DEF Live
<1> HIDE DEF h
<1>4. ASSUME NEW e \in Live(g)
      PROVE  /\ Entity(h.ents[e]) /\ Tips(h, e) = Tips(g, e)
             /\ Unmoved(h.ents[e]) = Unmoved(g.ents[e])
  <2>1. Entity(g.ents[e])
    BY DEF Sound
  <2>2. CASE e \in moved
    <3>1. h.ents[e] = Moved(g.ents[e], m)
      BY <1>2, <2>2
    <3>2. g.ents[e].kind # "edge"
      BY <2>2 DEF IsEdge
    <3>3. Entity(h.ents[e]) /\ h.ents[e].kind = "vertex"
              /\ Unmoved(h.ents[e]) = Unmoved(g.ents[e])
      <4> HIDE DEF moved, shifted
      <4> QED
        BY <2>1, <3>1, <3>2, MovedEntity
    <3> QED
      BY <3>2, <3>3 DEF Tips, IsEdge
  <2>3. CASE e \notin moved
    <3>1. h.ents[e] = g.ents[e]
      BY <1>2, <2>3
    <3> QED
      BY <2>1, <3>1 DEF Tips, IsEdge
  <2> QED
    BY <2>2, <2>3
<1> HIDE DEF moved, shifted
<1>5. Sound(h)
  BY <1>2, <1>3, <1>4 DEF Sound
<1>6. Grown(g, h)
  <2>1. g.next <= h.next
    BY <1>2 DEF Sound
  <2> QED
    BY <1>2, <1>3, <1>4, <1>5, <2>1 DEF Grown
<1> QED
  BY <1>2, <1>3, <1>4, <1>6 DEF h

LEMMA RemoveEffect ==
    ASSUME NEW g, Sound(g), NEW S, Removable(g, S)
    PROVE  /\ Sound(RemoveExact(g, S))
           /\ Live(RemoveExact(g, S)) = Live(g) \ S
           /\ RemoveExact(g, S).hist = g.hist
           /\ RemoveExact(g, S).next = g.next
           /\ \A e \in Live(g) \ S : RemoveExact(g, S).ents[e] = g.ents[e]
<1> DEFINE h == RemoveExact(g, S)
           rest == [e \in Live(g) \ S |-> g.ents[e]]
<1>1. h = [ents |-> rest, hist |-> g.hist, next |-> g.next]
  BY DEF RemoveExact, Without, Sound, Live
<1>2. /\ h.ents = rest /\ h.hist = g.hist /\ h.next = g.next
      /\ h = [ents |-> h.ents, hist |-> h.hist, next |-> h.next]
  BY <1>1
<1>3. Live(h) = Live(g) \ S /\ \A e \in Live(g) \ S : h.ents[e] = g.ents[e]
  BY <1>2 DEF Live
<1> HIDE DEF h, rest
<1>4. ASSUME NEW e \in Live(h)
      PROVE  Entity(h.ents[e]) /\ Tips(h, e) \subseteq Live(h)
  <2>1. Tips(h, e) = Tips(g, e)
    BY <1>3 DEF Tips, IsEdge
  <2> QED
    BY <1>3, <2>1 DEF Sound, Removable
<1>5. Sound(h)
  BY <1>2, <1>3, <1>4 DEF Sound
<1> QED
  BY <1>2, <1>3, <1>5 DEF h

LEMMA RecordedEffect ==
    ASSUME NEW g, Sound(g), NEW entries, Recordable(g, entries),
           DOMAIN entries \subseteq 1..(g.next - 1)
    PROVE  /\ Sound(Recorded(g, entries))
           /\ ValidHistory(Recorded(g, entries))
           /\ Recorded(g, entries).ents = g.ents
           /\ Recorded(g, entries).next = g.next
           /\ Recorded(g, entries).hist = Merged(g.hist, entries)
<1> DEFINE h == Recorded(g, entries)
<1>1. h = [ents |-> g.ents, hist |-> Merged(g.hist, entries), next |-> g.next]
  BY DEF Recorded, Sound
<1>2. /\ h.ents = g.ents /\ h.hist = Merged(g.hist, entries) /\ h.next = g.next
      /\ h = [ents |-> h.ents, hist |-> h.hist, next |-> h.next]
  BY <1>1
<1>3. ValidHistory(h)
  BY DEF Recordable
<1>4. DOMAIN h.hist = DOMAIN g.hist \cup DOMAIN entries
  BY <1>2, MergedValues
<1> HIDE DEF h
<1>5. Live(h) = Live(g) /\ \A e \in Live(h) : Tips(h, e) = Tips(g, e)
  BY <1>2 DEF Live, Tips, IsEdge
<1>6. Live(h) \cap DOMAIN h.hist = {}
  BY <1>3 DEF ValidHistory
<1>7. DOMAIN h.hist \subseteq 1..(h.next - 1)
  BY <1>2, <1>4 DEF Sound
<1>8. Sound(h)
  BY <1>2, <1>5, <1>6, <1>7 DEF Sound
<1> QED
  BY <1>2, <1>3, <1>8 DEF h

LEMMA ReservedEffect ==
    ASSUME NEW g, Sound(g), NEW n \in Nat
    PROVE  /\ Sound(Reserved(g, n))
           /\ Live(Reserved(g, n)) = Live(g)
           /\ Reserved(g, n).ents = g.ents
           /\ Reserved(g, n).hist = g.hist
           /\ Reserved(g, n).next \in Nat
           /\ Reserved(g, n).next >= n /\ Reserved(g, n).next >= g.next
<1> DEFINE h == Reserved(g, n)
           top == IF n > g.next THEN n ELSE g.next
<1>1. h = [ents |-> g.ents, hist |-> g.hist, next |-> top]
  BY DEF Reserved, Sound
<1>2. top \in Nat \ {0} /\ top >= n /\ top >= g.next /\ g.next \in Nat
  BY DEF Sound
<1>3. /\ h.ents = g.ents /\ h.hist = g.hist /\ h.next = top
      /\ h = [ents |-> h.ents, hist |-> h.hist, next |-> h.next]
  BY <1>1
<1> HIDE DEF h, top
<1>4. Live(h) = Live(g) /\ \A e \in Live(h) : Tips(h, e) = Tips(g, e)
  BY <1>3 DEF Live, Tips, IsEdge
<1>5. Live(h) \subseteq 1..(h.next - 1) /\ DOMAIN h.hist \subseteq 1..(h.next - 1)
  BY <1>2, <1>3, <1>4 DEF Sound
<1>6. Sound(h)
  BY <1>2, <1>3, <1>4, <1>5 DEF Sound
<1> QED
  BY <1>2, <1>3, <1>4, <1>6 DEF h

LEMMA PayloadSame ==
    ASSUME NEW g, NEW h, NEW e,
           \A x \in {e} \cup Tips(g, e) : h.ents[x] = g.ents[x]
    PROVE  Payload(h, e) = Payload(g, e)
BY DEF Payload, PointPayload, Tips, IsEdge

-----------------------------------------------------------------------------
(* Executing a record *)

Ports(r) ==
    /\ r.kind \in {"point", "line", "transform"}
    /\ r.kind = "line" => DOMAIN r.inputs = 1..2
    /\ r.kind = "transform" => DOMAIN r.inputs = 1..1

(* What r is given in w. *)
Given(w, rs, r) == UNION {InputEntities(w, rs, f) : f \in Members(r.inputs)}

(* An executor adds one entity that stands on what it was given, or moves  *)
(* what it was given.                                                      *)
Executes(w, rs, r, x) ==
    /\ Grown(w, x.work)
    /\ \A e \in Live(w) : Tips(x.work, e) = Tips(w, e)
    /\ IF r.kind = "transform"
       THEN /\ Live(x.work) = Live(w) /\ x.output \in Live(w)
            /\ x.output \in Given(w, rs, r)
       ELSE /\ Live(x.work) = Live(w) \cup {x.output} /\ x.output = w.next
            /\ Tips(x.work, x.output) \subseteq Given(w, rs, r)
            /\ \A e \in Live(w) : x.work.ents[e] = w.ents[e]

LEMMA OnlyMember ==
    ASSUME NEW S, S # {}
    PROVE  Only(S) \in S
BY DEF Only

LEMMA ExecuteEffect ==
    ASSUME NEW w, Sound(w), NEW rs, NEW r, Ports(r), ~Blocked(w, rs, r),
           Execute(w, rs, r).ok
    PROVE  Executes(w, rs, r, Execute(w, rs, r))
<1> DEFINE input == [i \in DOMAIN r.inputs |->
                         Only(InputEntities(w, rs, r.inputs[i]))]
           x == Execute(w, rs, r)
<1>1. ASSUME NEW i \in DOMAIN r.inputs
      PROVE  input[i] \in Live(w) /\ input[i] \in Given(w, rs, r)
  <2>1. r.inputs[i] \in Members(r.inputs)
    BY DEF Members
  <2>2. InputEntities(w, rs, r.inputs[i]) # {}
    BY <2>1 DEF Blocked
  <2>3. input[i] \in InputEntities(w, rs, r.inputs[i])
    BY <2>2, OnlyMember
  <2>4. InputEntities(w, rs, r.inputs[i]) \subseteq Live(w)
    BY DEF InputEntities, Resolve
  <2> HIDE DEF input
  <2> QED
    BY <2>1, <2>3, <2>4 DEF Given
<1>2. CASE r.kind = "point"
  <2> DEFINE y == Point(r.parameter, <<>>)
  <2>1. x = Made(Add(w, y), w.next)
    BY <1>2 DEF Execute
  <2>2. x.work = Add(w, y) /\ x.output = w.next
    BY <2>1 DEF Made
  <2> HIDE DEF x
  <2>3. Entity(y) /\ y.kind = "vertex"
    BY EntityForms
  <2> HIDE DEF y
  <2>4. /\ Grown(w, x.work) /\ Live(x.work) = Live(w) \cup {w.next}
        /\ x.work.ents[w.next] = y
        /\ \A e \in Live(w) : x.work.ents[e] = w.ents[e]
    BY <2>2, <2>3, AddEffect
  <2>5. \A e \in Live(w) : Tips(x.work, e) = Tips(w, e)
    BY <2>4 DEF Tips, IsEdge
  <2>6. Tips(x.work, x.output) = {}
    BY <2>2, <2>3, <2>4 DEF Tips, IsEdge
  <2>7. Executes(w, rs, r, x)
    BY <1>2, <2>2, <2>4, <2>5, <2>6 DEF Executes
  <2> QED
    BY <2>7 DEF x
<1>3. CASE r.kind = "line"
  <2> DEFINE y == Line(input[1], input[2])
  <2>1. x = Made(Add(w, y), w.next)
    <3>1. Execute(w, rs, r) = IF \/ \E i \in DOMAIN input : IsEdge(w, input[i])
                                 \/ PointPayload(w, input[1]) = PointPayload(w, input[2])
                              THEN Refused(w) ELSE Made(Add(w, y), w.next)
      BY <1>3 DEF Execute
    <3>2. Execute(w, rs, r) # Refused(w)
      BY DEF Refused
    <3> HIDE DEF y, input
    <3> QED
      BY <3>1, <3>2
  <2>2. x.work = Add(w, y) /\ x.output = w.next
    BY <2>1 DEF Made
  <2> HIDE DEF x
  <2>3. /\ 1 \in DOMAIN r.inputs /\ 2 \in DOMAIN r.inputs
    BY <1>3 DEF Ports
  <2>4. /\ Entity(y) /\ y.kind = "edge" /\ y.from = input[1] /\ y.to = input[2]
    <3> HIDE DEF input
    <3> QED
      BY EntityForms
  <2>5. /\ y.from \in Live(w) /\ y.to \in Live(w)
        /\ {y.from, y.to} \subseteq Given(w, rs, r)
    <3> HIDE DEF input, y
    <3> QED
      BY <1>1, <2>3, <2>4
  <2> HIDE DEF y
  <2>6. /\ Grown(w, x.work) /\ Live(x.work) = Live(w) \cup {w.next}
        /\ x.work.ents[w.next] = y
        /\ \A e \in Live(w) : x.work.ents[e] = w.ents[e]
    BY <2>2, <2>4, <2>5, AddEffect
  <2>7. \A e \in Live(w) : Tips(x.work, e) = Tips(w, e)
    BY <2>6 DEF Tips, IsEdge
  <2>8. Tips(x.work, x.output) \subseteq Given(w, rs, r)
    BY <2>2, <2>4, <2>5, <2>6 DEF Tips, IsEdge
  <2>9. Executes(w, rs, r, x)
    BY <1>3, <2>2, <2>6, <2>7, <2>8 DEF Executes
  <2> QED
    BY <2>9 DEF x
<1>4. CASE r.kind = "transform"
  <2>1. x = Made(Shift(w, {input[1]}, r.parameter), input[1])
    BY <1>4 DEF Execute
  <2>2. x.work = Shift(w, {input[1]}, r.parameter) /\ x.output = input[1]
    BY <2>1 DEF Made
  <2> HIDE DEF x
  <2>3. 1 \in DOMAIN r.inputs
    BY <1>4 DEF Ports
  <2>4. input[1] \in Live(w) /\ input[1] \in Given(w, rs, r)
    <3> HIDE DEF input
    <3> QED
      BY <1>1, <2>3
  <2> HIDE DEF input
  <2>5. /\ Grown(w, x.work) /\ Live(x.work) = Live(w)
        /\ \A e \in Live(w) : Tips(x.work, e) = Tips(w, e)
    BY <2>2, ShiftEffect
  <2>6. Executes(w, rs, r, x)
    BY <1>4, <2>2, <2>4, <2>5 DEF Executes
  <2> QED
    BY <2>6 DEF x
<1> QED
  BY <1>2, <1>3, <1>4 DEF Ports

-----------------------------------------------------------------------------
(* Binding roles *)

LEMMA BindingFields ==
    ASSUME NEW b, b = [map |-> b.map, ok |-> b.ok]
    PROVE  /\ [b EXCEPT !.ok = FALSE] = [map |-> b.map, ok |-> FALSE]
           /\ \A m : [b EXCEPT !.map = m] = [map |-> m, ok |-> b.ok]
<1>1. \A v : [b EXCEPT !.ok = v] = [map |-> b.map, ok |-> v]
  OBVIOUS
<1>2. [b EXCEPT !.ok = FALSE] = [map |-> b.map, ok |-> FALSE]
  BY <1>1, Zenon
<1>3. \A m : [b EXCEPT !.map = m] = [map |-> m, ok |-> b.ok]
  OBVIOUS
<1> QED
  BY <1>2, <1>3

Binding(b) == b = [map |-> b.map, ok |-> b.ok] /\ b.ok \in BOOLEAN

(* c binds what b binds, and otherwise only roles from R. *)
BindsMore(b, c, R) ==
    /\ Binding(c)
    /\ c.ok => b.ok
    /\ DOMAIN b.map \subseteq DOMAIN c.map
    /\ DOMAIN c.map \subseteq DOMAIN b.map \cup R
    /\ \A e \in DOMAIN b.map : c.map[e] = b.map[e]

LeadsTo(c, old, new) ==
    c.ok /\ old # new => old \in DOMAIN c.map /\ c.map[old] = {new}

LEMMA BindEffect ==
    ASSUME NEW b, Binding(b), NEW old, NEW new, NEW c, c = Bind(b, old, new)
    PROVE  /\ BindsMore(b, c, {old})
           /\ LeadsTo(c, old, new)
<1> DEFINE grown == Merged(b.map, Single(old, {new}))
<1>0. /\ DOMAIN grown = DOMAIN b.map \cup {old}
      /\ \A e \in DOMAIN b.map : grown[e] = b.map[e]
      /\ old \notin DOMAIN b.map => grown[old] = {new}
  <2> DEFINE leads == {new}
             map == b.map
  <2> HIDE DEF leads, map
  <2>1. /\ DOMAIN Merged(map, Single(old, leads)) = DOMAIN map \cup {old}
        /\ \A e \in DOMAIN map : Merged(map, Single(old, leads))[e] = map[e]
        /\ old \notin DOMAIN map => Merged(map, Single(old, leads))[old] = leads
    BY MergedSingle
  <2> QED
    BY <2>1 DEF leads, map
<1>1. CASE c = b
  <2>1. b.ok /\ old # new => old \in DOMAIN b.map /\ b.map[old] = {new}
    <3> SUFFICES ASSUME b.ok, old # new, ~(old \in DOMAIN b.map /\ b.map[old] = {new})
                 PROVE  FALSE
      OBVIOUS
    <3>1. CASE old \in DOMAIN b.map
      <4>1. c = [b EXCEPT !.ok = FALSE]
        BY <3>1 DEF Bind
      <4>2. [b EXCEPT !.ok = FALSE] = [map |-> b.map, ok |-> FALSE]
        BY BindingFields DEF Binding
      <4> QED
        BY <1>1, <4>1, <4>2
    <3>2. CASE old \notin DOMAIN b.map
      <4>1. c = [b EXCEPT !.map = grown]
        BY <3>2 DEF Bind
      <4>2. DOMAIN grown = DOMAIN b.map \cup {old}
        BY <1>0
      <4>3. [b EXCEPT !.map = grown].map = grown
        <5> HIDE DEF grown
        <5> QED
          BY DEF Binding
      <4> HIDE DEF grown
      <4> QED
        BY <1>1, <3>2, <4>1, <4>2, <4>3
    <3> QED
      BY <3>1, <3>2
  <2> QED
    BY <1>1, <2>1 DEF BindsMore, Binding, LeadsTo
<1>2. CASE c = [map |-> b.map, ok |-> FALSE]
  <2>1. c.map = b.map /\ c.ok = FALSE /\ c = [map |-> c.map, ok |-> c.ok]
    BY <1>2
  <2> QED
    BY <2>1 DEF BindsMore, Binding, LeadsTo
<1>3. CASE b.ok /\ old \notin DOMAIN b.map /\ c = [map |-> grown, ok |-> b.ok]
  <2>1. /\ DOMAIN grown = DOMAIN b.map \cup {old} /\ grown[old] = {new}
        /\ \A e \in DOMAIN b.map : grown[e] = b.map[e]
    BY <1>0, <1>3
  <2> HIDE DEF grown
  <2>2. c.map = grown /\ c.ok = b.ok /\ c = [map |-> c.map, ok |-> c.ok]
    BY <1>3
  <2> QED
    BY <2>1, <2>2 DEF BindsMore, Binding, LeadsTo
<1> QED
  <2>1. \/ c = b \/ c = [b EXCEPT !.ok = FALSE]
        \/ b.ok /\ old \notin DOMAIN b.map /\ c = [b EXCEPT !.map = grown]
    BY DEF Bind
  <2>2. [b EXCEPT !.ok = FALSE] = [map |-> b.map, ok |-> FALSE]
    BY BindingFields DEF Binding
  <2>3. [b EXCEPT !.map = grown] = [map |-> grown, ok |-> b.ok]
    <3> HIDE DEF grown
    <3> QED
      BY BindingFields DEF Binding
  <2> HIDE DEF grown
  <2> QED
    BY <1>1, <1>2, <1>3, <2>1, <2>2, <2>3

LEMMA BindingOnward ==
    ASSUME NEW a, NEW b, NEW c, NEW R, NEW Q, BindsMore(a, b, R), BindsMore(b, c, Q)
    PROVE  BindsMore(a, c, R \cup Q)
BY DEF BindsMore

(* The roles of an entity are its own and those of its end points.         *)
LEMMA BindRolesEffect ==
    ASSUME NEW b, Binding(b), NEW gOld, NEW old, NEW gNew, NEW new,
           NEW c, c = BindRoles(b, gOld, old, gNew, new)
    PROVE  /\ BindsMore(b, c, {old} \cup Tips(gOld, old))
           /\ LeadsTo(c, old, new)
<1> DEFINE b1 == Bind(b, old, new)
           R == {old} \cup Tips(gOld, old)
<1>1. /\ BindsMore(b, b1, {old})
      /\ LeadsTo(b1, old, new)
  <2> HIDE DEF b1
  <2>1. b1 = Bind(b, old, new)
    BY DEF b1
  <2> QED
    BY <2>1, BindEffect
<1>2. CASE c = [b EXCEPT !.ok = FALSE]
  <2>1. c = [map |-> b.map, ok |-> FALSE]
    BY <1>2, BindingFields DEF Binding
  <2>2. c.map = b.map /\ c.ok = FALSE /\ c = [map |-> c.map, ok |-> c.ok]
    BY <2>1
  <2>3. BindsMore(b, c, R) /\ LeadsTo(c, old, new)
    BY <2>2 DEF BindsMore, Binding, LeadsTo
  <2> QED
    BY <2>3
<1>3. CASE c = b1
  <2> HIDE DEF b1
  <2> QED
    BY <1>1, <1>3 DEF BindsMore, LeadsTo
<1>4. CASE /\ IsEdge(gOld, old)
           /\ c = Bind(Bind(b1, gOld.ents[old].from, gNew.ents[new].from),
                       gOld.ents[old].to, gNew.ents[new].to)
  <2> DEFINE from == gOld.ents[old].from
             to == gOld.ents[old].to
             b2 == Bind(b1, from, gNew.ents[new].from)
  <2>1. BindsMore(b1, b2, {from})
    <3> HIDE DEF b1
    <3> QED
      BY <1>1, BindEffect DEF BindsMore
  <2>2. BindsMore(b2, c, {to})
    <3> HIDE DEF b2
    <3>1. c = Bind(b2, to, gNew.ents[new].to)
      BY <1>4 DEF b2
    <3>2. Binding(b2)
      BY <2>1 DEF BindsMore
    <3> QED
      BY <3>1, <3>2, BindEffect
  <2>3. Tips(gOld, old) = {from, to}
    BY <1>4 DEF Tips
  <2> HIDE DEF b1, b2, from, to
  <2>4. BindsMore(b1, c, {from} \cup {to})
    BY <2>1, <2>2, BindingOnward
  <2>5. BindsMore(b, c, {old} \cup ({from} \cup {to}))
    BY <1>1, <2>4, BindingOnward
  <2>6. {old} \cup ({from} \cup {to}) = R
    BY <2>3
  <2>7. LeadsTo(c, old, new)
    BY <1>1, <2>4 DEF BindsMore, LeadsTo
  <2> QED
    BY <2>5, <2>6, <2>7
<1> QED
  <2>1. \/ c = [b EXCEPT !.ok = FALSE] \/ c = b1
        \/ /\ IsEdge(gOld, old)
           /\ c = Bind(Bind(b1, gOld.ents[old].from, gNew.ents[new].from),
                       gOld.ents[old].to, gNew.ents[new].to)
    BY DEF BindRoles
  <2> QED
    BY <1>2, <1>3, <1>4, <2>1

LEMMA KindsAgree ==
    ASSUME NEW b, Binding(b), NEW gOld, NEW old, NEW gNew, NEW new,
           BindRoles(b, gOld, old, gNew, new).ok
    PROVE  gOld.ents[old].kind = gNew.ents[new].kind
<1> SUFFICES ASSUME gOld.ents[old].kind # gNew.ents[new].kind PROVE FALSE
  OBVIOUS
<1>1. BindRoles(b, gOld, old, gNew, new) = [b EXCEPT !.ok = FALSE]
  BY DEF BindRoles
<1>2. [b EXCEPT !.ok = FALSE] = [map |-> b.map, ok |-> FALSE]
  BY BindingFields DEF Binding
<1> DEFINE c == [map |-> b.map, ok |-> FALSE]
<1>3. ~c.ok
  OBVIOUS
<1> HIDE DEF c
<1>4. BindRoles(b, gOld, old, gNew, new) = c
  BY <1>1, <1>2 DEF c
<1> QED
  BY <1>3, <1>4

-----------------------------------------------------------------------------
(* Records under replay *)

DefinedAs(r, q) ==
    /\ r.id = q.id /\ r.kind = q.kind /\ r.parameter = q.parameter
    /\ r.inputs = q.inputs /\ r.dependencies = q.dependencies
    /\ r.suppressed = q.suppressed

(* A replay leaves definitions alone. *)
SameDefinitions(rs, qs) ==
    /\ rs \in Seq(Record) /\ Len(rs) = Len(qs)
    /\ \A i \in 1..Len(qs) : DefinedAs(rs[i], qs[i])

(* Every output is a live entity. *)
Rooted(rs, g) ==
    \A i \in DOMAIN rs : rs[i].output # NoOutput => rs[i].output \in Live(g)

IsReplay(s) ==
    s = [records |-> s.records, work |-> s.work, retire |-> s.retire,
         discard |-> s.discard, roles |-> s.roles, ok |-> s.ok]

States == {"pending", "ok", "suppressed", "blocked"}

LEMMA RecordFields ==
    ASSUME NEW r \in Record
    PROVE  /\ r = [id |-> r.id, kind |-> r.kind, parameter |-> r.parameter,
                   inputs |-> r.inputs, dependencies |-> r.dependencies,
                   suppressed |-> r.suppressed, state |-> r.state,
                   fullReplay |-> r.fullReplay, output |-> r.output]
           /\ r.id \in Features /\ r.kind \in Kinds /\ r.output \in Nat
           /\ r.state \in States /\ r.fullReplay \in BOOLEAN
           /\ r.suppressed \in BOOLEAN
BY DEF Record, States

SettledAs(r, state, output) ==
    [r EXCEPT !.state = state, !.output = output, !.fullReplay = FALSE]

LEMMA RecordSettled ==
    ASSUME NEW r \in Record, NEW state \in States, NEW output \in Nat
    PROVE  /\ SettledAs(r, state, output) \in Record
           /\ DefinedAs(SettledAs(r, state, output), r)
           /\ SettledAs(r, state, output).state = state
           /\ SettledAs(r, state, output).output = output
BY DEF Record, States, DefinedAs, SettledAs

LEMMA SettleEffect ==
    ASSUME NEW s, IsReplay(s), s.records \in Seq(Record),
           NEW i \in 1..Len(s.records), NEW state \in States, NEW output \in Nat
    PROVE  LET t == Settle(s, i, state, output)
           IN  /\ IsReplay(t) /\ t.work = s.work /\ t.retire = s.retire
               /\ t.discard = s.discard /\ t.roles = s.roles /\ t.ok = s.ok
               /\ t.records \in Seq(Record) /\ Len(t.records) = Len(s.records)
               /\ DefinedAs(t.records[i], s.records[i])
               /\ t.records[i].state = state /\ t.records[i].output = output
               /\ \A j \in 1..Len(s.records) : j # i => t.records[j] = s.records[j]
<1> DEFINE q == SettledAs(s.records[i], state, output)
           settled == [s.records EXCEPT ![i] = q]
           t == Settle(s, i, state, output)
<1>1. s.records[i] \in Record
  OBVIOUS
<1>2. /\ q \in Record /\ DefinedAs(q, s.records[i])
      /\ q.state = state /\ q.output = output
  BY <1>1, RecordSettled
<1>3. t = [s EXCEPT !.records = settled]
  BY DEF Settle, SettledAs
<1> HIDE DEF q
<1>4. /\ settled \in Seq(Record) /\ Len(settled) = Len(s.records)
      /\ settled[i] = q /\ \A j \in 1..Len(s.records) : j # i => settled[j] = s.records[j]
  BY <1>2
<1> HIDE DEF settled, t
<1>5. t = [records |-> settled, work |-> s.work, retire |-> s.retire,
           discard |-> s.discard, roles |-> s.roles, ok |-> s.ok]
  BY <1>3 DEF IsReplay
<1>6. IsReplay(t) /\ t.records = settled /\ t.work = s.work /\ t.retire = s.retire
      /\ t.discard = s.discard /\ t.roles = s.roles /\ t.ok = s.ok
  BY <1>5 DEF IsReplay
<1>7. /\ IsReplay(t) /\ t.work = s.work /\ t.retire = s.retire
      /\ t.discard = s.discard /\ t.roles = s.roles /\ t.ok = s.ok
      /\ t.records \in Seq(Record) /\ Len(t.records) = Len(s.records)
      /\ DefinedAs(t.records[i], s.records[i])
      /\ t.records[i].state = state /\ t.records[i].output = output
      /\ \A j \in 1..Len(s.records) : j # i => t.records[j] = s.records[j]
  BY <1>2, <1>4, <1>6
<1> QED
  BY <1>7 DEF t

LEMMA DefinitionsTransitive ==
    ASSUME NEW qs, NEW rs, NEW ts, SameDefinitions(rs, qs), ts \in Seq(Record),
           Len(ts) = Len(rs), \A j \in 1..Len(rs) : DefinedAs(ts[j], rs[j])
    PROVE  SameDefinitions(ts, qs)
BY DEF SameDefinitions, DefinedAs

WellOrdered(rs) ==
    /\ rs \in Seq(Record)
    /\ \A i \in DOMAIN rs : Ports(rs[i])
    /\ \A i, j \in DOMAIN rs : rs[i].id = rs[j].id => i = j
    /\ Valid(rs)

LEMMA PositionOf ==
    ASSUME NEW rs, WellOrdered(rs), NEW qs, SameDefinitions(qs, rs),
           NEW j \in 1..Len(rs)
    PROVE  Position(qs, rs[j].id) = j
<1>1. DOMAIN qs = 1..Len(rs) /\ DOMAIN rs = 1..Len(rs)
  BY DEF SameDefinitions, WellOrdered
<1>2. \A k \in DOMAIN qs : qs[k].id = rs[k].id
  BY <1>1 DEF SameDefinitions, DefinedAs
<1>3. qs[j].id = rs[j].id /\ j \in DOMAIN qs
  BY <1>1, <1>2
<1>4. \A k \in DOMAIN qs : qs[k].id = rs[j].id => k = j
  BY <1>1, <1>2 DEF WellOrdered
<1> QED
  BY <1>3, <1>4 DEF Position

LEMMA ChangedOnce ==
    ASSUME NEW rs, NEW qs, SameDefinitions(qs, rs), NEW i,
           NEW ts \in Seq(Record), Len(ts) = Len(qs), DefinedAs(ts[i], qs[i]),
           \A j \in 1..Len(qs) : j # i => ts[j] = qs[j]
    PROVE  SameDefinitions(ts, rs)
<1>1. \A j \in 1..Len(qs) : DefinedAs(ts[j], qs[j])
  BY DEF DefinedAs
<1> QED
  BY <1>1, DefinitionsTransitive

-----------------------------------------------------------------------------
(* What the definitions make, where nothing is moved *)

Additive(rs) == \A i \in DOMAIN rs : rs[i].kind # "transform"

Stopped(rs, i) == \E f \in DependenciesOf(rs[i]) : rs[Position(rs, f)].state # "ok"

Source(rs, i, k) == rs[Position(rs, rs[i].inputs[k])].output

(* The ends of a line are two points with different contents. *)
Joinable(rs, w, i) ==
    /\ \A k \in 1..2 : ~IsEdge(w, Source(rs, i, k))
    /\ PointPayload(w, Source(rs, i, 1)) # PointPayload(w, Source(rs, i, 2))

(* What record i makes of the outputs it is given. *)
Content(rs, w, i) ==
    IF rs[i].kind = "line"
    THEN <<PointPayload(w, Source(rs, i, 1)), PointPayload(w, Source(rs, i, 2))>>
    ELSE <<rs[i].parameter, <<>>>>

(* Record i is as its definition, and the records it stands on, have it. *)
Exact(rs, w, i) ==
    IF rs[i].suppressed THEN rs[i].state = "suppressed" /\ rs[i].output = NoOutput
    ELSE IF Stopped(rs, i) THEN rs[i].state = "blocked" /\ rs[i].output = NoOutput
    ELSE /\ rs[i].state = "ok" /\ rs[i].output \in Live(w)
         /\ IsEdge(w, rs[i].output) <=> rs[i].kind = "line"
         /\ rs[i].kind = "line" => Joinable(rs, w, i)
         /\ Payload(w, rs[i].output) = Content(rs, w, i)

ExactTo(rs, w, n) == \A i \in 1..n : Exact(rs, w, i)

LEMMA SourceEarlier ==
    ASSUME NEW rs, WellOrdered(rs), NEW qs, SameDefinitions(qs, rs),
           NEW i \in 1..Len(rs), NEW f \in DependenciesOf(qs[i])
    PROVE  Position(qs, f) \in 1..(i - 1)
<1>1. DOMAIN rs = 1..Len(rs) /\ Len(rs) \in Nat
  BY DEF WellOrdered
<1>2. f \in DependenciesOf(rs[i])
  BY DEF SameDefinitions, DefinedAs, DependenciesOf
<1>3. PICK j \in 1..(i - 1) : rs[j].id = f
  BY <1>1, <1>2 DEF WellOrdered, Valid
<1>4. j \in 1..Len(rs)
  BY <1>1
<1> QED
  BY <1>3, <1>4, PositionOf

LEMMA SameSources ==
    ASSUME NEW rs, WellOrdered(rs), NEW ps, SameDefinitions(ps, rs),
           NEW qs, SameDefinitions(qs, rs), NEW i \in 1..Len(rs)
    PROVE  /\ DependenciesOf(ps[i]) = DependenciesOf(qs[i])
           /\ DefinedAs(ps[i], qs[i])
           /\ \A f \in DependenciesOf(qs[i]) : Position(ps, f) = Position(qs, f)
           /\ \A k \in DOMAIN qs[i].inputs : qs[i].inputs[k] \in DependenciesOf(qs[i])
           /\ qs[i].kind = "line" => 1 \in DOMAIN qs[i].inputs /\ 2 \in DOMAIN qs[i].inputs
<1>1. DefinedAs(ps[i], rs[i]) /\ DefinedAs(qs[i], rs[i]) /\ DefinedAs(ps[i], qs[i])
  BY DEF SameDefinitions, DefinedAs
<1>2. DependenciesOf(ps[i]) = DependenciesOf(qs[i]) /\ DependenciesOf(qs[i]) = DependenciesOf(rs[i])
  BY <1>1 DEF DefinedAs, DependenciesOf
<1>3. ASSUME NEW f \in DependenciesOf(qs[i]) PROVE Position(ps, f) = Position(qs, f)
  <2>1. DOMAIN rs = 1..Len(rs) /\ Len(rs) \in Nat
    BY DEF WellOrdered
  <2>2. PICK j \in 1..(i - 1) : rs[j].id = f
    BY <1>2, <1>3, <2>1 DEF WellOrdered, Valid
  <2>3. j \in 1..Len(rs)
    BY <2>1
  <2> QED
    BY <2>2, <2>3, PositionOf
<1>4. Ports(rs[i])
  BY DEF WellOrdered
<1> QED
  BY <1>1, <1>2, <1>3, <1>4 DEF Ports, DefinedAs, DependenciesOf, Members

(* A record that is not stopped stands on live outputs. *)
LEMMA SourceReady ==
    ASSUME NEW rs, WellOrdered(rs), NEW qs, SameDefinitions(qs, rs),
           NEW i \in 1..Len(rs), NEW w, ExactTo(qs, w, i - 1), ~Stopped(qs, i),
           NEW f \in DependenciesOf(qs[i]), NEW j, j = Position(qs, f)
    PROVE  j \in 1..(i - 1) /\ qs[j].state = "ok" /\ qs[j].output \in Live(w)
<1>1. j \in 1..(i - 1)
  BY SourceEarlier
<1>2. qs[j].state = "ok"
  BY DEF Stopped
<1>3. Exact(qs, w, j)
  BY <1>1 DEF ExactTo
<1> QED
  BY <1>1, <1>2, <1>3 DEF Exact

LEMMA BlockedExactly ==
    ASSUME NEW rs, WellOrdered(rs), NEW qs, SameDefinitions(qs, rs),
           NEW i \in 1..Len(rs), NEW w, Sound(w), ExactTo(qs, w, i - 1)
    PROVE  /\ Blocked(w, qs, qs[i]) <=> Stopped(qs, i)
           /\ ~Stopped(qs, i) =>
                  \A k \in DOMAIN qs[i].inputs :
                      Only(InputEntities(w, qs, qs[i].inputs[k])) = Source(qs, i, k)
<1>1. ASSUME ~Stopped(qs, i), NEW f \in DependenciesOf(qs[i])
      PROVE  /\ qs[Position(qs, f)].state = "ok"
             /\ InputEntities(w, qs, f) = {qs[Position(qs, f)].output}
  <2> DEFINE j == Position(qs, f)
  <2>1. j = Position(qs, f)
    OBVIOUS
  <2> HIDE DEF j
  <2>2. qs[j].state = "ok" /\ qs[j].output \in Live(w)
    BY <1>1, <2>1, SourceReady
  <2>3. qs[j].output # NoOutput
    BY <2>2 DEF Sound, NoOutput
  <2>4. Resolve(w, qs[j].output) = {qs[j].output}
    BY <2>2, ResolveLive
  <2>5. InputEntities(w, qs, f) = {qs[j].output}
    BY <2>1, <2>2, <2>3, <2>4 DEF InputEntities
  <2> QED
    BY <2>1, <2>2, <2>5
<1>2. ASSUME ~Stopped(qs, i) PROVE ~Blocked(w, qs, qs[i])
  <2>1. \A f \in Members(qs[i].inputs) \cup qs[i].dependencies : f \in DependenciesOf(qs[i])
    BY DEF DependenciesOf
  <2> QED
    BY <1>1, <1>2, <2>1 DEF Blocked
<1>3. ASSUME Stopped(qs, i) PROVE Blocked(w, qs, qs[i])
  <2>1. PICK f \in DependenciesOf(qs[i]) : qs[Position(qs, f)].state # "ok"
    BY <1>3 DEF Stopped
  <2>2. InputEntities(w, qs, f) = {}
    BY <2>1 DEF InputEntities
  <2> QED
    BY <2>1, <2>2 DEF Blocked, DependenciesOf
<1>4. ASSUME ~Stopped(qs, i), NEW k \in DOMAIN qs[i].inputs
      PROVE  Only(InputEntities(w, qs, qs[i].inputs[k])) = Source(qs, i, k)
  <2> DEFINE o == Source(qs, i, k)
  <2>1. qs[i].inputs[k] \in DependenciesOf(qs[i])
    BY SameSources
  <2>2. InputEntities(w, qs, qs[i].inputs[k]) = {o}
    BY <1>1, <1>4, <2>1 DEF Source
  <2> HIDE DEF o
  <2>3. Only({o}) \in {o}
    BY OnlyMember
  <2> QED
    BY <2>2, <2>3 DEF o
<1> QED
  BY <1>2, <1>3, <1>4

(* What an executor makes is the content its record calls for. *)
LEMMA ExecuteExactly ==
    ASSUME NEW rs, WellOrdered(rs), NEW qs, SameDefinitions(qs, rs),
           NEW i \in 1..Len(rs), NEW w, Sound(w), ExactTo(qs, w, i - 1),
           ~Stopped(qs, i), qs[i].kind # "transform",
           NEW x, x = Execute(w, qs, qs[i])
    PROVE  /\ x.ok <=> (qs[i].kind = "line" => Joinable(qs, w, i))
           /\ x.ok => /\ x.output = w.next
                      /\ IsEdge(x.work, x.output) <=> qs[i].kind = "line"
                      /\ Payload(x.work, x.output) = Content(qs, w, i)
                      /\ \A e \in Live(w) : x.work.ents[e] = w.ents[e]
<1> DEFINE r == qs[i]
           input == [k \in DOMAIN r.inputs |-> Only(InputEntities(w, qs, r.inputs[k]))]
<1>1. ASSUME r.kind = "point"
      PROVE  /\ x.ok /\ x.output = w.next
             /\ ~IsEdge(x.work, x.output)
             /\ Payload(x.work, x.output) = <<r.parameter, <<>>>>
             /\ \A e \in Live(w) : x.work.ents[e] = w.ents[e]
  <2> DEFINE y == Point(r.parameter, <<>>)
  <2>1. x = Made(Add(w, y), w.next)
    BY <1>1 DEF Execute
  <2>2. x.ok /\ x.work = Add(w, y) /\ x.output = w.next
    BY <2>1 DEF Made
  <2>3. Entity(y) /\ y.kind = "vertex" /\ y.at = r.parameter /\ y.moves = <<>>
    BY EntityForms
  <2> HIDE DEF y
  <2>4. x.work.ents[w.next] = y /\ \A e \in Live(w) : x.work.ents[e] = w.ents[e]
    BY <2>2, <2>3, AddEffect
  <2>5. ~IsEdge(x.work, x.output)
    BY <2>2, <2>3, <2>4 DEF IsEdge
  <2> QED
    BY <2>2, <2>3, <2>4, <2>5 DEF Payload, PointPayload
<1>2. ASSUME r.kind = "line"
      PROVE  /\ input[1] = Source(qs, i, 1) /\ input[2] = Source(qs, i, 2)
             /\ DOMAIN input = 1..2 /\ {input[1], input[2]} \subseteq Live(w)
  <2>1. DOMAIN r.inputs = 1..2
    <3>1. Ports(rs[i]) /\ DefinedAs(qs[i], rs[i])
      BY DEF WellOrdered, SameDefinitions
    <3> QED
      BY <1>2, <3>1 DEF Ports, DefinedAs
  <2>2. \A k \in 1..2 : input[k] = Source(qs, i, k)
    BY <2>1, BlockedExactly
  <2>3. ASSUME NEW k \in 1..2 PROVE Source(qs, i, k) \in Live(w)
    <3>1. r.inputs[k] \in DependenciesOf(r)
      BY <2>1, SameSources
    <3> HIDE DEF r
    <3> QED
      BY <3>1, SourceReady DEF Source, r
  <2>4. DOMAIN input = 1..2
    BY <2>1
  <2> HIDE DEF input, r
  <2> QED
    BY <2>2, <2>3, <2>4
<1>3. ASSUME r.kind = "line"
      PROVE  /\ x.ok <=> Joinable(qs, w, i)
             /\ x.ok => /\ x.output = w.next
                        /\ IsEdge(x.work, x.output)
                        /\ Payload(x.work, x.output) = Content(qs, w, i)
                        /\ \A e \in Live(w) : x.work.ents[e] = w.ents[e]
  <2> DEFINE y == Line(input[1], input[2])
             bad == \/ \E k \in DOMAIN input : IsEdge(w, input[k])
                    \/ PointPayload(w, input[1]) = PointPayload(w, input[2])
  <2>1. x = IF bad THEN Refused(w) ELSE Made(Add(w, y), w.next)
    BY <1>3 DEF Execute
  <2>2. bad <=> ~Joinable(qs, w, i)
    <3>1. /\ input[1] = Source(qs, i, 1) /\ input[2] = Source(qs, i, 2)
          /\ DOMAIN input = 1..2
      BY <1>2, <1>3
    <3> HIDE DEF input
    <3> QED
      BY <3>1 DEF Joinable
  <2>3. /\ Entity(y) /\ y.kind = "edge" /\ y.from = input[1] /\ y.to = input[2]
    <3> HIDE DEF input
    <3> QED
      BY EntityForms
  <2>4. y.from = Source(qs, i, 1) /\ y.to = Source(qs, i, 2) /\ {y.from, y.to} \subseteq Live(w)
    <3> HIDE DEF input
    <3> QED
      BY <1>2, <1>3, <2>3
  <2> HIDE DEF y, bad, input
  <2>5. CASE bad
    <3>1. ~x.ok
      BY <2>1, <2>5 DEF Refused
    <3> QED
      BY <2>2, <2>5, <3>1
  <2>6. CASE ~bad
    <3>1. x.ok /\ x.work = Add(w, y) /\ x.output = w.next
      BY <2>1, <2>6 DEF Made
    <3>2. x.work.ents[w.next] = y /\ \A e \in Live(w) : x.work.ents[e] = w.ents[e]
      BY <2>3, <2>4, <3>1, AddEffect
    <3>3. IsEdge(x.work, x.output)
      BY <2>3, <3>1, <3>2 DEF IsEdge
    <3>4. Payload(x.work, x.output)
              = <<PointPayload(x.work, y.from), PointPayload(x.work, y.to)>>
      BY <3>1, <3>2, <3>3 DEF Payload
    <3>5. PointPayload(x.work, y.from) = PointPayload(w, y.from)
            /\ PointPayload(x.work, y.to) = PointPayload(w, y.to)
      BY <2>4, <3>2 DEF PointPayload
    <3>6. Payload(x.work, x.output) = Content(qs, w, i)
      BY <1>3, <2>4, <3>4, <3>5 DEF Content
    <3> QED
      BY <2>2, <2>6, <3>1, <3>2, <3>3, <3>6
  <2> QED
    BY <2>5, <2>6
<1>4. r.kind \in {"point", "line"}
  <2>1. Ports(rs[i]) /\ DefinedAs(qs[i], rs[i])
    BY DEF WellOrdered, SameDefinitions
  <2> QED
    BY <2>1 DEF Ports, DefinedAs
<1>5. r.kind = "point" => Content(qs, w, i) = <<r.parameter, <<>>>>
  BY DEF Content
<1> HIDE DEF input
<1> QED
  BY <1>1, <1>3, <1>4, <1>5

(* Records stay exact where their outputs stay as they are. *)
LEMMA ExactFrame ==
    ASSUME NEW rs, WellOrdered(rs), NEW qs, SameDefinitions(qs, rs),
           NEW ts, SameDefinitions(ts, rs), NEW n \in 0..Len(rs),
           NEW w, ExactTo(qs, w, n), NEW v,
           \A i \in 1..n : ts[i].state = qs[i].state /\ ts[i].output = qs[i].output,
           \A i \in 1..n : qs[i].output \in Live(w) =>
               /\ qs[i].output \in Live(v)
               /\ \A e \in {qs[i].output} \cup Tips(w, qs[i].output) : v.ents[e] = w.ents[e]
    PROVE  ExactTo(ts, v, n)
<1> SUFFICES ASSUME NEW i \in 1..n PROVE Exact(ts, v, i)
  BY DEF ExactTo
<1>0. Len(rs) \in Nat /\ i \in 1..Len(rs) /\ 1..(i - 1) \subseteq 1..n
  BY DEF WellOrdered
<1>1. /\ DependenciesOf(ts[i]) = DependenciesOf(qs[i]) /\ DefinedAs(ts[i], qs[i])
      /\ \A f \in DependenciesOf(qs[i]) : Position(ts, f) = Position(qs, f)
      /\ \A k \in DOMAIN qs[i].inputs : qs[i].inputs[k] \in DependenciesOf(qs[i])
      /\ qs[i].kind = "line" => 1 \in DOMAIN qs[i].inputs /\ 2 \in DOMAIN qs[i].inputs
  BY <1>0, SameSources
<1>2. \A f \in DependenciesOf(qs[i]) : Position(qs, f) \in 1..n
  BY <1>0, SourceEarlier
<1>3. Stopped(ts, i) <=> Stopped(qs, i)
  BY <1>1, <1>2 DEF Stopped
<1>4. \A k \in DOMAIN qs[i].inputs : Source(ts, i, k) = Source(qs, i, k)
  BY <1>1, <1>2 DEF Source, DefinedAs
<1>5. Exact(qs, w, i)
  BY DEF ExactTo
<1>6. CASE qs[i].suppressed \/ Stopped(qs, i)
  BY <1>1, <1>3, <1>5, <1>6 DEF Exact, DefinedAs
<1>7. CASE ~qs[i].suppressed /\ ~Stopped(qs, i)
  <2> DEFINE o == qs[i].output
  <2>1. /\ qs[i].state = "ok" /\ o \in Live(w)
        /\ IsEdge(w, o) <=> qs[i].kind = "line"
        /\ qs[i].kind = "line" => Joinable(qs, w, i)
        /\ Payload(w, o) = Content(qs, w, i)
    BY <1>5, <1>7 DEF Exact
  <2>2. o \in Live(v) /\ \A e \in {o} \cup Tips(w, o) : v.ents[e] = w.ents[e]
    BY <2>1
  <2>3. Payload(v, o) = Payload(w, o) /\ (IsEdge(v, o) <=> IsEdge(w, o))
    <3> HIDE DEF o
    <3> QED
      BY <2>2, PayloadSame DEF IsEdge
  <2>4. ASSUME NEW k \in DOMAIN qs[i].inputs
        PROVE  v.ents[Source(qs, i, k)] = w.ents[Source(qs, i, k)]
    <3> DEFINE f == qs[i].inputs[k]
               j == Position(qs, f)
    <3>1. f \in DependenciesOf(qs[i]) /\ j = Position(qs, f) /\ j \in 1..n
      BY <1>1, <1>2
    <3>2. ExactTo(qs, w, i - 1)
      BY <1>0 DEF ExactTo
    <3> HIDE DEF j, f
    <3>3. qs[j].output \in Live(w)
      BY <1>0, <1>7, <3>1, <3>2, SourceReady
    <3>4. v.ents[qs[j].output] = w.ents[qs[j].output]
      BY <3>1, <3>3
    <3> QED
      BY <3>1, <3>4 DEF Source, f
  <2>5. qs[i].kind = "line" => Joinable(ts, v, i)
    <3> SUFFICES ASSUME qs[i].kind = "line" PROVE Joinable(ts, v, i)
      OBVIOUS
    <3>1. Joinable(qs, w, i)
      BY <2>1
    <3>2. \A k \in 1..2 : /\ Source(ts, i, k) = Source(qs, i, k)
                          /\ v.ents[Source(qs, i, k)] = w.ents[Source(qs, i, k)]
      BY <1>1, <1>4, <2>4
    <3> QED
      BY <3>1, <3>2 DEF Joinable, IsEdge, PointPayload
  <2>6. Content(ts, v, i) = Content(qs, w, i)
    <3>1. CASE qs[i].kind = "line"
      BY <1>1, <1>4, <2>4, <3>1 DEF Content, DefinedAs, PointPayload
    <3>2. CASE qs[i].kind # "line"
      BY <1>1, <3>2 DEF Content, DefinedAs
    <3> QED
      BY <3>1, <3>2
  <2>7. ts[i].state = "ok" /\ ts[i].output = o /\ ~ts[i].suppressed /\ ts[i].kind = qs[i].kind
    BY <1>1, <1>7, <2>1 DEF DefinedAs
  <2> HIDE DEF o
  <2> QED
    BY <1>3, <1>7, <2>1, <2>2, <2>3, <2>5, <2>6, <2>7 DEF Exact
<1> QED
  BY <1>6, <1>7

(* One round of a replay, of either kind: records i is skipped ... *)
LEMMA RoundSkips ==
    ASSUME NEW rs, WellOrdered(rs), NEW qs, SameDefinitions(qs, rs),
           NEW ts, SameDefinitions(ts, rs), NEW i \in 1..Len(rs),
           NEW w, Sound(w), ExactTo(qs, w, i - 1),
           \A j \in 1..Len(rs) : j # i => ts[j] = qs[j], ts[i].output = NoOutput,
           \/ qs[i].suppressed /\ ts[i].state = "suppressed"
           \/ ~qs[i].suppressed /\ Blocked(w, qs, qs[i]) /\ ts[i].state = "blocked"
    PROVE  ExactTo(ts, w, i)
<1>0. /\ Len(rs) \in Nat /\ i - 1 \in 0..Len(rs) /\ 1..i = 1..(i - 1) \cup {i}
      /\ \A j \in 1..(i - 1) : j \in 1..Len(rs) /\ j # i
  BY DEF WellOrdered
<1>1. ExactTo(ts, w, i - 1)
  <2>1. \A j \in 1..(i - 1) : ts[j] = qs[j]
    BY <1>0
  <2> QED
    BY <1>0, <2>1, ExactFrame
<1>2. /\ DependenciesOf(ts[i]) = DependenciesOf(qs[i]) /\ DefinedAs(ts[i], qs[i])
      /\ \A f \in DependenciesOf(qs[i]) : Position(ts, f) = Position(qs, f)
  BY SameSources
<1>3. \A f \in DependenciesOf(qs[i]) : Position(qs, f) \in 1..(i - 1)
  BY SourceEarlier
<1>4. Stopped(ts, i) <=> Stopped(qs, i)
  BY <1>0, <1>2, <1>3 DEF Stopped
<1>5. Blocked(w, qs, qs[i]) <=> Stopped(qs, i)
  BY BlockedExactly
<1>6. Exact(ts, w, i)
  BY <1>2, <1>4, <1>5 DEF Exact, DefinedAs
<1> QED
  BY <1>0, <1>1, <1>6 DEF ExactTo

(* ... or executed, and has what was made or an old output like it. *)
LEMMA RoundMakes ==
    ASSUME NEW rs, WellOrdered(rs), NEW qs, SameDefinitions(qs, rs),
           NEW ts, SameDefinitions(ts, rs), NEW i \in 1..Len(rs),
           NEW w, Sound(w), ExactTo(qs, w, i - 1),
           \A j \in 1..Len(rs) : j # i => ts[j] = qs[j],
           ~qs[i].suppressed, ~Blocked(w, qs, qs[i]), qs[i].kind # "transform",
           NEW x, x = Execute(w, qs, qs[i]), x.ok, Live(w) \subseteq Live(x.work),
           NEW o, o = ts[i].output, ts[i].state = "ok", o \in Live(x.work),
           IsEdge(x.work, o) <=> IsEdge(x.work, x.output),
           Payload(x.work, o) = Payload(x.work, x.output)
    PROVE  ExactTo(ts, x.work, i)
<1> DEFINE v == x.work
<1>0. /\ Len(rs) \in Nat /\ i - 1 \in 0..Len(rs) /\ 1..i = 1..(i - 1) \cup {i}
      /\ \A j \in 1..(i - 1) : j \in 1..Len(rs) /\ j # i
  BY DEF WellOrdered
<1>1. ~Stopped(qs, i)
  BY BlockedExactly
<1>2. /\ qs[i].kind = "line" => Joinable(qs, w, i)
      /\ IsEdge(v, o) <=> qs[i].kind = "line"
      /\ Payload(v, o) = Content(qs, w, i)
      /\ \A e \in Live(w) : v.ents[e] = w.ents[e]
  BY <1>1, ExecuteExactly
<1>3. o \in Live(v) /\ Live(w) \subseteq Live(v)
  OBVIOUS
<1> HIDE DEF v
<1>4. \A j \in 1..(i - 1) : ts[j] = qs[j]
  BY <1>0
<1>5. ExactTo(ts, v, i - 1)
  <2>1. \A e \in Live(w) : {e} \cup Tips(w, e) \subseteq Live(w)
    BY DEF Sound
  <2>2. \A e \in Live(w) : e \in Live(v) /\ \A z \in {e} \cup Tips(w, e) : v.ents[z] = w.ents[z]
    BY <1>2, <1>3, <2>1
  <2>3. \A j \in 1..(i - 1) :
            /\ ts[j].state = qs[j].state /\ ts[j].output = qs[j].output
            /\ qs[j].output \in Live(w) =>
                   /\ qs[j].output \in Live(v)
                   /\ \A z \in {qs[j].output} \cup Tips(w, qs[j].output) :
                          v.ents[z] = w.ents[z]
    BY <1>4, <2>2
  <2> DEFINE n == i - 1
  <2>4. n \in 0..Len(rs) /\ n = i - 1
    BY <1>0
  <2> HIDE DEF n
  <2>5. ExactTo(ts, v, n)
    BY <2>3, <2>4, ExactFrame
  <2> QED
    BY <2>4, <2>5
<1>6. /\ DependenciesOf(ts[i]) = DependenciesOf(qs[i]) /\ DefinedAs(ts[i], qs[i])
      /\ \A f \in DependenciesOf(qs[i]) : Position(ts, f) = Position(qs, f)
      /\ \A k \in DOMAIN qs[i].inputs : qs[i].inputs[k] \in DependenciesOf(qs[i])
      /\ qs[i].kind = "line" => 1 \in DOMAIN qs[i].inputs /\ 2 \in DOMAIN qs[i].inputs
  BY SameSources
<1>7. \A f \in DependenciesOf(qs[i]) : Position(qs, f) \in 1..(i - 1)
  BY SourceEarlier
<1>8. ~Stopped(ts, i)
  BY <1>1, <1>4, <1>6, <1>7 DEF Stopped
<1>9. ASSUME NEW k \in DOMAIN qs[i].inputs
      PROVE  /\ Source(ts, i, k) = Source(qs, i, k)
             /\ v.ents[Source(qs, i, k)] = w.ents[Source(qs, i, k)]
  <2>1. qs[i].inputs[k] \in DependenciesOf(qs[i])
    BY <1>6
  <2>2. Source(ts, i, k) = Source(qs, i, k)
    BY <1>4, <1>6, <1>7, <2>1 DEF Source, DefinedAs
  <2>3. Source(qs, i, k) \in Live(w)
    BY <1>1, <2>1, SourceReady DEF Source
  <2> QED
    BY <1>2, <2>2, <2>3
<1>10. qs[i].kind = "line" => Joinable(ts, v, i)
  <2> SUFFICES ASSUME qs[i].kind = "line" PROVE Joinable(ts, v, i)
    OBVIOUS
  <2>1. \A k \in 1..2 : /\ Source(ts, i, k) = Source(qs, i, k)
                        /\ v.ents[Source(qs, i, k)] = w.ents[Source(qs, i, k)]
    BY <1>6, <1>9
  <2> QED
    BY <1>2, <2>1 DEF Joinable, IsEdge, PointPayload
<1>11. Content(ts, v, i) = Content(qs, w, i)
  <2>1. CASE qs[i].kind = "line"
    BY <1>6, <1>9, <2>1 DEF Content, DefinedAs, PointPayload
  <2>2. CASE qs[i].kind # "line"
    BY <1>6, <2>2 DEF Content, DefinedAs
  <2> QED
    BY <2>1, <2>2
<1>12. Exact(ts, v, i)
  BY <1>2, <1>3, <1>6, <1>8, <1>10, <1>11 DEF Exact, DefinedAs
<1>13. ExactTo(ts, v, i)
  BY <1>0, <1>5, <1>12 DEF ExactTo
<1> QED
  BY <1>13 DEF v

(* Two materializations of the same definitions, record by record. *)
Alike(ps, w, qs, v, i) ==
    /\ ps[i].state = qs[i].state
    /\ ps[i].state = "ok" <=> ps[i].output # NoOutput
    /\ qs[i].state = "ok" <=> qs[i].output # NoOutput
    /\ ps[i].state = "ok" =>
           /\ IsEdge(w, ps[i].output) <=> IsEdge(v, qs[i].output)
           /\ Payload(w, ps[i].output) = Payload(v, qs[i].output)

AlikeTo(ps, w, qs, v, n) == \A i \in 1..n : Alike(ps, w, qs, v, i)

LEMMA SourcesAlike ==
    ASSUME NEW rs, WellOrdered(rs), NEW ps, SameDefinitions(ps, rs),
           NEW qs, SameDefinitions(qs, rs), NEW i \in 1..Len(rs),
           NEW w, NEW v, AlikeTo(ps, w, qs, v, i - 1)
    PROVE  /\ Stopped(ps, i) <=> Stopped(qs, i)
           /\ ~Stopped(qs, i) =>
                  \A k \in DOMAIN qs[i].inputs :
                      /\ IsEdge(w, Source(ps, i, k)) <=> IsEdge(v, Source(qs, i, k))
                      /\ Payload(w, Source(ps, i, k)) = Payload(v, Source(qs, i, k))
<1>1. /\ DependenciesOf(ps[i]) = DependenciesOf(qs[i]) /\ DefinedAs(ps[i], qs[i])
      /\ \A f \in DependenciesOf(qs[i]) : Position(ps, f) = Position(qs, f)
      /\ \A k \in DOMAIN qs[i].inputs : qs[i].inputs[k] \in DependenciesOf(qs[i])
  BY SameSources
<1>2. \A f \in DependenciesOf(qs[i]) : Position(qs, f) \in 1..(i - 1)
  BY SourceEarlier
<1>3. \A f \in DependenciesOf(qs[i]) : Alike(ps, w, qs, v, Position(qs, f))
  BY <1>2 DEF AlikeTo
<1>4. Stopped(ps, i) <=> Stopped(qs, i)
  BY <1>1, <1>3 DEF Stopped, Alike
<1>5. ASSUME ~Stopped(qs, i), NEW k \in DOMAIN qs[i].inputs
      PROVE  /\ IsEdge(w, Source(ps, i, k)) <=> IsEdge(v, Source(qs, i, k))
             /\ Payload(w, Source(ps, i, k)) = Payload(v, Source(qs, i, k))
  <2> DEFINE j == Position(qs, qs[i].inputs[k])
  <2>1. qs[i].inputs[k] \in DependenciesOf(qs[i])
    BY <1>1
  <2>2. Alike(ps, w, qs, v, j) /\ qs[j].state = "ok"
    BY <1>3, <1>5, <2>1 DEF Stopped
  <2>3. Source(ps, i, k) = ps[j].output /\ Source(qs, i, k) = qs[j].output
    BY <1>1, <2>1 DEF Source, DefinedAs
  <2> HIDE DEF j
  <2> QED
    BY <2>2, <2>3 DEF Alike
<1> QED
  BY <1>4, <1>5

(* What the definitions make, they make wherever they are replayed. *)
LEMMA ExactAlike ==
    ASSUME NEW rs, WellOrdered(rs), NEW ps, SameDefinitions(ps, rs),
           NEW qs, SameDefinitions(qs, rs), NEW n \in 0..Len(rs),
           NEW w, Sound(w), ExactTo(ps, w, n), NEW v, Sound(v), ExactTo(qs, v, n)
    PROVE  AlikeTo(ps, w, qs, v, n)
<1> DEFINE T == {m \in 0..n : AlikeTo(ps, w, qs, v, m)}
<1>0. Len(rs) \in Nat /\ n \in Nat
  BY DEF WellOrdered
<1>1. 0 \in T
  BY <1>0 DEF AlikeTo
<1>2. ASSUME NEW m \in 0..n, m \in T, m < n PROVE m + 1 \in T
  <2> DEFINE i == m + 1
  <2>1. i \in 1..Len(rs) /\ i \in 1..n /\ i - 1 = m /\ 1..i = 1..m \cup {i} /\ i \in 0..n
    BY <1>0, <1>2
  <2>2. AlikeTo(ps, w, qs, v, i - 1)
    BY <1>2, <2>1
  <2> HIDE DEF i
  <2>3. Exact(ps, w, i) /\ Exact(qs, v, i)
    BY <2>1 DEF ExactTo
  <2>4. /\ DefinedAs(ps[i], qs[i])
        /\ qs[i].kind = "line" => 1 \in DOMAIN qs[i].inputs /\ 2 \in DOMAIN qs[i].inputs
    BY <2>1, SameSources
  <2>5. /\ Stopped(ps, i) <=> Stopped(qs, i)
        /\ ~Stopped(qs, i) =>
               \A k \in DOMAIN qs[i].inputs :
                   /\ IsEdge(w, Source(ps, i, k)) <=> IsEdge(v, Source(qs, i, k))
                   /\ Payload(w, Source(ps, i, k)) = Payload(v, Source(qs, i, k))
    BY <2>1, <2>2, SourcesAlike
  <2>6. NoOutput \notin Live(w) /\ NoOutput \notin Live(v)
    BY DEF Sound, NoOutput
  <2>7. ASSUME qs[i].suppressed \/ Stopped(qs, i) PROVE Alike(ps, w, qs, v, i)
    <3>1. /\ ps[i].output = NoOutput /\ qs[i].output = NoOutput
          /\ ps[i].state = qs[i].state /\ qs[i].state # "ok"
      <4>1. (Stopped(ps, i) <=> Stopped(qs, i)) /\ ps[i].suppressed = qs[i].suppressed
        BY <2>4, <2>5 DEF DefinedAs
      <4> QED
        BY <2>3, <2>7, <4>1 DEF Exact
    <3> QED
      BY <3>1 DEF Alike
  <2>8. ASSUME ~qs[i].suppressed /\ ~Stopped(qs, i) PROVE Alike(ps, w, qs, v, i)
    <3>1. /\ ps[i].state = "ok" /\ ps[i].output \in Live(w)
          /\ IsEdge(w, ps[i].output) <=> ps[i].kind = "line"
          /\ ps[i].kind = "line" => Joinable(ps, w, i)
          /\ Payload(w, ps[i].output) = Content(ps, w, i)
      BY <2>3, <2>4, <2>5, <2>8 DEF Exact, DefinedAs
    <3>2. /\ qs[i].state = "ok" /\ qs[i].output \in Live(v)
          /\ IsEdge(v, qs[i].output) <=> qs[i].kind = "line"
          /\ qs[i].kind = "line" => Joinable(qs, v, i)
          /\ Payload(v, qs[i].output) = Content(qs, v, i)
      BY <2>3, <2>8 DEF Exact
    <3>3. Content(ps, w, i) = Content(qs, v, i)
      <4>1. CASE qs[i].kind # "line"
        BY <2>4, <4>1 DEF Content, DefinedAs
      <4>2. CASE qs[i].kind = "line"
        <5>1. \A k \in 1..2 : k \in DOMAIN qs[i].inputs
          BY <2>4, <4>2
        <5>2. \A k \in 1..2 : Payload(w, Source(ps, i, k)) = Payload(v, Source(qs, i, k))
          BY <2>5, <2>8, <5>1
        <5>3. \A k \in 1..2 : ~IsEdge(w, Source(ps, i, k)) /\ ~IsEdge(v, Source(qs, i, k))
          BY <2>4, <3>1, <3>2, <4>2 DEF Joinable, DefinedAs
        <5>4. \A k \in 1..2 :
                  PointPayload(w, Source(ps, i, k)) = PointPayload(v, Source(qs, i, k))
          BY <5>2, <5>3 DEF Payload
        <5> QED
          BY <2>4, <4>2, <5>4 DEF Content, DefinedAs
      <4> QED
        BY <4>1, <4>2
    <3>4. ps[i].output # NoOutput /\ qs[i].output # NoOutput
      BY <2>6, <3>1, <3>2
    <3>5. IsEdge(w, ps[i].output) <=> IsEdge(v, qs[i].output)
      BY <2>4, <3>1, <3>2 DEF DefinedAs
    <3>6. Payload(w, ps[i].output) = Payload(v, qs[i].output)
      BY <3>1, <3>2, <3>3
    <3>7. ps[i].state = "ok" /\ qs[i].state = "ok"
      BY <3>1, <3>2
    <3> QED
      BY <3>4, <3>5, <3>6, <3>7 DEF Alike
  <2>9. AlikeTo(ps, w, qs, v, i)
    BY <2>1, <2>2, <2>7, <2>8 DEF AlikeTo
  <2> QED
    BY <2>1, <2>9 DEF i
<1>3. n \in T
  <2> HIDE DEF T
  <2>1. \A m \in 0..n : m \in T
    BY <1>0, <1>1, <1>2, SegmentInduction
  <2> QED
    BY <1>0, <2>1
<1> QED
  BY <1>3

-----------------------------------------------------------------------------
(* Replaying a suffix on the live geometry *)

Replayable == WellOrdered(records) /\ Sound(geometry) /\ Rooted(records, geometry)

Old(i) == records[i].output

(* Another output than before has another content and a new identifier.    *)
Renewed(w, i, new) ==
    Old(i) # NoOutput /\ new # NoOutput /\ new # Old(i) =>
        new >= geometry.next /\ Payload(w, new) # Payload(geometry, Old(i))

(* Where a replay of the records from start on stands after record k.      *)
Incremental(s, start, k, forceNew) ==
    /\ IsReplay(s)
    /\ SameDefinitions(s.records, records)
    /\ Grown(geometry, s.work)
    /\ Rooted(s.records, s.work)
    /\ \A i \in 1..Len(records) : i < start \/ i > k => s.records[i] = records[i]
    /\ \A e \in Live(s.work) \ Live(geometry) :
           e \in s.discard \/ \E i \in 1..k : s.records[i].output = e
    /\ \A i \in 1..k :
           Old(i) # NoOutput =>
               s.records[i].output = Old(i) \/ Closure(geometry, {Old(i)}) \subseteq s.retire
    /\ Binding(s.roles)
    /\ \A e \in DOMAIN s.roles.map :
           /\ e \in 1..(s.work.next - 1)
           /\ e >= geometry.next \/ \E i \in 1..k : s.records[i].output = e
    /\ ~forceNew =>
           /\ \A e \in Live(geometry) : s.work.ents[e] = geometry.ents[e]
           /\ \A i \in 1..k : Renewed(s.work, i, s.records[i].output)
    /\ ~forceNew /\ Additive(records) /\ ExactTo(records, geometry, start - 1)
           => ExactTo(s.records, s.work, k)

LEMMA ReplayBegins ==
    ASSUME Replayable, NEW start \in 1..(Len(records) + 1), NEW forceNew
    PROVE  Incremental(Replaying(records, geometry), start, start - 1, forceNew)
<1> DEFINE s == Replaying(records, geometry)
<1>1. /\ IsReplay(s) /\ s.records = records /\ s.work = geometry
      /\ s.roles = NoBindings
  BY DEF Replaying, IsReplay
<1>2. records \in Seq(Record) /\ Len(records) \in Nat
  BY DEF Replayable, WellOrdered
<1>3. SameDefinitions(s.records, records) /\ Grown(geometry, s.work)
        /\ Rooted(s.records, s.work)
  BY <1>1, <1>2, GrownReflexive DEF Replayable, SameDefinitions, DefinedAs
<1>4. DOMAIN s.roles.map = {} /\ Binding(s.roles)
  BY <1>1 DEF NoBindings, Binding
<1>5. \A i \in 1..(start - 1) : s.records[i].output = Old(i)
  BY <1>1 DEF Old
<1> HIDE DEF s
<1> QED
  BY <1>1, <1>3, <1>4, <1>5 DEF Incremental, Renewed, s

(* What one round may do. *)
Advances(s, t, i, forceNew) ==
    LET new == t.records[i].output
    IN  /\ IsReplay(t)
        /\ t.records \in Seq(Record) /\ Len(t.records) = Len(s.records)
        /\ DefinedAs(t.records[i], s.records[i])
        /\ \A j \in 1..Len(s.records) : j # i => t.records[j] = s.records[j]
        /\ Grown(s.work, t.work)
        /\ s.discard \subseteq t.discard /\ s.retire \subseteq t.retire
        /\ new # NoOutput => new \in Live(t.work)
        /\ \A e \in Live(t.work) \ Live(s.work) : e \in t.discard \/ e = new
        /\ Old(i) # NoOutput =>
               new = Old(i) \/ Closure(geometry, {Old(i)}) \subseteq t.retire
        /\ Binding(t.roles)
        /\ \A e \in DOMAIN t.roles.map \ DOMAIN s.roles.map :
               /\ e \in 1..(t.work.next - 1)
               /\ e >= geometry.next \/ \E j \in 1..(i - 1) : s.records[j].output = e
        /\ ~forceNew =>
               /\ \A e \in Live(s.work) : t.work.ents[e] = s.work.ents[e]
               /\ Renewed(t.work, i, new)
        /\ ~forceNew /\ Additive(records) /\ ExactTo(s.records, s.work, i - 1)
               => ExactTo(t.records, t.work, i)

LEMMA ReplayGoesOn ==
    ASSUME Replayable, NEW start \in 1..(Len(records) + 1), NEW forceNew,
           NEW i \in start..Len(records),
           NEW s, Incremental(s, start, i - 1, forceNew),
           NEW t, Advances(s, t, i, forceNew)
    PROVE  Incremental(t, start, i, forceNew)
<1> USE DEF Advances
<1> DEFINE new == t.records[i].output
<1>0. /\ Len(records) \in Nat /\ Len(s.records) = Len(records)
      /\ start \in Nat /\ i \in 1..Len(records) /\ i - 1 \in 0..Len(records)
      /\ 1..i = 1..(i - 1) \cup {i}
      /\ Sound(geometry) /\ Sound(s.work) /\ Sound(t.work)
  BY DEF Replayable, WellOrdered, Incremental, SameDefinitions, Grown
<1>1. \A j \in 1..Len(records) : j # i => t.records[j] = s.records[j]
  BY <1>0
<1>2. SameDefinitions(t.records, records)
  <2>1. SameDefinitions(s.records, records)
    BY DEF Incremental
  <2>2. \A j \in 1..Len(s.records) : DefinedAs(t.records[j], s.records[j])
    BY <1>0, <1>1 DEF DefinedAs
  <2> QED
    BY <2>1, <2>2, DefinitionsTransitive
<1>3. Grown(geometry, t.work)
  BY <1>0, GrownTransitive DEF Incremental
<1>4. Live(s.work) \subseteq Live(t.work) /\ s.work.next <= t.work.next
        /\ s.work.next \in Nat /\ t.work.next \in Nat
  BY <1>0 DEF Grown, Sound
<1>5. Rooted(t.records, t.work)
  <2>1. DOMAIN t.records = 1..Len(records) /\ DOMAIN s.records = 1..Len(records)
    BY <1>0 DEF Incremental, SameDefinitions
  <2>2. Rooted(s.records, s.work)
    BY DEF Incremental
  <2> QED
    BY <1>1, <1>4, <2>1, <2>2 DEF Rooted
<1>6. \A j \in 1..Len(records) : j < start \/ j > i => t.records[j] = records[j]
  <2> SUFFICES ASSUME NEW j \in 1..Len(records), j < start \/ j > i
               PROVE  t.records[j] = records[j]
    OBVIOUS
  <2>1. j # i /\ (j < start \/ j > i - 1)
    BY <1>0
  <2> QED
    BY <1>1, <2>1 DEF Incremental
<1>7. \A j \in 1..(i - 1) : t.records[j] = s.records[j]
  BY <1>0, <1>1
<1>8. ASSUME NEW e \in Live(t.work) \ Live(geometry)
      PROVE  e \in t.discard \/ \E j \in 1..i : t.records[j].output = e
  <2>1. CASE e \in Live(s.work)
    BY <1>0, <1>7, <2>1 DEF Incremental
  <2>2. CASE e \notin Live(s.work)
    BY <1>0, <2>2
  <2> QED
    BY <2>1, <2>2
<1>9. ASSUME NEW j \in 1..i, Old(j) # NoOutput
      PROVE  t.records[j].output = Old(j) \/ Closure(geometry, {Old(j)}) \subseteq t.retire
  BY <1>0, <1>7, <1>9 DEF Incremental
<1>10. ASSUME NEW e \in DOMAIN t.roles.map
       PROVE  /\ e \in 1..(t.work.next - 1)
              /\ e >= geometry.next \/ \E j \in 1..i : t.records[j].output = e
  <2>1. CASE e \in DOMAIN s.roles.map
    <3>1. /\ e \in 1..(s.work.next - 1)
          /\ e >= geometry.next \/ \E j \in 1..(i - 1) : s.records[j].output = e
      BY <2>1 DEF Incremental
    <3> QED
      BY <1>0, <1>4, <1>7, <3>1
  <2>2. CASE e \notin DOMAIN s.roles.map
    BY <1>0, <1>7, <2>2
  <2> QED
    BY <2>1, <2>2
<1>11. ASSUME ~forceNew
       PROVE  /\ \A e \in Live(geometry) : t.work.ents[e] = geometry.ents[e]
              /\ \A j \in 1..i : Renewed(t.work, j, t.records[j].output)
  <2>1. \A e \in Live(geometry) : e \in Live(s.work)
    BY DEF Incremental, Grown
  <2>2. \A e \in Live(geometry) : t.work.ents[e] = geometry.ents[e]
    BY <1>11, <2>1 DEF Incremental
  <2>3. ASSUME NEW j \in 1..(i - 1) PROVE Renewed(t.work, j, t.records[j].output)
    <3> DEFINE o == s.records[j].output
    <3>1. Renewed(s.work, j, o) /\ t.records[j].output = o
      BY <1>7, <1>11 DEF Incremental
    <3>2. o # NoOutput => Payload(t.work, o) = Payload(s.work, o)
      <4> SUFFICES ASSUME o # NoOutput PROVE Payload(t.work, o) = Payload(s.work, o)
        OBVIOUS
      <4>1. o \in Live(s.work)
        BY <1>0 DEF Incremental, Rooted, SameDefinitions
      <4>2. {o} \cup Tips(s.work, o) \subseteq Live(s.work)
        BY <1>0, <4>1 DEF Sound
      <4> HIDE DEF o
      <4> QED
        BY <1>11, <4>2, PayloadSame
    <3> HIDE DEF o
    <3> QED
      BY <3>1, <3>2 DEF Renewed
  <2> QED
    BY <1>0, <1>11, <2>2, <2>3
<1>12. ~forceNew /\ Additive(records) /\ ExactTo(records, geometry, start - 1)
           => ExactTo(t.records, t.work, i)
  BY DEF Incremental
<1> QED
  BY <1>2, <1>3, <1>5, <1>6, <1>8, <1>9, <1>10, <1>11, <1>12 DEF Incremental

LEMMA RetiringEffect ==
    ASSUME NEW s, IsReplay(s), NEW old
    PROVE  LET t == Retiring(s, old)
           IN  /\ IsReplay(t) /\ t.records = s.records /\ t.work = s.work
               /\ t.discard = s.discard /\ t.roles = s.roles /\ t.ok = s.ok
               /\ s.retire \subseteq t.retire
               /\ old # NoOutput => Closure(geometry, {old}) \subseteq t.retire
<1> DEFINE t == Retiring(s, old)
           gone == s.retire
                   \cup (IF old = NoOutput THEN {} ELSE Closure(geometry, {old}))
<1>1. t = [records |-> s.records, work |-> s.work, retire |-> gone,
           discard |-> s.discard, roles |-> s.roles, ok |-> s.ok]
  <2>1. t = [s EXCEPT !.retire = gone]
    BY DEF Retiring
  <2> HIDE DEF t, gone
  <2> QED
    BY <2>1 DEF IsReplay
<1>2. s.retire \subseteq gone
      /\ (old # NoOutput => Closure(geometry, {old}) \subseteq gone)
  OBVIOUS
<1> HIDE DEF t, gone
<1>3. /\ IsReplay(t) /\ t.records = s.records /\ t.work = s.work
      /\ t.discard = s.discard /\ t.roles = s.roles /\ t.ok = s.ok
      /\ t.retire = gone
  BY <1>1 DEF IsReplay
<1> QED
  BY <1>2, <1>3 DEF t

(* A record is given outputs of earlier records. *)
LEMMA GivenEarlier ==
    ASSUME NEW rs, WellOrdered(rs), NEW qs, SameDefinitions(qs, rs),
           NEW w, Sound(w), Rooted(qs, w), NEW i \in 1..Len(rs),
           NEW r, r = qs[i], NEW e \in Given(w, qs, r)
    PROVE  \E j \in 1..(i - 1) : qs[j].output = e
<1>1. PICK f \in Members(qs[i].inputs) : e \in InputEntities(w, qs, f)
  BY DEF Given
<1>2. DOMAIN rs = 1..Len(rs) /\ DOMAIN qs = 1..Len(rs) /\ Len(rs) \in Nat
  BY DEF WellOrdered, SameDefinitions
<1>3. f \in DependenciesOf(rs[i])
  BY <1>1 DEF SameDefinitions, DefinedAs, DependenciesOf
<1>4. PICK j \in 1..(i - 1) : rs[j].id = f
  BY <1>2, <1>3 DEF WellOrdered, Valid
<1>5. j \in 1..Len(rs) /\ Position(qs, f) = j
  BY <1>2, <1>4, PositionOf
<1>6. /\ qs[j].output # NoOutput /\ e \in Resolve(w, qs[j].output)
  BY <1>1, <1>5 DEF InputEntities
<1>7. Resolve(w, qs[j].output) = {qs[j].output}
  BY <1>2, <1>5, <1>6, ResolveLive DEF Rooted
<1> QED
  BY <1>6, <1>7

Skipped(s, i, state) ==
    \/ s.records[i].suppressed /\ state = "suppressed"
    \/ /\ ~s.records[i].suppressed /\ Blocked(s.work, s.records, s.records[i])
       /\ state = "blocked"

(* A suppressed or blocked record: its old output is to be retired. *)
LEMMA IncrementalSkips ==
    ASSUME Replayable, NEW start \in 1..(Len(records) + 1), NEW forceNew,
           NEW i \in start..Len(records),
           NEW s, Incremental(s, start, i - 1, forceNew),
           NEW state \in States, Skipped(s, i, state)
    PROVE  Incremental(Retiring(Settle(s, i, state, NoOutput), records[i].output),
                       start, i, forceNew)
<1> DEFINE u == Settle(s, i, state, NoOutput)
           t == Retiring(u, records[i].output)
<1>1. /\ IsReplay(s) /\ s.records \in Seq(Record) /\ i \in 1..Len(s.records)
      /\ NoOutput \in Nat /\ Sound(s.work)
  BY DEF Replayable, WellOrdered, Incremental, SameDefinitions, Grown, NoOutput
<1>2. /\ IsReplay(u) /\ u.work = s.work /\ u.retire = s.retire
      /\ u.discard = s.discard /\ u.roles = s.roles /\ u.ok = s.ok
      /\ u.records \in Seq(Record) /\ Len(u.records) = Len(s.records)
      /\ DefinedAs(u.records[i], s.records[i])
      /\ u.records[i].state = state /\ u.records[i].output = NoOutput
      /\ \A j \in 1..Len(s.records) : j # i => u.records[j] = s.records[j]
  BY <1>1, SettleEffect
<1> HIDE DEF u
<1>3. /\ IsReplay(t) /\ t.records = u.records /\ t.work = u.work
      /\ t.discard = u.discard /\ t.roles = u.roles /\ t.ok = u.ok
      /\ u.retire \subseteq t.retire
      /\ Old(i) # NoOutput => Closure(geometry, {Old(i)}) \subseteq t.retire
  BY <1>2, RetiringEffect DEF Old
<1> HIDE DEF t
<1>4. Grown(s.work, t.work)
  BY <1>1, <1>2, <1>3, GrownReflexive
<1>5. Renewed(t.work, i, NoOutput)
  BY DEF Renewed
<1>6. Binding(t.roles)
  BY <1>2, <1>3 DEF Incremental
<1>7. ExactTo(s.records, s.work, i - 1) => ExactTo(t.records, t.work, i)
  <2>1. WellOrdered(records) /\ SameDefinitions(s.records, records) /\ i \in 1..Len(records)
    BY <1>1 DEF Replayable, Incremental, SameDefinitions
  <2>2. SameDefinitions(t.records, records)
    <3>1. /\ t.records \in Seq(Record) /\ Len(t.records) = Len(s.records)
          /\ DefinedAs(t.records[i], s.records[i])
          /\ \A j \in 1..Len(s.records) : j # i => t.records[j] = s.records[j]
      BY <1>2, <1>3
    <3> QED
      BY <2>1, <3>1, ChangedOnce
  <2>3. /\ t.work = s.work /\ t.records[i].output = NoOutput
        /\ \A j \in 1..Len(records) : j # i => t.records[j] = s.records[j]
    BY <1>2, <1>3, <2>1 DEF SameDefinitions
  <2>4. \/ s.records[i].suppressed /\ t.records[i].state = "suppressed"
        \/ /\ ~s.records[i].suppressed /\ Blocked(s.work, s.records, s.records[i])
           /\ t.records[i].state = "blocked"
    BY <1>2, <1>3 DEF Skipped
  <2> SUFFICES ASSUME ExactTo(s.records, s.work, i - 1)
               PROVE  ExactTo(t.records, s.work, i)
    BY <2>3
  <2> HIDE DEF t
  <2> QED
    BY <1>1, <2>1, <2>2, <2>3, <2>4, RoundSkips, ZenonT(60)
<1>8. Incremental(t, start, i, forceNew)
  BY <1>2, <1>3, <1>4, <1>5, <1>6, <1>7, ReplayGoesOn DEF Advances
<1> QED
  BY <1>8 DEF t, u

(* A record that is neither is executed. *)
Executed(s, x, i, forceNew) ==
    /\ Grown(s.work, x.work) /\ x.output \in Live(x.work)
    /\ Live(x.work) \subseteq Live(s.work) \cup {x.output}
    /\ ~forceNew => /\ x.output >= geometry.next
                    /\ \A e \in Live(s.work) : x.work.ents[e] = s.work.ents[e]
                    /\ Tips(x.work, x.output)
                           \subseteq Given(s.work, s.records, s.records[i])

Executable(s, x, i) ==
    /\ ~s.records[i].suppressed /\ ~Blocked(s.work, s.records, s.records[i])
    /\ x = Execute(s.work, s.records, s.records[i]) /\ x.ok

(* _regenerate_incremental is called with force_new for a modifier only. *)
ForcedBy(start, forceNew) == forceNew <=> Modifiers(start) # {}

LEMMA IncrementalExecutes ==
    ASSUME Replayable, NEW start \in 1..(Len(records) + 1), NEW forceNew,
           ForcedBy(start, forceNew),
           NEW i \in start..Len(records),
           NEW s, Incremental(s, start, i - 1, forceNew),
           NEW x, Executable(s, x, i)
    PROVE  Executed(s, x, i, forceNew)
<1> DEFINE r == s.records[i]
<1>1. /\ Len(records) \in Nat /\ i \in 1..Len(records) /\ i > i - 1
      /\ start \in Nat /\ Sound(s.work) /\ geometry.next <= s.work.next
  BY DEF Replayable, WellOrdered, Incremental, Grown
<1>2. r = records[i]
  BY <1>1 DEF Incremental
<1>3. Ports(r) /\ records[i] \in Record
  BY <1>1, <1>2 DEF Replayable, WellOrdered
<1>4. Executes(s.work, s.records, r, x)
  <2> HIDE DEF r
  <2> QED
    BY <1>1, <1>3, ExecuteEffect DEF r, Executable
<1>5. ~forceNew => records[i].kind # "transform"
  BY <1>1, <1>2 DEF Modifiers, Executable, ForcedBy
<1>6. x.output \in Live(x.work) /\ Live(x.work) \subseteq Live(s.work) \cup {x.output}
  BY <1>4 DEF Executes, Grown
<1> QED
  BY <1>1, <1>2, <1>4, <1>5, <1>6 DEF Executes, Executed

(* Where nothing is moved, what a record gets is as its definition has it. *)
LEMMA IncrementalMakes ==
    ASSUME Replayable, NEW start \in 1..(Len(records) + 1),
           NEW i \in start..Len(records), NEW forceNew, ~forceNew,
           NEW s, Incremental(s, start, i - 1, forceNew),
           NEW x, Executable(s, x, i), Executed(s, x, i, forceNew), Additive(records),
           NEW t, t.records \in Seq(Record), Len(t.records) = Len(s.records),
           DefinedAs(t.records[i], s.records[i]),
           \A j \in 1..Len(s.records) : j # i => t.records[j] = s.records[j],
           t.records[i].state = "ok", t.records[i].output \in Live(x.work),
           IsEdge(x.work, t.records[i].output) <=> IsEdge(x.work, x.output),
           Payload(x.work, t.records[i].output) = Payload(x.work, x.output),
           ExactTo(s.records, s.work, i - 1)
    PROVE  ExactTo(t.records, x.work, i)
<1>1. WellOrdered(records) /\ SameDefinitions(s.records, records) /\ Sound(s.work)
        /\ Len(records) \in Nat /\ Len(s.records) = Len(records)
  BY DEF Replayable, WellOrdered, Incremental, SameDefinitions, Grown
<1>2. i \in 1..Len(records)
  BY <1>1
<1>3. SameDefinitions(t.records, records)
  BY <1>1, ChangedOnce
<1>4. s.records[i].kind # "transform"
  BY <1>1, <1>2 DEF Additive, SameDefinitions, DefinedAs, WellOrdered
<1>5. Live(s.work) \subseteq Live(x.work)
  BY DEF Executed, Grown
<1> QED
  BY <1>1, <1>2, <1>3, <1>4, <1>5, RoundMakes DEF Executable

(* Another output than before replaces what the record had. *)
LEMMA IncrementalRenews ==
    ASSUME Replayable, NEW start \in 1..(Len(records) + 1), NEW forceNew,
           ForcedBy(start, forceNew),
           NEW i \in start..Len(records),
           NEW s, Incremental(s, start, i - 1, forceNew),
           NEW x, Executable(s, x, i),
           ~KeepsBinding(geometry, Old(i), x.work, x.output, forceNew)
    PROVE  Incremental(RenewOutput(s, i, x), start, i, forceNew)
<1> DEFINE u == Settle(s, i, "ok", x.output)
           v == [u EXCEPT !.work = x.work]
           t == Retiring(v, records[i].output)
<1>1. /\ Grown(s.work, x.work) /\ x.output \in Live(x.work)
      /\ Live(x.work) \subseteq Live(s.work) \cup {x.output}
      /\ ~forceNew => /\ x.output >= geometry.next
                      /\ \A e \in Live(s.work) : x.work.ents[e] = s.work.ents[e]
  BY IncrementalExecutes DEF Executed
<1>2. /\ IsReplay(s) /\ s.records \in Seq(Record) /\ i \in 1..Len(s.records)
      /\ Sound(x.work) /\ "ok" \in States /\ i \in 1..Len(records)
  BY <1>1 DEF Replayable, WellOrdered, Incremental, SameDefinitions, Grown, States
<1>3. x.output \in Nat
  BY <1>1, <1>2 DEF Sound
<1>4. /\ IsReplay(u) /\ u.work = s.work /\ u.retire = s.retire
      /\ u.discard = s.discard /\ u.roles = s.roles
      /\ u.records \in Seq(Record) /\ Len(u.records) = Len(s.records)
      /\ DefinedAs(u.records[i], s.records[i])
      /\ u.records[i].output = x.output /\ u.records[i].state = "ok"
      /\ \A j \in 1..Len(s.records) : j # i => u.records[j] = s.records[j]
  BY <1>2, <1>3, SettleEffect
<1> HIDE DEF u
<1>5. /\ IsReplay(v) /\ v.work = x.work /\ v.records = u.records
      /\ v.retire = u.retire /\ v.discard = u.discard /\ v.roles = u.roles
  BY <1>4 DEF IsReplay
<1> HIDE DEF v
<1>6. /\ IsReplay(t) /\ t.records = v.records /\ t.work = v.work
      /\ t.discard = v.discard /\ t.roles = v.roles
      /\ v.retire \subseteq t.retire
      /\ Old(i) # NoOutput => Closure(geometry, {Old(i)}) \subseteq t.retire
  BY <1>5, RetiringEffect DEF Old
<1> HIDE DEF t
<1>7. ~forceNew => Renewed(x.work, i, x.output)
  <2> SUFFICES ASSUME ~forceNew, Old(i) # NoOutput
               PROVE  /\ x.output >= geometry.next
                      /\ Payload(x.work, x.output) # Payload(geometry, Old(i))
    BY DEF Renewed
  <2>1. ~SameOutput(geometry, Old(i), x.work, x.output)
    BY DEF KeepsBinding
  <2>2. Resolve(geometry, Old(i)) = {Old(i)}
    BY <1>2, ResolveLive DEF Replayable, WellOrdered, Rooted, Old
  <2> QED
    BY <1>1, <2>1, <2>2 DEF SameOutput
<1>8. Binding(t.roles)
  BY <1>4, <1>5, <1>6 DEF Incremental
<1>9. /\ t.records = u.records /\ t.work = x.work /\ t.discard = s.discard
      /\ t.roles = s.roles /\ s.retire \subseteq t.retire
      /\ \A e \in Live(t.work) \ Live(s.work) : e = x.output
  BY <1>1, <1>4, <1>5, <1>6
<1>10. ~forceNew /\ Additive(records) /\ ExactTo(s.records, s.work, i - 1)
           => ExactTo(t.records, t.work, i)
  <2> SUFFICES ASSUME ~forceNew, Additive(records), ExactTo(s.records, s.work, i - 1)
               PROVE  ExactTo(t.records, t.work, i)
    OBVIOUS
  <2>1. Executed(s, x, i, forceNew)
    BY IncrementalExecutes
  <2>2. ExactTo(t.records, x.work, i)
    BY <1>1, <1>4, <1>9, <2>1, IncrementalMakes
  <2> QED
    BY <1>9, <2>2
<1>11. Advances(s, t, i, forceNew)
  BY <1>1, <1>4, <1>6, <1>7, <1>8, <1>9, <1>10 DEF Advances
<1>12. Incremental(t, start, i, forceNew)
  BY <1>11, ReplayGoesOn
<1> QED
  BY <1>12 DEF t, v, u, RenewOutput

KindKept(x, i) == x.work.ents[x.output].kind = geometry.ents[Old(i)].kind

(* An unchanged output stays, and the roles of its copy lead to it. *)
LEMMA IncrementalKeeps ==
    ASSUME Replayable, NEW start \in 1..(Len(records) + 1), NEW forceNew,
           ForcedBy(start, forceNew),
           NEW i \in start..Len(records),
           NEW s, Incremental(s, start, i - 1, forceNew),
           NEW x, Executable(s, x, i),
           KeepsBinding(geometry, Old(i), x.work, x.output, forceNew),
           KindKept(x, i),
           NEW roles, roles = BindRoles(s.roles, x.work, x.output, geometry, Old(i))
    PROVE  Incremental(KeepOutput(s, i, x, roles), start, i, forceNew)
<1> DEFINE u == Settle(s, i, "ok", Old(i))
           gone == Closure(x.work, {x.output})
           t == KeepOutput(s, i, x, roles)
<1>1. /\ ~forceNew /\ Old(i) # NoOutput
      /\ Grown(s.work, x.work) /\ x.output \in Live(x.work)
      /\ Live(x.work) \subseteq Live(s.work) \cup {x.output}
      /\ x.output >= geometry.next
      /\ \A e \in Live(s.work) : x.work.ents[e] = s.work.ents[e]
      /\ Tips(x.work, x.output) \subseteq Given(s.work, s.records, s.records[i])
  <2>1. ~forceNew /\ Old(i) # NoOutput
    BY DEF KeepsBinding
  <2>2. Executed(s, x, i, forceNew)
    BY IncrementalExecutes
  <2> QED
    BY <2>1, <2>2 DEF Executed
<1>2. /\ IsReplay(s) /\ s.records \in Seq(Record) /\ i \in 1..Len(s.records)
      /\ Len(s.records) = Len(records)
      /\ Sound(x.work) /\ Sound(s.work) /\ "ok" \in States /\ i \in 1..Len(records)
      /\ Live(geometry) \subseteq Live(s.work) /\ Live(s.work) \subseteq Live(x.work)
      /\ SameDefinitions(s.records, records) /\ Rooted(s.records, s.work)
      /\ WellOrdered(records) /\ Binding(s.roles)
  BY <1>1 DEF Replayable, WellOrdered, Incremental, SameDefinitions, Grown, States
<1>3. Old(i) \in Live(geometry) /\ Old(i) \in Nat
  BY <1>1, <1>2 DEF Replayable, Rooted, Old, Sound, WellOrdered
<1>4. /\ IsReplay(u) /\ u.work = s.work /\ u.retire = s.retire
      /\ u.discard = s.discard /\ u.roles = s.roles
      /\ u.records \in Seq(Record) /\ Len(u.records) = Len(s.records)
      /\ DefinedAs(u.records[i], s.records[i])
      /\ u.records[i].output = Old(i) /\ u.records[i].state = "ok"
      /\ \A j \in 1..Len(s.records) : j # i => u.records[j] = s.records[j]
  BY <1>2, <1>3, SettleEffect
<1>5. t = [u EXCEPT !.work = x.work, !.discard = u.discard \cup gone,
                    !.roles = roles, !.ok = roles.ok]
  BY DEF KeepOutput, Old
<1> HIDE DEF u, t
<1>6. /\ IsReplay(t) /\ t.work = x.work /\ t.records = u.records
      /\ t.retire = u.retire /\ t.discard = u.discard \cup gone /\ t.roles = roles
  <2> HIDE DEF gone
  <2>1. t = [records |-> u.records, work |-> x.work, retire |-> u.retire,
             discard |-> u.discard \cup gone, roles |-> roles, ok |-> roles.ok]
    BY <1>4, <1>5 DEF IsReplay
  <2> QED
    BY <2>1 DEF IsReplay
<1>7. x.output \in gone
  BY <1>1, <1>2, ClosureLive
<1> HIDE DEF gone
<1>8. BindsMore(s.roles, roles, {x.output} \cup Tips(x.work, x.output))
  BY <1>2, BindRolesEffect
<1>9. ASSUME NEW e \in DOMAIN roles.map \ DOMAIN s.roles.map
      PROVE  /\ e \in 1..(x.work.next - 1)
             /\ e >= geometry.next \/ \E j \in 1..(i - 1) : s.records[j].output = e
  <2>1. e = x.output \/ e \in Tips(x.work, x.output)
    BY <1>8 DEF BindsMore
  <2>2. e \in Live(x.work)
    BY <1>1, <1>2, <2>1 DEF Sound
  <2>3. e \in 1..(x.work.next - 1)
    BY <1>2, <2>2 DEF Sound
  <2>4. CASE e \in Tips(x.work, x.output)
    <3>1. e \in Given(s.work, s.records, s.records[i])
      BY <1>1, <2>4
    <3>2. \E j \in 1..(i - 1) : s.records[j].output = e
      <4> DEFINE qs == s.records
                 w == s.work
                 r == qs[i]
      <4>1. /\ WellOrdered(records) /\ SameDefinitions(qs, records) /\ Sound(w)
            /\ Rooted(qs, w) /\ i \in 1..Len(records) /\ r = qs[i]
            /\ e \in Given(w, qs, r)
        BY <1>2, <3>1
      <4> HIDE DEF qs, w, r
      <4>2. \E j \in 1..(i - 1) : qs[j].output = e
        BY <4>1, GivenEarlier
      <4> QED
        BY <4>2 DEF qs
    <3> QED
      BY <2>3, <3>2
  <2> QED
    BY <1>1, <2>1, <2>3, <2>4
<1>10. Renewed(x.work, i, Old(i))
  BY DEF Renewed
<1>11. Additive(records) /\ ExactTo(s.records, s.work, i - 1)
           => ExactTo(t.records, t.work, i)
  <2> SUFFICES ASSUME Additive(records), ExactTo(s.records, s.work, i - 1)
               PROVE  ExactTo(t.records, t.work, i)
    OBVIOUS
  <2>1. Executed(s, x, i, forceNew)
    BY IncrementalExecutes
  <2>2. \A e \in Live(geometry) : x.work.ents[e] = geometry.ents[e]
    BY <1>1, <1>2 DEF Incremental
  <2>3. {Old(i)} \cup Tips(geometry, Old(i)) \subseteq Live(geometry)
    BY <1>3 DEF Replayable, Sound
  <2>4. Payload(x.work, Old(i)) = Payload(geometry, Old(i))
    BY <2>2, <2>3, PayloadSame
  <2>5. Payload(geometry, Old(i)) = Payload(x.work, x.output)
    <3>1. SameOutput(geometry, Old(i), x.work, x.output)
      BY DEF KeepsBinding
    <3>2. Resolve(geometry, Old(i)) = {Old(i)}
      BY <1>3, ResolveLive DEF Replayable
    <3> QED
      BY <3>1, <3>2 DEF SameOutput
  <2>6. IsEdge(x.work, Old(i)) <=> IsEdge(x.work, x.output)
    BY <1>3, <2>2 DEF IsEdge, KindKept
  <2>7. /\ t.records[i].output = Old(i) /\ Old(i) \in Live(x.work)
        /\ t.records[i].state = "ok" /\ t.work = x.work
    BY <1>2, <1>3, <1>4, <1>6
  <2>8. ExactTo(t.records, x.work, i)
    BY <1>1, <1>4, <1>6, <2>1, <2>4, <2>5, <2>6, <2>7, IncrementalMakes
  <2> QED
    BY <2>7, <2>8
<1>12. Advances(s, t, i, forceNew)
  <2>1. Binding(t.roles)
    BY <1>6, <1>8 DEF BindsMore
  <2>2. \A e \in Live(t.work) \ Live(s.work) : e \in t.discard
    BY <1>1, <1>6, <1>7
  <2>3. s.discard \subseteq t.discard /\ s.retire \subseteq t.retire
    BY <1>4, <1>6
  <2>4. t.records[i].output = Old(i) /\ Old(i) \in Live(t.work)
    BY <1>2, <1>3, <1>4, <1>6
  <2> QED
    BY <1>1, <1>4, <1>6, <1>9, <1>10, <1>11, <2>1, <2>2, <2>3, <2>4 DEF Advances
<1>13. Incremental(t, start, i, forceNew)
  BY <1>12, ReplayGoesOn
<1> QED
  BY <1>13 DEF t

LEMMA KeptOk ==
    ASSUME NEW s, IsReplay(s), NEW i, NEW x, NEW roles, NEW t,
           t = KeepOutput(s, i, x, roles), t.ok
    PROVE  roles.ok
<1> DEFINE u == Settle(s, i, "ok", records[i].output)
           settled == [s.records EXCEPT ![i] =
               [@ EXCEPT !.state = "ok", !.output = records[i].output, !.fullReplay = FALSE]]
<1>1. u = [s EXCEPT !.records = settled]
  BY DEF Settle
<1> HIDE DEF settled
<1>2. u = [records |-> settled, work |-> s.work, retire |-> s.retire,
           discard |-> s.discard, roles |-> s.roles, ok |-> s.ok]
  BY <1>1 DEF IsReplay
<1> DEFINE gone == Closure(x.work, {x.output})
<1>3. t = [u EXCEPT !.work = x.work, !.discard = u.discard \cup gone,
                    !.roles = roles, !.ok = roles.ok]
  BY DEF KeepOutput
<1> HIDE DEF u, gone
<1> QED
  BY <1>2, <1>3

(* One round of an incremental replay that stays ok. *)
LEMMA IncrementalRound ==
    ASSUME Replayable, NEW start \in 1..(Len(records) + 1), NEW forceNew,
           ForcedBy(start, forceNew),
           NEW i \in start..Len(records),
           NEW s, s.ok => Incremental(s, start, i - 1, forceNew),
           NEW t, t = IncrementalStep(s, i, forceNew), t.ok
    PROVE  Incremental(t, start, i, forceNew)
<1> DEFINE r == s.records[i]
           x == Execute(s.work, s.records, r)
           roles == BindRoles(s.roles, x.work, x.output, geometry, Old(i))
<1>1. CASE ~s.ok
  BY <1>1 DEF IncrementalStep
<1>2. CASE s.ok /\ r.suppressed
  <2>1. t = Retiring(Settle(s, i, "suppressed", NoOutput), records[i].output)
    BY <1>2 DEF IncrementalStep
  <2> QED
    BY <1>2, <2>1, IncrementalSkips DEF States, Skipped
<1>3. CASE s.ok /\ ~r.suppressed /\ Blocked(s.work, s.records, r)
  <2>1. t = Retiring(Settle(s, i, "blocked", NoOutput), records[i].output)
    BY <1>3 DEF IncrementalStep
  <2> QED
    BY <1>3, <2>1, IncrementalSkips DEF States, Skipped
<1>4. CASE s.ok /\ ~r.suppressed /\ ~Blocked(s.work, s.records, r)
  <2>1. t = Settled(s, i, x, forceNew)
    BY <1>4 DEF IncrementalStep
  <2>2. CASE ~x.ok
    <3>1. t = [s EXCEPT !.ok = FALSE]
      BY <2>1, <2>2 DEF Settled
    <3>2. IsReplay(s)
      BY <1>4 DEF Incremental
    <3>3. \A v : [s EXCEPT !.ok = v].ok = v
      BY <3>2 DEF IsReplay
    <3>4. ~ [s EXCEPT !.ok = FALSE].ok
      BY <3>3, Zenon
    <3> QED
      BY <3>1, <3>4
  <2>3. CASE x.ok
    <3> HIDE DEF x
    <3>1. Executable(s, x, i)
      BY <1>4, <2>3 DEF Executable, x
    <3>2. CASE KeepsBinding(geometry, Old(i), x.work, x.output, forceNew)
      <4>1. t = KeepOutput(s, i, x, roles)
        BY <2>1, <2>3, <3>2 DEF Settled, Old
      <4>2. roles.ok
        BY <1>4, <4>1, KeptOk DEF Incremental
      <4>3. KindKept(x, i)
        BY <1>4, <4>2, KindsAgree DEF Incremental, KindKept
      <4> HIDE DEF roles
      <4>4. roles = BindRoles(s.roles, x.work, x.output, geometry, Old(i))
        BY DEF roles
      <4> QED
        BY <1>4, <3>1, <3>2, <4>1, <4>3, <4>4, IncrementalKeeps
    <3>3. CASE ~KeepsBinding(geometry, Old(i), x.work, x.output, forceNew)
      <4>1. t = RenewOutput(s, i, x)
        BY <2>1, <2>3, <3>3 DEF Settled, Old
      <4> QED
        BY <1>4, <3>1, <3>3, <4>1, IncrementalRenews
    <3> QED
      BY <3>2, <3>3
  <2> QED
    BY <2>2, <2>3
<1> QED
  BY <1>1, <1>2, <1>3, <1>4

(* Where an incremental replay that succeeds ends. *)
-----------------------------------------------------------------------------
(* Replaying everything *)

(* Where a replay of the records rs on the working copy `first` stands     *)
(* after record k.                                                         *)
Full(s, rs, first, k) ==
    /\ IsReplay(s)
    /\ SameDefinitions(s.records, rs)
    /\ Grown(first, s.work)
    /\ Rooted(s.records, s.work)
    /\ \A e \in Live(s.work) \ Live(first) : \E i \in 1..k : s.records[i].output = e
    /\ Additive(rs) => ExactTo(s.records, s.work, k)

LEMMA RecordUnmade ==
    ASSUME NEW r \in Record
    PROVE  LET q == [r EXCEPT !.output = NoOutput]
           IN  q \in Record /\ DefinedAs(q, r) /\ q.output = NoOutput
BY DEF Record, NoOutput, DefinedAs

LEMMA FullBegins ==
    ASSUME NEW rs, WellOrdered(rs), NEW first, Sound(first),
           NEW unmade, unmade = [i \in DOMAIN rs |-> [rs[i] EXCEPT !.output = NoOutput]]
    PROVE  Full(Replaying(unmade, first), rs, first, 0)
<1> DEFINE s == Replaying(unmade, first)
<1>1. IsReplay(s) /\ s.records = unmade /\ s.work = first
  BY DEF Replaying, IsReplay
<1>2. rs \in Seq(Record) /\ Len(rs) \in Nat /\ DOMAIN rs = 1..Len(rs)
  BY DEF WellOrdered
<1>3. ASSUME NEW i \in 1..Len(rs)
      PROVE  /\ unmade[i] \in Record /\ DefinedAs(unmade[i], rs[i])
             /\ unmade[i].output = NoOutput
  <2> DEFINE r == rs[i]
  <2>1. r \in Record /\ unmade[i] = [r EXCEPT !.output = NoOutput]
    BY <1>2
  <2> HIDE DEF r
  <2>2. unmade[i] \in Record /\ DefinedAs(unmade[i], r) /\ unmade[i].output = NoOutput
    BY <2>1, RecordUnmade
  <2> QED
    BY <2>2 DEF r
<1>4. unmade \in [1..Len(rs) -> Record]
  <2>1. unmade = [i \in 1..Len(rs) |-> unmade[i]]
    BY <1>2
  <2> QED
    BY <1>3, <2>1
<1>5. SameDefinitions(unmade, rs)
  BY <1>2, <1>3, <1>4 DEF SameDefinitions
<1>6. Rooted(unmade, first)
  BY <1>3, <1>4 DEF Rooted
<1>7. ExactTo(s.records, s.work, 0)
  BY DEF ExactTo
<1> HIDE DEF s
<1> QED
  BY <1>1, <1>5, <1>6, <1>7, GrownReflexive DEF Full, s

LEMMA FullGoesOn ==
    ASSUME NEW rs, WellOrdered(rs), NEW first, Sound(first),
           NEW i \in 1..Len(rs), NEW s, Full(s, rs, first, i - 1),
           NEW t, IsReplay(t), t.records \in Seq(Record),
           Len(t.records) = Len(s.records), DefinedAs(t.records[i], s.records[i]),
           \A j \in 1..Len(s.records) : j # i => t.records[j] = s.records[j],
           Grown(s.work, t.work),
           NEW new, new = t.records[i].output,
           new # NoOutput => new \in Live(t.work),
           \A e \in Live(t.work) \ Live(s.work) : e = new,
           Additive(rs) /\ ExactTo(s.records, s.work, i - 1)
               => ExactTo(t.records, t.work, i)
    PROVE  Full(t, rs, first, i)
<1>0. /\ Len(rs) \in Nat /\ Len(s.records) = Len(rs) /\ Sound(s.work)
      /\ i - 1 \in 0..Len(rs) /\ 1..i = 1..(i - 1) \cup {i}
      /\ DOMAIN t.records = 1..Len(rs) /\ DOMAIN s.records = 1..Len(rs)
  BY DEF WellOrdered, Full, SameDefinitions, Grown
<1>1. \A j \in 1..Len(rs) : j # i => t.records[j] = s.records[j]
  BY <1>0
<1>2. SameDefinitions(t.records, rs)
  <2>1. SameDefinitions(s.records, rs)
    BY DEF Full
  <2>2. \A j \in 1..Len(s.records) : DefinedAs(t.records[j], s.records[j])
    BY <1>0, <1>1 DEF DefinedAs
  <2> QED
    BY <2>1, <2>2, DefinitionsTransitive
<1>3. Grown(first, t.work)
  BY <1>0, GrownTransitive DEF Full
<1>4. Live(s.work) \subseteq Live(t.work)
  BY DEF Grown
<1>5. Rooted(t.records, t.work)
  BY <1>0, <1>1, <1>4 DEF Rooted, Full
<1>6. ASSUME NEW e \in Live(t.work) \ Live(first)
      PROVE  \E j \in 1..i : t.records[j].output = e
  <2>1. CASE e \in Live(s.work)
    <3>1. PICK j \in 1..(i - 1) : s.records[j].output = e
      BY <2>1 DEF Full
    <3>2. j \in 1..Len(rs) /\ j # i /\ j \in 1..i
      BY <1>0
    <3> QED
      BY <1>1, <3>1, <3>2
  <2>2. CASE e \notin Live(s.work)
    BY <1>0, <2>2
  <2> QED
    BY <2>1, <2>2
<1>7. Additive(rs) => ExactTo(t.records, t.work, i)
  BY DEF Full
<1> QED
  BY <1>2, <1>3, <1>5, <1>6, <1>7 DEF Full

LEMMA FullSkips ==
    ASSUME NEW rs, WellOrdered(rs), NEW first, Sound(first),
           NEW i \in 1..Len(rs), NEW s, Full(s, rs, first, i - 1),
           NEW state \in States, Skipped(s, i, state)
    PROVE  Full(Settle(s, i, state, NoOutput), rs, first, i)
<1> DEFINE t == Settle(s, i, state, NoOutput)
<1>1. /\ IsReplay(s) /\ s.records \in Seq(Record) /\ i \in 1..Len(s.records)
      /\ NoOutput \in Nat /\ Sound(s.work)
      /\ SameDefinitions(s.records, rs) /\ Len(s.records) = Len(rs)
  BY DEF Full, SameDefinitions, Grown, NoOutput
<1>2. /\ IsReplay(t) /\ t.work = s.work
      /\ t.records \in Seq(Record) /\ Len(t.records) = Len(s.records)
      /\ DefinedAs(t.records[i], s.records[i])
      /\ t.records[i].output = NoOutput /\ t.records[i].state = state
      /\ \A j \in 1..Len(s.records) : j # i => t.records[j] = s.records[j]
  BY <1>1, SettleEffect
<1> HIDE DEF t
<1>3. Grown(s.work, t.work)
  BY <1>1, <1>2, GrownReflexive
<1>4. SameDefinitions(t.records, rs)
  BY <1>1, <1>2, ChangedOnce
<1>5. /\ \A j \in 1..Len(rs) : j # i => t.records[j] = s.records[j]
      /\ \/ s.records[i].suppressed /\ t.records[i].state = "suppressed"
         \/ /\ ~s.records[i].suppressed /\ Blocked(s.work, s.records, s.records[i])
            /\ t.records[i].state = "blocked"
  BY <1>1, <1>2 DEF Skipped
<1>6. ASSUME ExactTo(s.records, s.work, i - 1) PROVE ExactTo(t.records, s.work, i)
  BY <1>1, <1>2, <1>4, <1>5, <1>6, RoundSkips, SMTT(30)
<1>7. Full(t, rs, first, i)
  <2>1. \A e \in Live(t.work) \ Live(s.work) : e = NoOutput
    BY <1>2
  <2> QED
    BY <1>1, <1>2, <1>3, <1>6, <2>1, FullGoesOn
<1> QED
  BY <1>7 DEF t

(* One round of a full replay that stays ok. *)
LEMMA FullRound ==
    ASSUME NEW rs, WellOrdered(rs), NEW first, Sound(first),
           NEW i \in 1..Len(rs), NEW s, s.ok => Full(s, rs, first, i - 1),
           NEW t, t = FullStep(s, i), t.ok
    PROVE  Full(t, rs, first, i)
<1> DEFINE r == s.records[i]
           x == Execute(s.work, s.records, r)
<1>1. CASE ~s.ok
  BY <1>1 DEF FullStep
<1>2. CASE s.ok
  <2>1. /\ Full(s, rs, first, i - 1) /\ IsReplay(s) /\ s.records \in Seq(Record)
        /\ i \in 1..Len(s.records) /\ Sound(s.work)
        /\ NoOutput \in Nat /\ {"ok", "suppressed", "blocked"} \subseteq States
        /\ SameDefinitions(s.records, rs) /\ Len(s.records) = Len(rs)
    BY <1>2 DEF Full, SameDefinitions, Grown, States, NoOutput
  <2>2. ASSUME NEW state \in States, Skipped(s, i, state), t = Settle(s, i, state, NoOutput)
        PROVE  Full(t, rs, first, i)
    BY <2>1, <2>2, FullSkips
  <2>3. CASE r.suppressed
    BY <1>2, <2>1, <2>2, <2>3 DEF FullStep, Skipped
  <2>4. CASE ~r.suppressed /\ Blocked(s.work, s.records, r)
    BY <1>2, <2>1, <2>2, <2>4 DEF FullStep, Skipped
  <2>5. CASE ~r.suppressed /\ ~Blocked(s.work, s.records, r)
    <3>1. t = Replayed(s, i, x)
      BY <1>2, <2>5 DEF FullStep
    <3>2. x.ok
      <4> SUFFICES ASSUME ~x.ok PROVE FALSE
        OBVIOUS
      <4>1. t = [s EXCEPT !.ok = FALSE]
        BY <3>1 DEF Replayed
      <4>2. \A v : [s EXCEPT !.ok = v].ok = v
        BY <2>1 DEF IsReplay
      <4>3. ~ [s EXCEPT !.ok = FALSE].ok
        BY <4>2, Zenon
      <4> QED
        BY <4>1, <4>3
    <3>3. t = [Settle(s, i, "ok", x.output) EXCEPT !.work = x.work]
      BY <3>1, <3>2 DEF Replayed
    <3>4. r \in Record /\ Ports(r)
      <4>1. /\ SameDefinitions(s.records, rs) /\ DOMAIN rs = 1..Len(rs)
            /\ DefinedAs(r, rs[i]) /\ i \in DOMAIN rs
        BY <2>1 DEF Full, SameDefinitions, WellOrdered
      <4>2. Ports(rs[i])
        BY <4>1 DEF WellOrdered
      <4> QED
        BY <2>1, <4>1, <4>2 DEF Ports, DefinedAs
    <3>5. Executes(s.work, s.records, r, x)
      <4>1. ~Blocked(s.work, s.records, r) /\ x.ok
        BY <2>5, <3>2
      <4> HIDE DEF r
      <4> QED
        BY <2>1, <3>4, <4>1, ExecuteEffect
    <3> HIDE DEF x
    <3>6. x = Execute(s.work, s.records, s.records[i])
      BY DEF x
    <3> HIDE DEF r
    <3>7. /\ Grown(s.work, x.work) /\ x.output \in Live(x.work)
          /\ Live(x.work) \subseteq Live(s.work) \cup {x.output}
          /\ x.output \in Nat
      BY <3>5 DEF Executes, Grown, Sound
    <3> DEFINE u == Settle(s, i, "ok", x.output)
    <3>8. /\ IsReplay(u) /\ u.records \in Seq(Record)
          /\ Len(u.records) = Len(s.records)
          /\ DefinedAs(u.records[i], s.records[i])
          /\ u.records[i].output = x.output /\ u.records[i].state = "ok"
          /\ \A j \in 1..Len(s.records) : j # i => u.records[j] = s.records[j]
      BY <2>1, <3>7, SettleEffect
    <3> HIDE DEF u
    <3>9. IsReplay(t) /\ t.work = x.work /\ t.records = u.records
      BY <3>3, <3>8 DEF IsReplay, u
    <3>10. Additive(rs) /\ ExactTo(s.records, s.work, i - 1)
               => ExactTo(t.records, t.work, i)
      <4> SUFFICES ASSUME Additive(rs), ExactTo(s.records, s.work, i - 1)
                   PROVE  ExactTo(t.records, x.work, i)
        BY <3>9
      <4>1. SameDefinitions(t.records, rs)
        BY <2>1, <3>8, <3>9, ChangedOnce
      <4>2. s.records[i].kind # "transform"
        BY <2>1 DEF Additive, SameDefinitions, DefinedAs, WellOrdered
      <4>3. ~s.records[i].suppressed /\ ~Blocked(s.work, s.records, s.records[i])
        BY <2>5 DEF r
      <4>4. Live(s.work) \subseteq Live(x.work)
        BY <3>7 DEF Grown
      <4>5. \A j \in 1..Len(rs) : j # i => t.records[j] = s.records[j]
        BY <2>1, <3>8, <3>9
      <4>6. t.records[i].output = x.output /\ t.records[i].state = "ok"
        BY <3>8, <3>9
      <4> QED
        BY <2>1, <3>2, <3>7, <3>6, <4>1, <4>2, <4>3, <4>4, <4>5, <4>6,
           RoundMakes, ZenonT(60)
    <3> QED
      BY <2>1, <3>7, <3>8, <3>9, <3>10, FullGoesOn
  <2> QED
    BY <2>3, <2>4, <2>5
<1> QED
  BY <1>1, <1>2

Unmade(rs) == [i \in DOMAIN rs |-> [rs[i] EXCEPT !.output = NoOutput]]

(* The rounds of a full replay. *)
FullRounds(R, rs, first) ==
    /\ R[0] = Replaying(Unmade(rs), first)
    /\ \A i \in 1..Len(rs) : R[i] = FullStep(R[i - 1], i)

LEMMA FullReplayRounds ==
    ASSUME NEW rs, Len(rs) \in Nat, NEW base, NEW next
    PROVE  \E R : /\ FullRounds(R, rs, Reserved(base, next))
                 /\ FullReplay(rs, base, next) = R[Len(rs)]
<1> DEFINE N == Len(rs)
           first == Reserved(base, next)
           First == Replaying(Unmade(rs), first)
           Def(m, f) == [i \in 0..m |-> IF i = 0 THEN First ELSE FullStep(f[i - 1], i)]
           T == {m \in 0..N : \E f : f = Def(m, f)}
           R == CHOOSE f : f = [i \in 0..N |->
                                    IF i = 0 THEN First ELSE FullStep(f[i - 1], i)]
<1>0. N \in Nat
  OBVIOUS
<1>1. FullReplay(rs, base, next) = R[N]
  BY DEF FullReplay, Unmade
<1> HIDE DEF N, First, first
<1>2. 0 \in T
  <2> DEFINE h == [i \in 0..0 |-> First]
  <2>1. h = Def(0, h)
    OBVIOUS
  <2> HIDE DEF h, Def
  <2> QED
    BY <1>0, <2>1
<1>3. ASSUME NEW m \in 0..N, m \in T, m < N PROVE m + 1 \in T
  <2>1. PICK f : f = Def(m, f)
    BY <1>3
  <2> DEFINE h == [i \in 0..(m + 1) |->
                       IF i = m + 1 THEN FullStep(f[i - 1], i) ELSE f[i]]
             k == [i \in 0..(m + 1) |->
                       IF i = 0 THEN First ELSE FullStep(h[i - 1], i)]
  <2>2. ASSUME NEW i \in 0..(m + 1) PROVE h[i] = k[i]
    <3>1. CASE i = m + 1
      <4>1. i # 0 /\ i - 1 \in 0..(m + 1) /\ i - 1 # m + 1
        BY <3>1
      <4>2. h[i - 1] = f[i - 1] /\ h[i] = FullStep(f[i - 1], i)
        BY <3>1, <4>1
      <4> QED
        BY <4>1, <4>2
    <3>2. CASE i # m + 1
      <4>1. i \in 0..m
        BY <3>2
      <4>2. h[i] = f[i] /\ f[i] = IF i = 0 THEN First ELSE FullStep(f[i - 1], i)
        BY <2>1, <3>2, <4>1
      <4>3. i # 0 => h[i - 1] = f[i - 1]
        BY <4>1
      <4> QED
        BY <4>2, <4>3
    <3> QED
      BY <3>1, <3>2
  <2>3. h = k
    <3>1. DOMAIN h = 0..(m + 1) /\ DOMAIN k = 0..(m + 1)
      OBVIOUS
    <3>2. h = [i \in DOMAIN h |-> h[i]] /\ k = [i \in DOMAIN k |-> k[i]]
      OBVIOUS
    <3> HIDE DEF h, k
    <3> QED
      BY <2>2, <3>1, <3>2
  <2>4. \E q : q = Def(m + 1, q)
    <3>1. h = Def(m + 1, h)
      BY <2>3
    <3> HIDE DEF Def, h
    <3> QED
      BY <3>1
  <2>5. m + 1 \in 0..N
    BY <1>0, <1>3
  <2> HIDE DEF Def, h
  <2> QED
    BY <2>4, <2>5
<1>4. N \in T
  <2> HIDE DEF T
  <2>1. \A m \in 0..N : m \in T
    BY <1>0, <1>2, <1>3, SegmentInduction
  <2> QED
    BY <1>0, <2>1
<1>5. R = [i \in 0..N |-> IF i = 0 THEN First ELSE FullStep(R[i - 1], i)]
  <2>1. \E f : f = [i \in 0..N |-> IF i = 0 THEN First ELSE FullStep(f[i - 1], i)]
    BY <1>0, <1>4
  <2> QED
    BY <2>1
<1> HIDE DEF R
<1>6. R[0] = First /\ \A i \in 1..N : R[i] = FullStep(R[i - 1], i)
  BY <1>0, <1>5
<1> QED
  BY <1>1, <1>6 DEF FullRounds, N, First, first

(* Where a full replay that succeeds ends. *)
LEMMA FullEnds ==
    ASSUME NEW rs, WellOrdered(rs), NEW base, Sound(base), NEW next \in Nat,
           NEW s, s = FullReplay(rs, base, next), s.ok
    PROVE  Full(s, rs, Reserved(base, next), Len(rs))
<1> DEFINE N == Len(rs)
           first == Reserved(base, next)
<1>0. N \in Nat /\ Sound(first)
  BY ReservedEffect DEF WellOrdered
<1> HIDE DEF first
<1>1. PICK R : FullRounds(R, rs, first) /\ s = R[N]
  BY <1>0, FullReplayRounds DEF first
<1>2. Full(R[0], rs, first, 0)
  BY <1>0, <1>1, FullBegins DEF FullRounds, Unmade
<1> DEFINE Q == {m \in 0..N : R[m].ok => Full(R[m], rs, first, m)}
<1>3. 0 \in Q
  BY <1>0, <1>2
<1>4. ASSUME NEW m \in 0..N, m \in Q, m < N PROVE m + 1 \in Q
  <2> DEFINE i == m + 1
  <2>1. i \in 1..Len(rs) /\ i \in 0..N /\ i - 1 = m
    BY <1>0, <1>4
  <2>2. R[i] = FullStep(R[i - 1], i)
    BY <1>1, <2>1 DEF FullRounds
  <2>3. R[i - 1].ok => Full(R[i - 1], rs, first, i - 1)
    BY <1>4, <2>1
  <2> HIDE DEF i
  <2>4. R[i].ok => Full(R[i], rs, first, i)
    BY <1>0, <2>1, <2>2, <2>3, FullRound
  <2> QED
    BY <2>1, <2>4 DEF i
<1>5. N \in Q
  <2> HIDE DEF Q
  <2>1. \A m \in 0..N : m \in Q
    BY <1>0, <1>3, <1>4, SegmentInduction
  <2> QED
    BY <1>0, <2>1
<1> QED
  BY <1>1, <1>5 DEF first

(* Where some materialization has what the additive records rs call for,   *)
(* no executor refuses.                                                    *)
LEMMA FullRoundSucceeds ==
    ASSUME NEW rs, WellOrdered(rs), Additive(rs), NEW first, Sound(first),
           NEW qs, SameDefinitions(qs, rs), NEW g, Sound(g), ExactTo(qs, g, Len(rs)),
           NEW i \in 1..Len(rs), NEW s, s.ok, Full(s, rs, first, i - 1),
           NEW t, t = FullStep(s, i)
    PROVE  t.ok
<1> DEFINE r == s.records[i]
           w == s.work
           x == Execute(w, s.records, r)
<1>1. /\ IsReplay(s) /\ s.records \in Seq(Record) /\ i \in 1..Len(s.records)
      /\ SameDefinitions(s.records, rs) /\ ExactTo(s.records, w, i - 1)
      /\ Sound(w) /\ w.next \in Nat /\ Len(rs) \in Nat
      /\ NoOutput \in Nat /\ {"ok", "suppressed", "blocked"} \subseteq States
  BY DEF Full, SameDefinitions, Grown, Sound, States, NoOutput, WellOrdered
<1>2. \A state \in States : \A o \in Nat : Settle(s, i, state, o).ok = s.ok
  BY <1>1, SettleEffect
<1>3. CASE r.suppressed
  BY <1>1, <1>2, <1>3 DEF FullStep
<1>4. CASE ~r.suppressed /\ Blocked(w, s.records, r)
  BY <1>1, <1>2, <1>4 DEF FullStep
<1>5. CASE ~r.suppressed /\ ~Blocked(w, s.records, r)
  <2>1. t = Replayed(s, i, x)
    BY <1>5 DEF FullStep
  <2>2. ~Stopped(s.records, i)
    BY <1>1, <1>5, BlockedExactly
  <2>3. r.kind # "transform"
    BY <1>1 DEF Additive, SameDefinitions, DefinedAs, WellOrdered
  <2>4. r.kind = "line" => Joinable(s.records, w, i)
    <3> SUFFICES ASSUME r.kind = "line" PROVE Joinable(s.records, w, i)
      OBVIOUS
    <3> DEFINE n == i - 1
    <3>1. n \in 0..Len(rs) /\ n = i - 1 /\ 1..n \subseteq 1..Len(rs)
      BY <1>1
    <3> HIDE DEF n
    <3>2. ExactTo(qs, g, n) /\ ExactTo(s.records, w, n)
      BY <1>1, <3>1 DEF ExactTo
    <3>3. AlikeTo(s.records, w, qs, g, n)
      BY <1>1, <3>1, <3>2, ExactAlike
    <3>4. /\ Stopped(s.records, i) <=> Stopped(qs, i)
          /\ ~Stopped(qs, i) =>
                 \A k \in DOMAIN qs[i].inputs :
                     /\ IsEdge(w, Source(s.records, i, k)) <=> IsEdge(g, Source(qs, i, k))
                     /\ Payload(w, Source(s.records, i, k)) = Payload(g, Source(qs, i, k))
      BY <1>1, <3>1, <3>3, SourcesAlike
    <3>5. /\ DefinedAs(s.records[i], qs[i])
          /\ qs[i].kind = "line" => 1 \in DOMAIN qs[i].inputs /\ 2 \in DOMAIN qs[i].inputs
      BY <1>1, SameSources
    <3>6. qs[i].kind = "line" /\ ~qs[i].suppressed
      BY <1>5, <3>5 DEF DefinedAs
    <3>7. Joinable(qs, g, i)
      <4>1. Exact(qs, g, i)
        BY DEF ExactTo
      <4> QED
        BY <2>2, <3>4, <3>6, <4>1 DEF Exact
    <3>8. \A k \in 1..2 :
              /\ IsEdge(w, Source(s.records, i, k)) <=> IsEdge(g, Source(qs, i, k))
              /\ Payload(w, Source(s.records, i, k)) = Payload(g, Source(qs, i, k))
      <4>1. \A k \in 1..2 : k \in DOMAIN qs[i].inputs
        BY <3>5, <3>6
      <4> QED
        BY <2>2, <3>4, <4>1
    <3>9. \A k \in 1..2 : ~IsEdge(g, Source(qs, i, k)) /\ ~IsEdge(w, Source(s.records, i, k))
      BY <3>7, <3>8 DEF Joinable
    <3>10. \A k \in 1..2 :
               PointPayload(w, Source(s.records, i, k)) = PointPayload(g, Source(qs, i, k))
      BY <3>8, <3>9 DEF Payload
    <3> QED
      BY <3>7, <3>9, <3>10 DEF Joinable
  <2>5. x.ok /\ x.output = w.next
    BY <1>1, <2>2, <2>3, <2>4, ExecuteExactly
  <2>6. t = [Settle(s, i, "ok", x.output) EXCEPT !.work = x.work]
    BY <2>1, <2>5 DEF Replayed
  <2> DEFINE u == Settle(s, i, "ok", x.output)
  <2> HIDE DEF x
  <2>7. IsReplay(u) /\ u.ok = s.ok
    BY <1>1, <2>5, SettleEffect
  <2> HIDE DEF u
  <2>8. t.ok = u.ok
    BY <2>6, <2>7 DEF IsReplay, u
  <2> QED
    BY <2>7, <2>8
<1> QED
  BY <1>3, <1>4, <1>5

LEMMA FullReplaySucceeds ==
    ASSUME NEW rs, WellOrdered(rs), Additive(rs),
           NEW base, Sound(base), NEW next \in Nat,
           NEW qs, SameDefinitions(qs, rs), NEW g, Sound(g), ExactTo(qs, g, Len(rs))
    PROVE  FullReplay(rs, base, next).ok
<1> DEFINE N == Len(rs)
           first == Reserved(base, next)
<1>0. N \in Nat /\ Sound(first)
  BY ReservedEffect DEF WellOrdered
<1> HIDE DEF first
<1>1. PICK R : FullRounds(R, rs, first) /\ FullReplay(rs, base, next) = R[N]
  BY <1>0, FullReplayRounds DEF first
<1>2. R[0].ok /\ Full(R[0], rs, first, 0)
  BY <1>0, <1>1, FullBegins DEF FullRounds, Unmade, Replaying
<1> DEFINE Q == {m \in 0..N : R[m].ok /\ Full(R[m], rs, first, m)}
<1>3. 0 \in Q
  BY <1>0, <1>2
<1>4. ASSUME NEW m \in 0..N, m \in Q, m < N PROVE m + 1 \in Q
  <2> DEFINE i == m + 1
  <2>1. i \in 1..Len(rs) /\ i \in 0..N /\ i - 1 = m
    BY <1>0, <1>4
  <2>2. R[i] = FullStep(R[i - 1], i)
    BY <1>1, <2>1 DEF FullRounds
  <2>3. R[i - 1].ok /\ Full(R[i - 1], rs, first, i - 1)
    BY <1>4, <2>1
  <2> HIDE DEF i
  <2>4. R[i].ok
    BY <1>0, <2>1, <2>2, <2>3, FullRoundSucceeds
  <2>5. Full(R[i], rs, first, i)
    BY <1>0, <2>1, <2>2, <2>3, <2>4, FullRound
  <2> QED
    BY <2>1, <2>4, <2>5 DEF i
<1>5. N \in Q
  <2> HIDE DEF Q
  <2>1. \A m \in 0..N : m \in Q
    BY <1>0, <1>3, <1>4, SegmentInduction
  <2> QED
    BY <1>0, <2>1
<1> QED
  BY <1>1, <1>5

-----------------------------------------------------------------------------
(* From the old outputs to the new ones *)

(* The old output of record i leads to the new one, or nowhere if another  *)
(* of the first k records had it too.                                      *)
Leads(b, rs, i, k) ==
    LET old == Old(i)
        new == rs[i].output
    IN  old # NoOutput /\ new # NoOutput /\ new # old =>
            /\ old \in DOMAIN b.map
            /\ \/ b.map[old] = {new}
               \/ b.map[old] = {} /\ \E j \in 1..k : j # i /\ Old(j) = old

Led(b, rs, k) ==
    /\ Binding(b)
    /\ DOMAIN b.map \subseteq Live(geometry)
    /\ b.ok => \A i \in 1..k : Leads(b, rs, i, k)

LEMMA TransitionEffect ==
    ASSUME Replayable, NEW k \in 1..Len(records), NEW rs,
           NEW w, Sound(w), DOMAIN w.hist \cap Live(geometry) = {},
           rs[k].output # NoOutput => rs[k].output \in Live(w),
           NEW b, Led(b, rs, k - 1),
           NEW c, c = Transition(b, records[k].output, w, rs[k].output)
    PROVE  Led(c, rs, k)
<1> DEFINE old == Old(k)
           new == rs[k].output
<1>0. /\ k - 1 \in Nat /\ 1..k = 1..(k - 1) \cup {k} /\ k \notin 1..(k - 1)
      /\ Sound(geometry) /\ (old # NoOutput => old \in Live(geometry))
  BY DEF Replayable, WellOrdered, Rooted, Old
<1>1. CASE ~b.ok \/ old = NoOutput
  <2>1. c = b
    <3>1. old = NoOutput => (IF old = NoOutput THEN {} ELSE Resolve(geometry, old)) = {}
      OBVIOUS
    <3> QED
      BY <1>1, <3>1 DEF Transition, Old
  <2>2. CASE ~b.ok
    BY <2>1, <2>2 DEF Led
  <2>3. CASE old = NoOutput /\ b.ok
    <3>1. Leads(b, rs, k, k)
      BY <2>3 DEF Leads
    <3>2. ASSUME NEW i \in 1..(k - 1) PROVE Leads(b, rs, i, k)
      <4>1. Leads(b, rs, i, k - 1)
        BY <2>3 DEF Led
      <4> QED
        BY <1>0, <4>1 DEF Leads
    <3> QED
      BY <1>0, <2>1, <2>3, <3>1, <3>2 DEF Led
  <2> QED
    BY <1>1, <2>2, <2>3
<1>2. CASE b.ok /\ old # NoOutput
  <2>1. Resolve(geometry, old) = {old} /\ Only({old}) = old
    BY <1>0, <1>2, ResolveLive, OnlyMember
  <2>2. CASE new = NoOutput
    <3> DEFINE m == Merged(Single(old, {}), b.map)
    <3>1. c = [b EXCEPT !.map = m]
      BY <1>2, <2>1, <2>2 DEF Transition, Old
    <3>2. /\ DOMAIN m = DOMAIN b.map \cup {old} /\ m[old] = {}
          /\ \A e \in DOMAIN b.map : e # old => m[e] = b.map[e]
      <4> DEFINE nowhere == {}
                 map == b.map
      <4>1. m = Merged(Single(old, nowhere), map)
        OBVIOUS
      <4> HIDE DEF nowhere, map, m
      <4>2. Overrides(m, map, old, nowhere)
        BY <4>1, SingleMerged
      <4> QED
        BY <4>2 DEF nowhere, map, Overrides
    <3> HIDE DEF m
    <3>3. c = [map |-> m, ok |-> b.ok]
      BY <3>1, BindingFields DEF Led, Binding
    <3>4. c.map = m /\ c.ok = b.ok /\ c = [map |-> c.map, ok |-> c.ok]
      BY <3>3
    <3>5. Binding(c) /\ DOMAIN c.map \subseteq Live(geometry)
      BY <1>0, <1>2, <3>2, <3>4 DEF Led, Binding
    <3>6. ASSUME NEW i \in 1..(k - 1)
          PROVE  Leads(c, rs, i, k)
      <4>1. CASE Old(i) = old
        <5>1. k \in 1..k /\ k # i
          BY <1>0
        <5> QED
          BY <3>2, <3>4, <4>1, <5>1 DEF Leads
      <4>2. CASE Old(i) # old
        <5>1. Leads(b, rs, i, k - 1)
          BY <1>2 DEF Led
        <5>2. /\ Old(i) \in DOMAIN c.map <=> Old(i) \in DOMAIN b.map
              /\ Old(i) \in DOMAIN b.map => c.map[Old(i)] = b.map[Old(i)]
          BY <3>2, <3>4, <4>2
        <5> QED
          BY <1>0, <5>1, <5>2 DEF Leads
      <4> QED
        BY <4>1, <4>2
    <3>7. Leads(c, rs, k, k)
      BY <2>2 DEF Leads
    <3> QED
      BY <1>0, <2>2, <3>5, <3>6, <3>7 DEF Led
  <2>3. CASE new # NoOutput
    <3>1. Resolve(w, new) = {new} /\ Only({new}) = new /\ {new} # {}
      BY <2>3, ResolveLive, OnlyMember
    <3>2. old \notin DOMAIN w.hist
      BY <1>0, <1>2
    <3>3. c = BindRoles(b, geometry, old, w, new)
      BY <1>2, <2>1, <2>3, <3>1, <3>2 DEF Transition, Old
    <3> HIDE DEF old, new
    <3>4. BindsMore(b, c, {old} \cup Tips(geometry, old)) /\ LeadsTo(c, old, new)
      <4>1. Binding(b)
        BY DEF Led
      <4> QED
        BY <3>3, <4>1, BindRolesEffect
    <3>5. Binding(c) /\ DOMAIN c.map \subseteq Live(geometry)
      BY <1>0, <1>2, <3>4 DEF BindsMore, Led, Sound
    <3>6. ASSUME c.ok, NEW i \in 1..(k - 1)
          PROVE  Leads(c, rs, i, k)
      <4>1. Leads(b, rs, i, k - 1)
        BY <1>2 DEF Led
      <4> QED
        BY <1>0, <3>4, <4>1 DEF BindsMore, Leads
    <3>7. c.ok => Leads(c, rs, k, k)
      BY <3>4 DEF LeadsTo, Leads, old, new
    <3> QED
      BY <1>0, <3>5, <3>6, <3>7 DEF Led, old, new
  <2> QED
    BY <2>2, <2>3
<1> QED
  BY <1>1, <1>2

(* The rounds of Transitions.                                              *)
TransitionRounds(R, rs, w) ==
    /\ R[0] = NoBindings
    /\ \A i \in 1..Len(records) :
           R[i] = Transition(R[i - 1], records[i].output, w, rs[i].output)

LEMMA TransitionsRounds ==
    ASSUME Len(records) \in Nat, NEW rs, NEW w
    PROVE  \E R : /\ TransitionRounds(R, rs, w)
                 /\ Transitions(rs, w) = R[Len(records)]
<1> DEFINE N == Len(records)
           Step(b, i) == Transition(b, records[i].output, w, rs[i].output)
           Def(m, f) == [i \in 0..m |-> IF i = 0 THEN NoBindings ELSE Step(f[i - 1], i)]
           T == {m \in 0..N : \E f : f = Def(m, f)}
           R == CHOOSE f : f = [i \in 0..N |->
                                    IF i = 0 THEN NoBindings ELSE Step(f[i - 1], i)]
<1>0. N \in Nat
  OBVIOUS
<1>1. Transitions(rs, w) = R[N]
  BY DEF Transitions
<1> HIDE DEF N, Step
<1>3. 0 \in T
  <2> DEFINE h == [i \in 0..0 |-> NoBindings]
  <2>1. h = Def(0, h)
    OBVIOUS
  <2> HIDE DEF h, Def
  <2> QED
    BY <1>0, <2>1
<1>4. ASSUME NEW m \in 0..N, m \in T, m < N PROVE m + 1 \in T
  <2>1. PICK f : f = Def(m, f)
    BY <1>4
  <2> DEFINE h == [i \in 0..(m + 1) |->
                       IF i = m + 1 THEN Step(f[i - 1], i) ELSE f[i]]
             k == [i \in 0..(m + 1) |->
                       IF i = 0 THEN NoBindings ELSE Step(h[i - 1], i)]
  <2>2. ASSUME NEW i \in 0..(m + 1) PROVE h[i] = k[i]
    <3>1. CASE i = m + 1
      <4>1. i # 0 /\ i - 1 \in 0..(m + 1) /\ i - 1 # m + 1
        BY <3>1
      <4>2. h[i - 1] = f[i - 1] /\ h[i] = Step(f[i - 1], i)
        BY <3>1, <4>1
      <4> QED
        BY <4>1, <4>2
    <3>2. CASE i # m + 1
      <4>1. i \in 0..m
        BY <3>2
      <4>2. h[i] = f[i] /\ f[i] = IF i = 0 THEN NoBindings ELSE Step(f[i - 1], i)
        BY <2>1, <3>2, <4>1
      <4>3. i # 0 => h[i - 1] = f[i - 1]
        BY <4>1
      <4> QED
        BY <4>2, <4>3
    <3> QED
      BY <3>1, <3>2
  <2>3. h = k
    <3>1. DOMAIN h = 0..(m + 1) /\ DOMAIN k = 0..(m + 1)
      OBVIOUS
    <3>2. h = [i \in DOMAIN h |-> h[i]] /\ k = [i \in DOMAIN k |-> k[i]]
      OBVIOUS
    <3> HIDE DEF h, k
    <3> QED
      BY <2>2, <3>1, <3>2
  <2>4. \E q : q = Def(m + 1, q)
    <3>1. h = Def(m + 1, h)
      BY <2>3
    <3> HIDE DEF Def, h
    <3> QED
      BY <3>1
  <2>5. m + 1 \in 0..N
    BY <1>0, <1>4
  <2> HIDE DEF Def, h
  <2> QED
    BY <2>4, <2>5
<1>5. N \in T
  <2> HIDE DEF T
  <2>1. \A m \in 0..N : m \in T
    BY <1>0, <1>3, <1>4, SegmentInduction
  <2> QED
    BY <1>0, <2>1
<1>6. R = [i \in 0..N |-> IF i = 0 THEN NoBindings ELSE Step(R[i - 1], i)]
  <2>1. \E f : f = [i \in 0..N |-> IF i = 0 THEN NoBindings ELSE Step(f[i - 1], i)]
    BY <1>0, <1>5
  <2> QED
    BY <2>1
<1> HIDE DEF R
<1>7. R[0] = NoBindings /\ \A i \in 1..N : R[i] = Step(R[i - 1], i)
  BY <1>0, <1>6
<1> QED
  BY <1>1, <1>7 DEF TransitionRounds, N, Step

LEMMA TransitionsEnd ==
    ASSUME Replayable, NEW rs, SameDefinitions(rs, records),
           NEW w, Sound(w), Rooted(rs, w), DOMAIN w.hist \cap Live(geometry) = {},
           NEW t, t = Transitions(rs, w)
    PROVE  Led(t, rs, Len(records))
<1> DEFINE N == Len(records)
<1>0. N \in Nat
  BY DEF Replayable, WellOrdered
<1>1. PICK R : TransitionRounds(R, rs, w) /\ t = R[N]
  BY <1>0, TransitionsRounds
<1>2. Led(NoBindings, rs, 0)
  <2>1. Binding(NoBindings) /\ DOMAIN NoBindings.map = {}
    BY DEF NoBindings, Binding
  <2> QED
    BY <2>1 DEF Led
<1> HIDE DEF N
<1> DEFINE Q == {m \in 0..N : Led(R[m], rs, m)}
<1>3. 0 \in Q
  BY <1>0, <1>1, <1>2 DEF TransitionRounds
<1>4. ASSUME NEW m \in 0..N, m \in Q, m < N PROVE m + 1 \in Q
  <2> DEFINE i == m + 1
  <2>1. i \in 1..Len(records) /\ i \in 0..N /\ i - 1 = m
    BY <1>0, <1>4 DEF N
  <2>2. R[i] = Transition(R[i - 1], records[i].output, w, rs[i].output)
    BY <1>1, <2>1 DEF TransitionRounds
  <2>3. Led(R[i - 1], rs, i - 1)
    BY <1>4, <2>1
  <2> HIDE DEF i
  <2>4. rs[i].output # NoOutput => rs[i].output \in Live(w)
    BY <2>1 DEF Rooted, SameDefinitions
  <2>5. Led(R[i], rs, i)
    BY <2>1, <2>2, <2>3, <2>4, TransitionEffect
  <2> QED
    BY <2>1, <2>5 DEF i
<1>5. N \in Q
  <2> HIDE DEF Q
  <2>1. \A m \in 0..N : m \in Q
    BY <1>0, <1>3, <1>4, SegmentInduction
  <2> QED
    BY <1>0, <2>1
<1> QED
  BY <1>1, <1>5 DEF N

-----------------------------------------------------------------------------
(* Where an incremental replay starts *)

LEMMA EarliestMember ==
    ASSUME NEW S \in SUBSET Nat, S # {}
    PROVE  Earliest(S) \in S /\ \A j \in S : Earliest(S) <= j
BY LeastNatural DEF Earliest

LEMMA StartInRange ==
    ASSUME WellOrdered(records), NEW dirty \in 1..(Len(records) + 1)
    PROVE  IncrementalStart(dirty) \in 1..dirty
<1> DEFINE N == Len(records)
           sources(start) == {Position(records, f) : f \in Producers(start)}
           E(start) == Earliest({start} \cup sources(start))
           Def(m, f) == [start \in 1..m |->
                             IF E(start) = start THEN start ELSE f[E(start)]]
           T == {m \in 0..(N + 1) : \E f : f = Def(m, f)}
           R == CHOOSE f : f = [start \in 1..(N + 1) |->
                                    IF E(start) = start THEN start ELSE f[E(start)]]
<1>0. N \in Nat /\ DOMAIN records = 1..N /\ N + 1 \in Nat
  BY DEF WellOrdered
<1>1. IncrementalStart(dirty) = R[dirty]
  BY DEF IncrementalStart
<1>2. ASSUME NEW start \in 1..(N + 1) PROVE E(start) \in 1..start
  <2>1. sources(start) \subseteq 1..N
    <3> SUFFICES ASSUME NEW i \in Modifiers(start), NEW f \in Members(records[i].inputs)
                 PROVE  Position(records, f) \in 1..N
      BY DEF Producers
    <3>1. i \in DOMAIN records /\ f \in DependenciesOf(records[i])
      BY <1>0 DEF Modifiers, DependenciesOf
    <3>2. PICK j \in 1..(i - 1) : records[j].id = f
      BY <3>1 DEF WellOrdered, Valid
    <3>3. j \in DOMAIN records
      BY <1>0, <3>1
    <3>4. \E k \in DOMAIN records : records[k].id = f
      BY <3>2, <3>3
    <3> QED
      BY <1>0, <3>4 DEF Position
  <2> HIDE DEF sources
  <2>2. {start} \cup sources(start) \in SUBSET Nat /\ start \in {start} \cup sources(start)
    BY <1>0, <2>1
  <2> DEFINE S == {start} \cup sources(start)
  <2>3. Earliest(S) \in S /\ Earliest(S) <= start
    <3>1. S \in SUBSET Nat /\ S # {} /\ start \in S
      BY <2>2
    <3> HIDE DEF S
    <3> QED
      BY <3>1, EarliestMember
  <2> QED
    BY <1>0, <2>1, <2>3
<1> HIDE DEF N, E
<1>3. 0 \in T
  <2> DEFINE h == [start \in 1..0 |-> start]
  <2>1. h = Def(0, h)
    OBVIOUS
  <2> HIDE DEF h, Def
  <2> QED
    BY <1>0, <2>1
<1>4. ASSUME NEW m \in 0..(N + 1), m \in T, m < N + 1 PROVE m + 1 \in T
  <2>1. PICK f : f = Def(m, f)
    BY <1>4
  <2> DEFINE h == [start \in 1..(m + 1) |->
                       IF start # m + 1 THEN f[start]
                       ELSE IF E(start) = start THEN start ELSE f[E(start)]]
             k == [start \in 1..(m + 1) |->
                       IF E(start) = start THEN start ELSE h[E(start)]]
  <2>2. ASSUME NEW start \in 1..(m + 1) PROVE h[start] = k[start]
    <3>1. E(start) \in 1..start /\ start \in 1..(N + 1)
      BY <1>0, <1>2, <1>4
    <3>2. E(start) # start => E(start) \in 1..m /\ E(start) # m + 1
      BY <1>4, <3>1
    <3>3. E(start) # start => h[E(start)] = f[E(start)]
      BY <3>2
    <3>4. CASE start = m + 1
      <4>1. h[start] = IF E(start) = start THEN start ELSE f[E(start)]
        BY <3>4
      <4> HIDE DEF h
      <4> QED
        BY <3>3, <4>1
    <3>5. CASE start # m + 1
      <4>1. start \in 1..m
        BY <1>4, <3>5
      <4>2. h[start] = f[start]
        BY <3>5
      <4>3. f[start] = IF E(start) = start THEN start ELSE f[E(start)]
        BY <2>1, <4>1
      <4> HIDE DEF h
      <4> QED
        BY <3>3, <4>2, <4>3
    <3> QED
      BY <3>4, <3>5
  <2>3. h = k
    <3>1. DOMAIN h = 1..(m + 1) /\ DOMAIN k = 1..(m + 1)
      OBVIOUS
    <3>2. h = [i \in DOMAIN h |-> h[i]] /\ k = [i \in DOMAIN k |-> k[i]]
      OBVIOUS
    <3> HIDE DEF h, k
    <3> QED
      BY <2>2, <3>1, <3>2
  <2>4. \E q : q = Def(m + 1, q)
    <3>1. h = Def(m + 1, h)
      BY <2>3
    <3> HIDE DEF Def, h
    <3> QED
      BY <3>1
  <2>5. m + 1 \in 0..(N + 1)
    BY <1>0, <1>4
  <2> HIDE DEF Def, h
  <2> QED
    BY <2>4, <2>5
<1>5. N + 1 \in T
  <2> HIDE DEF T
  <2> DEFINE M == N + 1
  <2>0. M \in Nat /\ M \in 0..M
    BY <1>0
  <2>1. \A m \in 0..M : m \in T /\ m < M => m + 1 \in T
    BY <1>4
  <2> HIDE DEF M
  <2>2. \A m \in 0..M : m \in T
    BY <1>3, <2>0, <2>1, SegmentInduction
  <2>3. M \in T
    BY <2>0, <2>2
  <2> QED
    BY <2>3 DEF M
<1>6. R = [start \in 1..(N + 1) |-> IF E(start) = start THEN start ELSE R[E(start)]]
  <2>1. \E f : f = [start \in 1..(N + 1) |->
                        IF E(start) = start THEN start ELSE f[E(start)]]
    BY <1>5
  <2> QED
    BY <2>1
<1> HIDE DEF R
<1> DEFINE Q == {m \in 0..(N + 1) : \A start \in 1..m : R[start] \in 1..start}
<1>7. 0 \in Q
  BY <1>0
<1>8. ASSUME NEW m \in 0..(N + 1), m \in Q, m < N + 1 PROVE m + 1 \in Q
  <2>1. ASSUME NEW start \in 1..(m + 1) PROVE R[start] \in 1..start
    <3>1. E(start) \in 1..start /\ start \in 1..(N + 1)
      BY <1>0, <1>2, <1>8
    <3>2. R[start] = IF E(start) = start THEN start ELSE R[E(start)]
      BY <1>6, <3>1
    <3>3. E(start) # start => E(start) \in 1..m
      BY <1>8, <3>1
    <3>4. E(start) # start => R[start] \in 1..E(start)
      BY <1>8, <3>2, <3>3
    <3> QED
      BY <1>0, <3>1, <3>2, <3>4
  <2>2. m + 1 \in 0..(N + 1)
    BY <1>0, <1>8
  <2> QED
    BY <2>1, <2>2
<1>9. \A start \in 1..(N + 1) : R[start] \in 1..start
  <2> DEFINE M == N + 1
  <2>0. M \in Nat /\ M \in 0..M
    BY <1>0
  <2>1. \A m \in 0..M : m \in Q /\ m < M => m + 1 \in Q
    BY <1>8
  <2> HIDE DEF M, Q
  <2>2. \A m \in 0..M : m \in Q
    BY <1>7, <2>0, <2>1, SegmentInduction
  <2>3. M \in Q
    BY <2>0, <2>2
  <2> QED
    BY <2>3 DEF M, Q
<1> QED
  BY <1>1, <1>9 DEF N

-----------------------------------------------------------------------------
(* Editing the records *)

(* The rounds of Dropped, and where they end. *)
DropRounds(rs, fs, rest) ==
    /\ rest \in [0..Len(rs) -> Seq(Record)]
    /\ Dropped(rs, fs) = rest[Len(rs)] /\ rest[0] = <<>>
    /\ \A n \in 1..Len(rs) :
           rest[n] = IF rs[n].id \in fs THEN rest[n - 1] ELSE Append(rest[n - 1], rs[n])

LEMMA DroppedRounds ==
    ASSUME NEW rs \in Seq(Record), NEW fs
    PROVE  \E rest : DropRounds(rs, fs, rest)
<1> DEFINE N == Len(rs)
           V == Seq(Record)
           Round(A, n) == IF rs[n].id \in fs THEN A ELSE Append(A, rs[n])
           g == [p \in V \X (1..N) |-> Round(p[1], p[2])]
           Def(f) == [i \in 0..N |-> IF i = 0 THEN <<>> ELSE Round(f[i - 1], i)]
           R == CHOOSE f : f = Def(f)
<1>1. N \in Nat /\ <<>> \in V
  OBVIOUS
<1>2. g \in [V \X (1..N) -> V]
  OBVIOUS
<1>3. PICK f \in [0..N -> V] :
          f[0] = <<>> /\ \A n \in 1..N : f[n] = g[<<f[n - 1], n>>]
  <2> DEFINE a == <<>>
  <2>1. a \in V
    BY <1>1
  <2> HIDE DEF g, V, N, a
  <2>2. PICK f : Iterates(f, V, a, N, g)
    BY <1>1, <1>2, <2>1, SegmentRecursion
  <2>3. /\ f \in [0..N -> V] /\ f[0] = a
        /\ \A n \in 1..N : f[n] = g[<<f[n - 1], n>>]
    BY <2>2 DEF Iterates
  <2> QED
    BY <2>3 DEF a
<1>4. f = Def(f)
  <2> SUFFICES ASSUME NEW n \in 1..N PROVE f[n] = Round(f[n - 1], n)
    <3> HIDE DEF Round, N
    <3> QED
      BY <1>1, <1>3
  <2>1. f[n - 1] \in V
    <3> HIDE DEF N, V
    <3> QED
      BY <1>1, <1>3
  <2> QED
    BY <1>3, <2>1
<1>5. R = Def(R)
  <2> HIDE DEF Def
  <2> QED
    BY <1>4
<1>6. Dropped(rs, fs) = R[N]
  BY DEF Dropped
<1>7. R[0] = <<>> /\ \A n \in 1..N : R[n] = Round(R[n - 1], n)
  <2> HIDE DEF R, Round, N
  <2> QED
    BY <1>1, <1>5
<1> DEFINE T == {n \in 0..N : R[n] \in V}
<1>8. N \in T /\ \A n \in 0..N : n \in T
  <2> HIDE DEF R
  <2>0. \A A \in V, n \in 1..N : Round(A, n) \in V
    OBVIOUS
  <2> HIDE DEF V, N, Round
  <2>1. 0 \in T
    BY <1>1, <1>7
  <2>2. ASSUME NEW n \in 0..N, n \in T, n < N PROVE n + 1 \in T
    <3>1. n + 1 \in 1..N /\ n + 1 - 1 = n /\ R[n] \in V
      BY <1>1, <2>2
    <3>2. R[n + 1] = Round(R[n], n + 1)
      BY <1>7, <3>1
    <3> QED
      BY <2>0, <3>1, <3>2
  <2> HIDE DEF T
  <2>3. \A n \in 0..N : n \in T
    BY <1>1, <2>1, <2>2, SegmentInduction
  <2> QED
    BY <1>1, <2>3
<1>9. R \in [0..N -> V]
  <2> HIDE DEF Round, N, V
  <2>1. \A n \in 0..N : R[n] \in V
    BY <1>8
  <2>2. R = [n \in 0..N |-> R[n]]
    <3>1. \A n \in 0..N : Def(R)[n] = R[n]
      BY <1>5
    <3>2. Def(R) = [n \in 0..N |-> Def(R)[n]]
      OBVIOUS
    <3> HIDE DEF Def, R
    <3> QED
      BY <1>5, <3>1, <3>2
  <2> HIDE DEF R
  <2> QED
    BY <2>1, <2>2
<1>10. DropRounds(rs, fs, R)
  <2> HIDE DEF R
  <2> QED
    BY <1>1, <1>6, <1>7, <1>9 DEF DropRounds
<1> HIDE DEF R
<1> QED
  BY <1>10

(* What is left is some of the records, none of them twice. *)
Distinct(rs) == \A i, j \in DOMAIN rs : rs[i].id = rs[j].id => i = j

LEMMA DroppedSome ==
    ASSUME NEW rs \in Seq(Record), Distinct(rs), NEW fs
    PROVE  /\ Dropped(rs, fs) \in Seq(Record) /\ Distinct(Dropped(rs, fs))
           /\ \A j \in DOMAIN Dropped(rs, fs) :
                  \E k \in DOMAIN rs : Dropped(rs, fs)[j] = rs[k]
<1> DEFINE N == Len(rs)
<1>0. PICK rest : DropRounds(rs, fs, rest)
  BY DroppedRounds
<1>1. /\ N \in Nat /\ DOMAIN rs = 1..N /\ rest \in [0..N -> Seq(Record)]
      /\ Dropped(rs, fs) = rest[N] /\ rest[0] = <<>>
      /\ \A n \in 1..N : rest[n] =
             IF rs[n].id \in fs THEN rest[n - 1] ELSE Append(rest[n - 1], rs[n])
  BY <1>0 DEF DropRounds
<1> DEFINE P(m) == /\ Distinct(rest[m])
                   /\ \A j \in DOMAIN rest[m] : \E k \in 1..m : rest[m][j] = rs[k]
           T == {m \in 0..N : P(m)}
<1> HIDE DEF N
<1>2. 0 \in T
  BY <1>1 DEF Distinct
<1>3. ASSUME NEW m \in 0..N, m \in T, m < N PROVE m + 1 \in T
  <2>1. m + 1 \in 1..N /\ m + 1 - 1 = m /\ m + 1 \in 0..N
    BY <1>1, <1>3
  <2> DEFINE q == rest[m]
             r == rs[m + 1]
  <2>2. /\ q \in Seq(Record) /\ Distinct(q)
        /\ \A j \in DOMAIN q : \E k \in 1..m : q[j] = rs[k]
        /\ r \in Record
    BY <1>1, <1>3, <2>1
  <2>3. rest[m + 1] = IF r.id \in fs THEN q ELSE Append(q, r)
    BY <1>1, <2>1
  <2>4. CASE r.id \in fs
    <3>1. rest[m + 1] = q
      BY <2>3, <2>4
    <3>2. \A j \in DOMAIN q : \E k \in 1..(m + 1) : q[j] = rs[k]
      BY <2>2
    <3> HIDE DEF q
    <3> QED
      BY <2>1, <2>2, <3>1, <3>2
  <2>5. CASE r.id \notin fs
    <3> DEFINE p == Append(q, r)
    <3>1. rest[m + 1] = p
      BY <2>3, <2>5
    <3> HIDE DEF q
    <3>2. /\ DOMAIN p = 1..(Len(q) + 1) /\ p[Len(q) + 1] = r
          /\ DOMAIN q = 1..Len(q) /\ Len(q) \in Nat
          /\ \A j \in 1..Len(q) : p[j] = q[j]
      BY <2>2
    <3>3. \A j \in DOMAIN q : q[j].id # r.id
      <4> SUFFICES ASSUME NEW j \in DOMAIN q, q[j].id = r.id PROVE FALSE
        OBVIOUS
      <4>1. PICK k \in 1..m : q[j] = rs[k]
        BY <2>2
      <4>2. k \in DOMAIN rs /\ m + 1 \in DOMAIN rs /\ k # m + 1
        BY <1>1, <2>1
      <4> QED
        BY <4>1, <4>2 DEF Distinct
    <3>4. Distinct(p)
      <4> HIDE DEF p, r
      <4> QED
        BY <2>2, <3>2, <3>3 DEF Distinct
    <3>5. \A j \in DOMAIN p : \E k \in 1..(m + 1) : p[j] = rs[k]
      <4> SUFFICES ASSUME NEW j \in DOMAIN p PROVE \E k \in 1..(m + 1) : p[j] = rs[k]
        OBVIOUS
      <4>1. CASE j = Len(q) + 1
        BY <2>1, <3>2, <4>1
      <4>2. CASE j # Len(q) + 1
        <5>1. j \in DOMAIN q /\ p[j] = q[j]
          BY <3>2, <4>2
        <5>2. PICK k \in 1..m : q[j] = rs[k]
          BY <2>2, <5>1
        <5> QED
          BY <5>1, <5>2
      <4> QED
        BY <4>1, <4>2
    <3> HIDE DEF p
    <3> QED
      BY <2>1, <3>1, <3>4, <3>5
  <2> QED
    BY <2>4, <2>5
<1>4. N \in T
  <2> HIDE DEF T
  <2>1. \A m \in 0..N : m \in T
    BY <1>1, <1>2, <1>3, SegmentInduction
  <2> QED
    BY <1>1, <2>1
<1> QED
  BY <1>1, <1>4

(* Without one record: the later ones move up. *)
Skip(p, j) == IF j < p THEN j ELSE j + 1

LEMMA DroppedOne ==
    ASSUME NEW rs \in Seq(Record), Distinct(rs), NEW p \in DOMAIN rs,
           NEW q, q = Dropped(rs, {rs[p].id})
    PROVE  /\ q \in Seq(Record) /\ Len(q) = Len(rs) - 1
           /\ \A j \in 1..Len(q) : q[j] = rs[Skip(p, j)]
<1> DEFINE N == Len(rs)
<1>0. PICK rest : DropRounds(rs, {rs[p].id}, rest)
  BY DroppedRounds
<1>1. /\ N \in Nat /\ p \in 1..N /\ rest \in [0..N -> Seq(Record)]
      /\ q = rest[N] /\ rest[0] = <<>>
      /\ \A n \in 1..N : rest[n] =
             IF rs[n].id \in {rs[p].id} THEN rest[n - 1] ELSE Append(rest[n - 1], rs[n])
  BY <1>0 DEF DropRounds
<1>2. \A n \in 1..N : rs[n].id \in {rs[p].id} <=> n = p
  BY <1>1 DEF Distinct
<1>3. \A n \in 1..N : rest[n] = IF n = p THEN rest[n - 1] ELSE Append(rest[n - 1], rs[n])
  BY <1>1, <1>2
<1> DEFINE Size(m) == IF m < p THEN m ELSE m - 1
           P(m) == /\ Len(rest[m]) = Size(m)
                   /\ \A j \in 1..Size(m) : rest[m][j] = rs[Skip(p, j)]
           T == {m \in 0..N : P(m)}
<1> HIDE DEF N
<1>4. 0 \in T
  BY <1>1
<1>5. ASSUME NEW m \in 0..N, m \in T, m < N PROVE m + 1 \in T
  <2>1. m + 1 \in 1..N /\ m + 1 - 1 = m /\ m + 1 \in 0..N
    BY <1>1, <1>5
  <2>2. rest[m] \in Seq(Record) /\ P(m) /\ m \in Nat /\ p \in Nat
    BY <1>1, <1>5
  <2>3. rest[m + 1] = IF m + 1 = p THEN rest[m] ELSE Append(rest[m], rs[m + 1])
    BY <1>3, <2>1
  <2>4. CASE m + 1 = p
    <3>1. Size(m + 1) = Size(m) /\ rest[m + 1] = rest[m]
      BY <2>2, <2>3, <2>4
    <3> QED
      BY <2>1, <2>2, <3>1
  <2>5. CASE m + 1 # p
    <3>1. rest[m + 1] = Append(rest[m], rs[m + 1])
      BY <2>3, <2>5
    <3>2. /\ Len(rest[m + 1]) = Size(m) + 1
          /\ \A j \in 1..Size(m) : rest[m + 1][j] = rest[m][j]
          /\ rest[m + 1][Size(m) + 1] = rs[m + 1]
      BY <2>2, <3>1
    <3>3. Size(m + 1) = Size(m) + 1 /\ Skip(p, Size(m) + 1) = m + 1
      BY <2>2, <2>5 DEF Skip
    <3>4. ASSUME NEW j \in 1..Size(m + 1) PROVE rest[m + 1][j] = rs[Skip(p, j)]
      <4>1. CASE j = Size(m) + 1
        BY <3>2, <3>3, <4>1
      <4>2. CASE j # Size(m) + 1
        <5>1. j \in 1..Size(m)
          BY <2>2, <3>3, <4>2
        <5> QED
          BY <2>2, <3>2, <5>1
      <4> QED
        BY <4>1, <4>2
    <3> QED
      BY <2>1, <3>2, <3>3, <3>4
  <2> QED
    BY <2>4, <2>5
<1>6. N \in T
  <2> HIDE DEF T
  <2>1. \A n \in 0..N : n \in T
    BY <1>1, <1>4, <1>5, SegmentInduction
  <2> QED
    BY <1>1, <2>1
<1>7. Size(N) = N - 1 /\ q \in Seq(Record)
  BY <1>1
<1>8. Len(q) = N - 1 /\ \A j \in 1..(N - 1) : q[j] = rs[Skip(p, j)]
  <2>1. P(N)
    BY <1>6
  <2> QED
    BY <1>1, <1>7, <2>1
<1>9. Len(rs) = N
  BY DEF N
<1> QED
  BY <1>7, <1>8, <1>9

(* Move: what position j of the result had. *)
Before(p, target, j) ==
    IF j = target THEN p ELSE Skip(p, IF j < target THEN j ELSE j - 1)

MovedTo(rs, p, target, r) ==
    LET rest == Dropped(rs, {rs[p].id})
    IN  SubSeq(rest, 1, target - 1) \o <<r>> \o SubSeq(rest, target, Len(rest))

(* Every position has a place in the result, and only one. *)
Rearranges(n, p, t) ==
    /\ \A j \in 1..n : Before(p, t, j) \in 1..n
    /\ \A j, k \in 1..n : Before(p, t, j) = Before(p, t, k) => j = k
    /\ \A k \in 1..n : \E j \in 1..n : Before(p, t, j) = k

LEMMA BeforeOnto ==
    ASSUME NEW n \in Nat, NEW p \in 1..n, NEW t \in 1..n
    PROVE  Rearranges(n, p, t)
<1>1. \A j \in 1..n : Before(p, t, j) \in 1..n
  BY DEF Before, Skip
<1>2. \A j, k \in 1..n : Before(p, t, j) = Before(p, t, k) => j = k
  BY DEF Before, Skip
<1>3. ASSUME NEW k \in 1..n PROVE \E j \in 1..n : Before(p, t, j) = k
  <2> DEFINE l == IF k < p THEN k ELSE k - 1
             j == IF k = p THEN t ELSE IF l < t THEN l ELSE l + 1
  <2>1. j \in 1..n /\ Before(p, t, j) = k
    BY DEF Before, Skip
  <2> HIDE DEF j
  <2> QED
    BY <2>1
<1> QED
  BY <1>1, <1>2, <1>3 DEF Rearranges

Joins(q, c, b) ==
    /\ q \in Seq(Record) /\ Len(q) = Len(c) + Len(b)
    /\ \A j \in 1..Len(c) : q[j] = c[j]
    /\ \A j \in 1..Len(b) : q[Len(c) + j] = b[j]

LEMMA Concatenated ==
    ASSUME NEW c \in Seq(Record), NEW b \in Seq(Record), NEW q, q = c \o b
    PROVE  Joins(q, c, b)
BY DEF Joins

Relocated(q, rs, p, target, r) ==
    /\ q \in Seq(Record) /\ Len(q) = Len(rs)
    /\ \A j \in 1..Len(rs) :
           q[j] = IF j = target THEN r ELSE rs[Before(p, target, j)]

LEMMA MovedRecords ==
    ASSUME NEW rs \in Seq(Record), Distinct(rs), NEW p \in DOMAIN rs,
           NEW target \in DOMAIN rs, NEW r \in Record,
           NEW q, q = MovedTo(rs, p, target, r)
    PROVE  Relocated(q, rs, p, target, r)
<1> DEFINE rest == Dropped(rs, {rs[p].id})
           N == Len(rs)
<1>1. /\ rest \in Seq(Record) /\ Len(rest) = N - 1
      /\ \A j \in 1..Len(rest) : rest[j] = rs[Skip(p, j)]
  BY DroppedOne
<1>2. N \in Nat /\ p \in 1..N /\ target \in 1..N
  OBVIOUS
<1> HIDE DEF rest, N
<1> DEFINE a == SubSeq(rest, 1, target - 1)
           b == SubSeq(rest, target, N - 1)
<1>3. /\ a \in Seq(Record) /\ Len(a) = target - 1
      /\ \A j \in 1..(target - 1) : a[j] = rest[j]
  BY <1>1, <1>2
<1>4. /\ b \in Seq(Record) /\ Len(b) = N - target
      /\ \A j \in 1..(N - target) : b[j] = rest[j + target - 1]
  BY <1>1, <1>2
<1>5. q = a \o <<r>> \o b
  BY <1>1 DEF MovedTo, rest
<1> HIDE DEF a, b
<1> DEFINE c == a \o <<r>>
<1>6. /\ c \in Seq(Record) /\ Len(c) = target
      /\ \A j \in 1..(target - 1) : c[j] = a[j]
      /\ c[target] = r
  BY <1>2, <1>3
<1>7. q = c \o b
  BY <1>5
<1> HIDE DEF c
<1>8. /\ q \in Seq(Record) /\ Len(q) = N
      /\ \A j \in 1..target : q[j] = c[j]
      /\ \A j \in 1..N : j > target => q[j] = b[j - target]
  <2>1. /\ q \in Seq(Record) /\ Len(q) = target + (N - target)
        /\ \A j \in 1..target : q[j] = c[j]
        /\ \A j \in 1..(N - target) : q[target + j] = b[j]
    <3>1. Joins(q, c, b)
      BY <1>4, <1>6, <1>7, Concatenated
    <3> QED
      BY <1>4, <1>6, <3>1 DEF Joins
  <2>2. ASSUME NEW j \in 1..N, j > target PROVE q[j] = b[j - target]
    <3>1. j - target \in 1..(N - target) /\ target + (j - target) = j
      BY <1>2, <2>2
    <3> QED
      BY <2>1, <3>1
  <2> QED
    BY <1>2, <2>1, <2>2
<1>9. ASSUME NEW j \in 1..N
      PROVE  q[j] = IF j = target THEN r ELSE rs[Before(p, target, j)]
  <2>1. CASE j < target
    <3>1. j \in 1..(target - 1) /\ j \in 1..target /\ j \in 1..(N - 1)
      BY <1>2, <2>1
    <3>2. q[j] = rest[j]
      BY <1>3, <1>6, <1>8, <3>1
    <3>3. rest[j] = rs[Skip(p, j)]
      BY <1>1, <3>1
    <3> QED
      BY <2>1, <3>2, <3>3 DEF Before
  <2>2. CASE j = target
    BY <1>2, <1>6, <1>8, <2>2
  <2>3. CASE j > target
    <3>1. j - target \in 1..(N - target) /\ j - 1 \in 1..(N - 1)
          /\ j - target + target - 1 = j - 1 /\ ~(j < target) /\ j # target
      BY <1>2, <2>3
    <3>2. q[j] = b[j - target]
      BY <1>8, <2>3
    <3>3. b[j - target] = rest[j - 1]
      BY <1>4, <3>1
    <3>4. rest[j - 1] = rs[Skip(p, j - 1)]
      BY <1>1, <3>1
    <3> QED
      BY <3>1, <3>2, <3>3, <3>4 DEF Before
  <2> QED
    BY <1>2, <2>1, <2>2, <2>3
<1> QED
  BY <1>8, <1>9 DEF N, Relocated

(* Dependents are records. *)
LEMMA DependentsAmong ==
    ASSUME records \in Seq(Record), NEW f
    PROVE  Dependents(f) \subseteq Ids(records)
<1> DEFINE N == Len(records)
           I == Ids(records)
           V == SUBSET I
           users(S) == {records[i].id : i \in {j \in DOMAIN records :
                            DependenciesOf(records[j]) \cap S # {}}}
           a == users({f})
           Round(S) == S \cup users(S)
           g == [p \in V \X (1..N) |-> Round(p[1])]
           Def(h) == [n \in 0..N |-> IF n = 0 THEN a ELSE Round(h[n - 1])]
           R == CHOOSE h : h = Def(h)
<1>1. N \in Nat
  OBVIOUS
<1>2. a \in V /\ \A S \in V : Round(S) \in V
  BY DEF Ids
<1>3. g \in [V \X (1..N) -> V]
  <2> HIDE DEF Round, V, N
  <2> QED
    BY <1>2
<1>4. PICK h : Iterates(h, V, a, N, g)
  <2> HIDE DEF g, V, N, a
  <2> QED
    BY <1>1, <1>2, <1>3, SegmentRecursion
<1>5. /\ h \in [0..N -> V] /\ h[0] = a
      /\ \A n \in 1..N : h[n] = g[<<h[n - 1], n>>]
  BY <1>4 DEF Iterates
<1>6. h = Def(h)
  <2> SUFFICES ASSUME NEW n \in 1..N PROVE h[n] = Round(h[n - 1])
    <3> HIDE DEF Round, N, a, V, g
    <3> QED
      BY <1>1, <1>5
  <2>1. h[n - 1] \in V
    <3> HIDE DEF N, V
    <3> QED
      BY <1>1, <1>5
  <2> HIDE DEF Round, V, N
  <2> QED
    BY <1>5, <2>1
<1>7. R = Def(R)
  <2> HIDE DEF Def
  <2> QED
    BY <1>6
<1>8. Dependents(f) = R[N]
  BY DEF Dependents
<1>9. R[0] = a /\ \A n \in 1..N : R[n] = Round(R[n - 1])
  <2> HIDE DEF R, Round, N, a
  <2> QED
    BY <1>1, <1>7
<1> DEFINE T == {n \in 0..N : R[n] \in V}
<1> HIDE DEF R, V, Round, a, N
<1>10. 0 \in T
  BY <1>1, <1>2, <1>9
<1>11. ASSUME NEW n \in 0..N, n \in T, n < N PROVE n + 1 \in T
  <2>1. n + 1 \in 1..N /\ n + 1 - 1 = n /\ R[n] \in V
    BY <1>1, <1>11
  <2>2. R[n + 1] = Round(R[n])
    BY <1>9, <2>1
  <2> QED
    BY <1>2, <2>1, <2>2
<1>12. N \in T
  <2> HIDE DEF T
  <2>1. \A n \in 0..N : n \in T
    BY <1>1, <1>10, <1>11, SegmentInduction
  <2> QED
    BY <1>1, <2>1
<1>13. R[N] \in V
  BY <1>12
<1> QED
  BY <1>8, <1>13 DEF V

-----------------------------------------------------------------------------
(* Replacements that lead on *)

(* What is reached is closed: a round that reaches nothing new is the last *)
(* to, and there are as many rounds as replacements.                       *)
LEMMA DescendClosed ==
    ASSUME NEW hist, NEW S, IsFiniteSet(DOMAIN hist)
    PROVE  /\ S \subseteq Descend(hist, S)
           /\ \A x \in Descend(hist, S) \cap DOMAIN hist : hist[x] \subseteq Descend(hist, S)
<1> DEFINE N == Cardinality(DOMAIN hist)
           Closed(A) == \A x \in A \cap DOMAIN hist : hist[x] \subseteq A
<1>0. PICK reach : Rounds(hist, S, reach)
  BY DescendRounds
<1>1. /\ N \in Nat /\ Descend(hist, S) = reach[N] /\ reach[0] = S
      /\ \A n \in 1..N :
             reach[n] = reach[n - 1]
                 \cup UNION {hist[x] : x \in reach[n - 1] \cap DOMAIN hist}
  BY <1>0 DEF Rounds
<1> DEFINE Met(n) == reach[n] \cap DOMAIN hist
           T == {n \in 0..N : /\ S \subseteq reach[n]
                              /\ Closed(reach[n]) \/ Cardinality(Met(n)) > n}
<1>2. \A n : IsFiniteSet(Met(n)) /\ Cardinality(Met(n)) \in Nat /\ Cardinality(Met(n)) <= N
  <2> SUFFICES ASSUME NEW n
               PROVE  IsFiniteSet(Met(n)) /\ Cardinality(Met(n)) \in Nat
                      /\ Cardinality(Met(n)) <= N
    OBVIOUS
  <2>1. Met(n) \in SUBSET DOMAIN hist
    OBVIOUS
  <2> HIDE DEF Met
  <2>2. IsFiniteSet(Met(n)) /\ Cardinality(Met(n)) <= N
    BY <2>1, FS_Subset
  <2> QED
    BY <2>2, FS_CardinalityType
<1> HIDE DEF N
<1>3. 0 \in T
  <2>1. CASE Met(0) = {}
    BY <1>1, <2>1
  <2>2. CASE Met(0) # {}
    <3>1. Cardinality(Met(0)) # 0
      <4> HIDE DEF Met
      <4> QED
        BY <1>2, <2>2, FS_EmptySet
    <3>2. Cardinality(Met(0)) > 0
      <4> HIDE DEF Met
      <4> QED
        BY <1>2, <3>1
    <3> HIDE DEF Met
    <3> QED
      BY <1>1, <3>2
  <2> QED
    BY <2>1, <2>2
<1>4. ASSUME NEW n \in 0..N, n \in T, n < N PROVE n + 1 \in T
  <2>1. n + 1 \in 0..N /\ n + 1 \in 1..N /\ n + 1 - 1 = n
    BY <1>1, <1>4
  <2>2. reach[n + 1] = reach[n] \cup UNION {hist[x] : x \in Met(n)}
    BY <1>1, <2>1
  <2>3. S \subseteq reach[n + 1] /\ Met(n) \subseteq Met(n + 1)
    BY <1>4, <2>2
  <2>4. CASE Closed(reach[n])
    <3>1. reach[n + 1] = reach[n]
      BY <2>2, <2>4
    <3> QED
      BY <2>1, <2>3, <2>4, <3>1
  <2>5. CASE ~Closed(reach[n]) /\ ~Closed(reach[n + 1])
    <3>1. PICK x \in Met(n + 1) : ~(hist[x] \subseteq reach[n + 1])
      BY <2>5
    <3>2. x \notin Met(n)
      BY <2>2, <3>1
    <3>3. Met(n) # Met(n + 1)
      BY <3>1, <3>2
    <3>4. Cardinality(Met(n)) > n
      BY <1>4, <2>5
    <3> HIDE DEF Met
    <3>5. /\ Cardinality(Met(n)) <= Cardinality(Met(n + 1))
          /\ Cardinality(Met(n)) # Cardinality(Met(n + 1))
      BY <1>2, <2>3, <3>3, FS_Subset
    <3>6. Cardinality(Met(n + 1)) > n + 1
      <4>1. /\ Cardinality(Met(n)) \in Nat /\ Cardinality(Met(n + 1)) \in Nat /\ n \in Nat
        BY <1>2
      <4> QED
        BY <3>4, <3>5, <4>1
    <3> HIDE DEF Closed
    <3> QED
      BY <2>1, <2>3, <3>6
  <2>6. CASE Closed(reach[n + 1])
    <3> HIDE DEF Met, Closed
    <3> QED
      BY <2>1, <2>3, <2>6
  <2> QED
    BY <2>4, <2>5, <2>6
<1>5. N \in T
  <2> HIDE DEF T
  <2>1. \A n \in 0..N : n \in T
    BY <1>1, <1>3, <1>4, SegmentInduction
  <2> QED
    BY <1>1, <2>1
<1>6. Closed(reach[N]) /\ S \subseteq reach[N]
  <2>1. Cardinality(Met(N)) \in Nat /\ Cardinality(Met(N)) <= N
    BY <1>2
  <2>2. S \subseteq reach[N] /\ (Closed(reach[N]) \/ Cardinality(Met(N)) > N)
    BY <1>5
  <2> HIDE DEF Met, Closed
  <2> QED
    BY <1>1, <2>1, <2>2
<1> QED
  BY <1>1, <1>6

(* It reaches nothing outside a set that is closed.                        *)
LEMMA DescendWithin ==
    ASSUME NEW hist, NEW S, NEW T, IsFiniteSet(DOMAIN hist), S \subseteq T,
           \A x \in T \cap DOMAIN hist : hist[x] \subseteq T
    PROVE  Descend(hist, S) \subseteq T
<1> DEFINE N == Cardinality(DOMAIN hist)
<1>0. PICK reach : Rounds(hist, S, reach)
  BY DescendRounds
<1>1. /\ N \in Nat /\ Descend(hist, S) = reach[N] /\ reach[0] = S
      /\ \A n \in 1..N :
             reach[n] = reach[n - 1]
                 \cup UNION {hist[x] : x \in reach[n - 1] \cap DOMAIN hist}
  BY <1>0 DEF Rounds
<1> DEFINE Q == {n \in 0..N : reach[n] \subseteq T}
<1> HIDE DEF N
<1>2. 0 \in Q
  BY <1>1
<1>3. ASSUME NEW n \in 0..N, n \in Q, n < N PROVE n + 1 \in Q
  <2>1. n + 1 \in 0..N /\ n + 1 \in 1..N /\ n + 1 - 1 = n
    BY <1>1, <1>3
  <2>2. reach[n + 1] = reach[n] \cup UNION {hist[x] : x \in reach[n] \cap DOMAIN hist}
    BY <1>1, <2>1
  <2> QED
    BY <1>3, <2>1, <2>2
<1>4. N \in Q
  <2> HIDE DEF Q
  <2>1. \A n \in 0..N : n \in Q
    BY <1>1, <1>2, <1>3, SegmentInduction
  <2> QED
    BY <1>1, <2>1
<1> QED
  BY <1>1, <1>4

(* Lineage h that leads on, from the identifiers C, to identifiers that    *)
(* are not replaced has no detour that leads back.                         *)
LEMMA LeadsNowhereBack ==
    ASSUME NEW g, Sound(g), ValidHistory(g), NEW h, NEW C, NEW K,
           IsFiniteSet(DOMAIN h), DOMAIN h = DOMAIN g.hist \cup C,
           \A x \in DOMAIN g.hist : h[x] = g.hist[x],
           \A x \in C \ DOMAIN g.hist : h[x] \subseteq K,
           K \cap DOMAIN h = {}
    PROVE  \A x \in DOMAIN h : x \notin Descend(h, h[x])
<1>1. ASSUME NEW x \in DOMAIN g.hist PROVE x \notin Descend(h, h[x])
  <2> DEFINE D == Descend(g.hist, g.hist[x])
             T == D \cup K
  <2>1. /\ g.hist[x] \subseteq D
        /\ \A y \in D \cap DOMAIN g.hist : g.hist[y] \subseteq D
    BY HistoryFinite, DescendClosed
  <2>2. x \notin D
    BY DEF ValidHistory
  <2> HIDE DEF D
  <2>3. \A y \in T \cap DOMAIN h : h[y] \subseteq T
    BY <2>1
  <2>4. h[x] \subseteq T
    BY <2>1
  <2>5. Descend(h, h[x]) \subseteq T
    <3> HIDE DEF T
    <3> QED
      BY <2>3, <2>4, DescendWithin
  <2> QED
    BY <2>2, <2>5
<1>2. ASSUME NEW x \in C \ DOMAIN g.hist PROVE x \notin Descend(h, h[x])
  <2>1. Descend(h, h[x]) \subseteq K
    BY DescendWithin
  <2> QED
    BY <2>1
<1> QED
  BY <1>1, <1>2

-----------------------------------------------------------------------------
(* What every record but a transform has for itself                        *)

Makes(r) == r.kind # "transform" /\ r.output # NoOutput

(* No two records made the same entity, and each made one of its kind.     *)
Owns(rs, w) ==
    /\ \A i, j \in DOMAIN rs :
           Makes(rs[i]) /\ Makes(rs[j]) /\ rs[i].output = rs[j].output => i = j
    /\ \A i \in DOMAIN rs :
           Makes(rs[i]) => (IsEdge(w, rs[i].output) <=> rs[i].kind = "line")

LEMMA KindUnmoved ==
    ASSUME NEW g, Sound(g), NEW h, Sound(h), NEW e \in Live(g) \cap Live(h),
           Unmoved(g.ents[e]) = Unmoved(h.ents[e])
    PROVE  IsEdge(g, e) <=> IsEdge(h, e)
<1> DEFINE x == g.ents[e]
           y == h.ents[e]
<1>1. Entity(x) /\ Entity(y) /\ Unmoved(x) = Unmoved(y)
  BY DEF Sound
<1>2. (IsEdge(g, e) <=> x.kind = "edge") /\ (IsEdge(h, e) <=> y.kind = "edge")
  BY DEF IsEdge
<1> HIDE DEF x, y
<1>3. x.kind \in {"vertex", "edge"} /\ y.kind \in {"vertex", "edge"}
  BY <1>1, EntityKinds
<1>4. /\ x.kind = "vertex" => Unmoved(x).kind = "vertex"
      /\ y.kind = "vertex" => Unmoved(y).kind = "vertex"
      /\ x.kind = "edge" => Unmoved(x) = x
      /\ y.kind = "edge" => Unmoved(y) = y
  BY EntityForms DEF Unmoved
<1> QED
  BY <1>1, <1>2, <1>3, <1>4

(* A round gives record i nothing, what it had, or something of its own.   *)
LEMMA OwnsOnward ==
    ASSUME NEW rs, NEW w, Sound(w), Rooted(rs, w), Owns(rs, w),
           NEW v, Grown(w, v), NEW qs, DOMAIN qs = DOMAIN rs, NEW i \in DOMAIN rs,
           qs[i].kind = rs[i].kind, \A j \in DOMAIN rs : j # i => qs[j] = rs[j],
           \/ rs[i].kind = "transform"
           \/ qs[i].output \in {NoOutput, rs[i].output}
           \/ /\ qs[i].output \notin Live(w)
              /\ IsEdge(v, qs[i].output) <=> rs[i].kind = "line"
    PROVE  Owns(qs, v)
<1>1. ASSUME NEW j \in DOMAIN rs, Makes(rs[j])
      PROVE  /\ rs[j].output \in Live(w)
             /\ IsEdge(v, rs[j].output) <=> rs[j].kind = "line"
  <2>1. rs[j].output \in Live(w)
    BY <1>1 DEF Makes, Rooted
  <2>2. Sound(v) /\ rs[j].output \in Live(v)
        /\ Unmoved(v.ents[rs[j].output]) = Unmoved(w.ents[rs[j].output])
    BY <2>1 DEF Grown
  <2>3. IsEdge(v, rs[j].output) <=> IsEdge(w, rs[j].output)
    BY <2>1, <2>2, KindUnmoved
  <2> QED
    BY <1>1, <2>1, <2>3 DEF Owns
<1>2. ASSUME NEW j \in DOMAIN qs, Makes(qs[j])
      PROVE  /\ IsEdge(v, qs[j].output) <=> qs[j].kind = "line"
             /\ qs[j].output \in Live(w) => Makes(rs[j]) /\ rs[j].output = qs[j].output
             /\ qs[j].output \notin Live(w) => j = i
  BY <1>1, <1>2 DEF Makes
<1>3. ASSUME NEW j \in DOMAIN qs, NEW k \in DOMAIN qs, Makes(qs[j]), Makes(qs[k]),
             qs[j].output = qs[k].output
      PROVE  j = k
  <2>1. CASE qs[j].output \in Live(w)
    BY <1>2, <1>3, <2>1 DEF Owns
  <2>2. CASE qs[j].output \notin Live(w)
    BY <1>2, <1>3, <2>2
  <2> QED
    BY <2>1, <2>2
<1> QED
  BY <1>2, <1>3 DEF Owns

(* The record that an end of a line comes from.                            *)
At(i, k) == Position(records, records[i].inputs[k])

LEMMA SourceAt ==
    ASSUME WellOrdered(records), NEW rs, SameDefinitions(rs, records),
           NEW i \in 1..Len(records), records[i].kind = "line", NEW k \in 1..2
    PROVE  /\ At(i, k) \in 1..(i - 1) /\ At(i, k) \in 1..Len(records)
           /\ Source(rs, i, k) = rs[At(i, k)].output
           /\ rs[i].inputs[k] \in Members(rs[i].inputs)
<1>1. SameDefinitions(records, records)
  BY DEF SameDefinitions, DefinedAs, WellOrdered
<1>2. Ports(records[i]) /\ DefinedAs(rs[i], records[i])
  BY DEF WellOrdered, SameDefinitions
<1>3. rs[i].inputs = records[i].inputs /\ DOMAIN records[i].inputs = 1..2
  BY <1>2 DEF Ports, DefinedAs
<1>4. records[i].inputs[k] \in DependenciesOf(records[i])
  BY <1>3 DEF DependenciesOf, Members
<1>5. At(i, k) \in 1..(i - 1)
  BY <1>1, <1>4, SourceEarlier DEF At
<1>6. Position(rs, rs[i].inputs[k]) = At(i, k)
  BY <1>1, <1>3, <1>4, SameSources DEF At
<1>7. i \in Nat /\ Len(records) \in Nat
  BY DEF WellOrdered
<1> QED
  BY <1>3, <1>5, <1>6, <1>7 DEF Source, Members

(* What an executor makes, and of what.                                    *)
Adds(w, rs, i, x) ==
    /\ x.output = w.next /\ x.work.next = w.next + 1 /\ x.work.hist = w.hist
    /\ Live(x.work) = Live(w) \cup {w.next}
    /\ \A e \in Live(w) : x.work.ents[e] = w.ents[e]
    /\ IsEdge(x.work, w.next) <=> rs[i].kind = "line"
    /\ rs[i].kind = "line" =>
           \A k \in 1..2 : Source(rs, i, k) \in Live(w) /\ ~IsEdge(w, Source(rs, i, k))
    /\ rs[i].kind = "line" =>
           x.work.ents[w.next] = Line(Source(rs, i, 1), Source(rs, i, 2))

LEMMA ExecuteAdds ==
    ASSUME WellOrdered(records), NEW rs, SameDefinitions(rs, records),
           NEW w, Sound(w), Rooted(rs, w), NEW i \in 1..Len(records),
           rs[i].kind # "transform", ~Blocked(w, rs, rs[i]),
           NEW x, x = Execute(w, rs, rs[i]), x.ok
    PROVE  Adds(w, rs, i, x)
<1> DEFINE r == rs[i]
           input == [k \in DOMAIN r.inputs |-> Only(InputEntities(w, rs, r.inputs[k]))]
<1>0. /\ DefinedAs(r, records[i]) /\ Ports(records[i])
      /\ DOMAIN rs = 1..Len(records) /\ DOMAIN records = 1..Len(records)
  BY DEF SameDefinitions, WellOrdered
<1>1. r.kind \in {"point", "line"} /\ (r.kind = "line" => DOMAIN r.inputs = 1..2)
  BY <1>0 DEF Ports, DefinedAs
<1>2. CASE r.kind = "point"
  <2> DEFINE y == Point(r.parameter, <<>>)
  <2>1. x = Made(Add(w, y), w.next)
    BY <1>2 DEF Execute
  <2>2. x.work = Add(w, y) /\ x.output = w.next
    BY <2>1 DEF Made
  <2>3. Entity(y) /\ y.kind = "vertex"
    BY EntityForms
  <2> HIDE DEF y
  <2>4. /\ Live(x.work) = Live(w) \cup {w.next} /\ x.work.next = w.next + 1
        /\ x.work.ents[w.next] = y /\ x.work.hist = w.hist
        /\ \A e \in Live(w) : x.work.ents[e] = w.ents[e]
    BY <2>2, <2>3, AddEffect DEF Grown
  <2>5. ~IsEdge(x.work, w.next)
    BY <2>3, <2>4 DEF IsEdge
  <2> QED
    BY <1>2, <2>2, <2>4, <2>5 DEF Adds
<1>3. CASE r.kind = "line"
  <2>1. ASSUME NEW k \in 1..2
        PROVE  Source(rs, i, k) \in Live(w) /\ input[k] = Source(rs, i, k)
    <3> DEFINE o == Source(rs, i, k)
    <3>1. /\ records[i].kind = "line" /\ o = rs[At(i, k)].output
          /\ At(i, k) \in DOMAIN rs /\ r.inputs[k] \in Members(r.inputs)
      BY <1>0, <1>3, SourceAt DEF DefinedAs
    <3>2. o = rs[Position(rs, r.inputs[k])].output
      BY DEF Source
    <3> HIDE DEF o
    <3>3. InputEntities(w, rs, r.inputs[k]) # {}
      BY <3>1 DEF Blocked
    <3>4. o # NoOutput /\ InputEntities(w, rs, r.inputs[k]) = Resolve(w, o)
      BY <3>2, <3>3 DEF InputEntities
    <3>5. o \in Live(w)
      BY <3>1, <3>4 DEF Rooted
    <3>6. Resolve(w, o) = {o} /\ Only({o}) = o
      BY <3>5, ResolveLive, OnlyMember
    <3> QED
      BY <1>1, <1>3, <3>4, <3>5, <3>6 DEF o
  <2> DEFINE y == Line(input[1], input[2])
             bad == \/ \E k \in DOMAIN input : IsEdge(w, input[k])
                    \/ PointPayload(w, input[1]) = PointPayload(w, input[2])
  <2>2. x = IF bad THEN Refused(w) ELSE Made(Add(w, y), w.next)
    BY <1>3 DEF Execute
  <2>3. DOMAIN input = 1..2
    BY <1>1, <1>3
  <2> HIDE DEF input
  <2>4. Entity(y) /\ y.kind = "edge" /\ y.from = input[1] /\ y.to = input[2]
    BY EntityForms
  <2>5. y = Line(Source(rs, i, 1), Source(rs, i, 2))
    BY <2>1
  <2> HIDE DEF y
  <2>6. ~bad
    <3> SUFFICES ASSUME bad PROVE FALSE
      OBVIOUS
    <3> HIDE DEF bad
    <3> QED
      BY <2>2 DEF Refused
  <2>7. x.work = Add(w, y) /\ x.output = w.next
    <3> HIDE DEF bad
    <3> QED
      BY <2>2, <2>6 DEF Made
  <2>8. \A k \in 1..2 : ~IsEdge(w, Source(rs, i, k))
    BY <2>1, <2>3, <2>6
  <2> HIDE DEF bad
  <2>9. /\ Live(x.work) = Live(w) \cup {w.next} /\ x.work.next = w.next + 1
        /\ x.work.ents[w.next] = y /\ x.work.hist = w.hist
        /\ \A e \in Live(w) : x.work.ents[e] = w.ents[e]
    BY <2>1, <2>4, <2>7, AddEffect DEF Grown
  <2>10. IsEdge(x.work, w.next)
    BY <2>4, <2>9 DEF IsEdge
  <2> QED
    BY <1>3, <2>1, <2>5, <2>7, <2>8, <2>9, <2>10 DEF Adds
<1> QED
  BY <1>1, <1>2, <1>3

(* The rounds of an incremental replay.                                    *)
IncrementalRounds(R, start, forceNew) ==
    /\ R[start - 1] = Replaying(records, geometry)
    /\ \A i \in start..Len(records) : R[i] = IncrementalStep(R[i - 1], i, forceNew)

LEMMA IncrementalReplayRounds ==
    ASSUME Len(records) \in Nat, NEW start \in 1..(Len(records) + 1), NEW forceNew
    PROVE  \E R : /\ IncrementalRounds(R, start, forceNew)
                 /\ IncrementalReplay(start, forceNew) = R[Len(records)]
<1> DEFINE a == start - 1
           N == Len(records)
           M == N - a
           First == Replaying(records, geometry)
           Step(x, i) == IncrementalStep(x, i, forceNew)
           Def(m, f) == [i \in a..(a + m) |-> IF i = a THEN First ELSE Step(f[i - 1], i)]
           T == {m \in 0..M : \E f : f = Def(m, f)}
           R == CHOOSE f : f = [i \in a..N |-> IF i = a THEN First ELSE Step(f[i - 1], i)]
<1>0. N \in Nat /\ a \in Nat /\ start \in Nat /\ M \in Nat /\ a + M = N /\ a + 0 = a
      /\ a + 1 = start
  OBVIOUS
<1>1. IncrementalReplay(start, forceNew) = R[N]
  BY DEF IncrementalReplay
<1> HIDE DEF a, N, M, First, Step
<1>2. 0 \in T
  <2> DEFINE h == [i \in a..a |-> First]
  <2>1. h = Def(0, h)
    BY <1>0
  <2> HIDE DEF h, Def
  <2> QED
    BY <1>0, <2>1
<1>3. ASSUME NEW m \in 0..M, m \in T, m < M PROVE m + 1 \in T
  <2>1. PICK f : f = Def(m, f)
    BY <1>3
  <2> DEFINE h == [i \in a..(a + (m + 1)) |->
                       IF i = a + (m + 1) THEN Step(f[i - 1], i) ELSE f[i]]
  <2>2. ASSUME NEW i \in a..(a + (m + 1))
        PROVE  h[i] = IF i = a THEN First ELSE Step(h[i - 1], i)
    <3>1. CASE i = a + (m + 1)
      <4>1. i # a /\ i - 1 \in a..(a + (m + 1)) /\ i - 1 # a + (m + 1)
        BY <1>0, <3>1
      <4>2. h[i - 1] = f[i - 1] /\ h[i] = Step(f[i - 1], i)
        BY <3>1, <4>1
      <4> QED
        BY <4>1, <4>2
    <3>2. CASE i # a + (m + 1)
      <4>1. i \in a..(a + m)
        BY <1>0, <3>2
      <4>2. h[i] = f[i] /\ f[i] = IF i = a THEN First ELSE Step(f[i - 1], i)
        BY <2>1, <3>2, <4>1
      <4>3. i # a => h[i - 1] = f[i - 1]
        BY <1>0, <4>1
      <4> QED
        BY <4>2, <4>3
    <3> QED
      BY <3>1, <3>2
  <2>3. h = Def(m + 1, h)
    <3> DEFINE k == [i \in a..(a + (m + 1)) |->
                         IF i = a THEN First ELSE Step(h[i - 1], i)]
    <3>1. DOMAIN h = DOMAIN k /\ \A i \in DOMAIN k : h[i] = k[i]
      BY <2>2
    <3>2. h = [i \in DOMAIN h |-> h[i]] /\ k = [i \in DOMAIN k |-> k[i]]
      OBVIOUS
    <3> HIDE DEF h, k
    <3>3. h = k
      BY <3>1, <3>2
    <3> QED
      BY <3>3 DEF k
  <2>4. \E q : q = Def(m + 1, q)
    <3> HIDE DEF Def, h
    <3> QED
      BY <2>3
  <2>5. m + 1 \in 0..M
    BY <1>0, <1>3
  <2> HIDE DEF Def, h
  <2> QED
    BY <2>4, <2>5
<1>4. M \in T
  <2> HIDE DEF T
  <2>1. M \in Nat /\ \A m \in 0..M : m \in T /\ m < M => m + 1 \in T
    BY <1>0, <1>3
  <2>2. \A m \in 0..M : m \in T
    BY <2>1, <1>2, SegmentInduction
  <2> QED
    BY <2>1, <2>2
<1>5. R = [i \in a..N |-> IF i = a THEN First ELSE Step(R[i - 1], i)]
  <2>1. \E f : f = [i \in a..N |-> IF i = a THEN First ELSE Step(f[i - 1], i)]
    BY <1>0, <1>4
  <2> QED
    BY <2>1
<1> HIDE DEF R
<1>6. R[a] = First /\ \A i \in (a + 1)..N : R[i] = Step(R[i - 1], i)
  BY <1>0, <1>5
<1> QED
  BY <1>0, <1>1, <1>6 DEF IncrementalRounds, N, First, Step, a

(* What a round may come to.                                               *)
ChangesOnly(s, t, i) ==
    /\ IsReplay(t) /\ t.ok
    /\ t.records \in Seq(Record) /\ Len(t.records) = Len(s.records)
    /\ DefinedAs(t.records[i], s.records[i])
    /\ \A j \in 1..Len(s.records) : j # i => t.records[j] = s.records[j]

Retires(s, t, i) ==
    t.retire = s.retire
        \cup (IF Old(i) = NoOutput THEN {} ELSE Closure(geometry, {Old(i)}))

Skips(s, t, i) ==
    /\ t.records[i].output = NoOutput /\ t.work = s.work
    /\ t.discard = s.discard /\ t.roles = s.roles /\ Retires(s, t, i)

Renews(s, t, i, x) ==
    /\ t.records[i].output = x.output /\ t.work = x.work
    /\ t.discard = s.discard /\ t.roles = s.roles /\ Retires(s, t, i)

Keeps(s, t, i, x, forceNew) ==
    /\ KeepsBinding(geometry, Old(i), x.work, x.output, forceNew)
    /\ t.records[i].output = Old(i) /\ t.work = x.work /\ t.retire = s.retire
    /\ t.discard = s.discard \cup Closure(x.work, {x.output})
    /\ t.roles = BindRoles(s.roles, x.work, x.output, geometry, Old(i))
    /\ t.roles.ok

LEMMA RetiringExactly ==
    ASSUME NEW s, IsReplay(s), NEW i, NEW t, t = Retiring(s, Old(i))
    PROVE  /\ IsReplay(t) /\ t.records = s.records /\ t.work = s.work /\ t.ok = s.ok
           /\ t.discard = s.discard /\ t.roles = s.roles /\ Retires(s, t, i)
<1> DEFINE gone == s.retire \cup (IF Old(i) = NoOutput THEN {} ELSE Closure(geometry, {Old(i)}))
<1>1. t = [s EXCEPT !.retire = gone]
  BY DEF Retiring
<1>2. Retires(s, t, i) <=> t.retire = gone
  BY DEF Retires
<1> HIDE DEF gone
<1>3. t = [records |-> s.records, work |-> s.work, retire |-> gone,
           discard |-> s.discard, roles |-> s.roles, ok |-> s.ok]
  BY <1>1 DEF IsReplay
<1>4. /\ IsReplay(t) /\ t.records = s.records /\ t.work = s.work /\ t.ok = s.ok
      /\ t.discard = s.discard /\ t.roles = s.roles /\ t.retire = gone
  BY <1>3 DEF IsReplay
<1> QED
  BY <1>2, <1>4

LEMMA IncrementalOutcome ==
    ASSUME Replayable, NEW start \in 1..(Len(records) + 1), NEW forceNew,
           NEW i \in start..Len(records),
           NEW s, s.ok => Incremental(s, start, i - 1, forceNew),
           NEW t, t = IncrementalStep(s, i, forceNew), t.ok
    PROVE  /\ s.ok /\ ChangesOnly(s, t, i)
           /\ \/ Skips(s, t, i)
              \/ \E x : Executable(s, x, i)
                        /\ (Renews(s, t, i, x) \/ Keeps(s, t, i, x, forceNew))
<1> DEFINE r == s.records[i]
           x == Execute(s.work, s.records, r)
           roles == BindRoles(s.roles, x.work, x.output, geometry, Old(i))
<1>1. s.ok
  BY DEF IncrementalStep
<1>2. /\ IsReplay(s) /\ s.records \in Seq(Record) /\ i \in 1..Len(s.records)
      /\ NoOutput \in Nat /\ {"ok", "suppressed", "blocked"} \subseteq States
      /\ Sound(s.work) /\ WellOrdered(records)
      /\ i \in 1..Len(records) /\ Len(records) \in Nat
  BY <1>1 DEF Replayable, WellOrdered, Incremental, SameDefinitions, Grown, NoOutput, States
<1>3. ASSUME NEW state \in States, t = Retiring(Settle(s, i, state, NoOutput), Old(i))
      PROVE  ChangesOnly(s, t, i) /\ Skips(s, t, i)
  <2> DEFINE u == Settle(s, i, state, NoOutput)
  <2>1. /\ IsReplay(u) /\ u.work = s.work /\ u.retire = s.retire
        /\ u.discard = s.discard /\ u.roles = s.roles /\ u.ok = s.ok
        /\ u.records \in Seq(Record) /\ Len(u.records) = Len(s.records)
        /\ DefinedAs(u.records[i], s.records[i]) /\ u.records[i].output = NoOutput
        /\ \A j \in 1..Len(s.records) : j # i => u.records[j] = s.records[j]
    BY <1>2, SettleEffect
  <2> HIDE DEF u
  <2>2. t = Retiring(u, Old(i))
    BY <1>3 DEF u
  <2>3. /\ IsReplay(t) /\ t.records = u.records /\ t.work = u.work /\ t.ok = u.ok
        /\ t.discard = u.discard /\ t.roles = u.roles /\ Retires(u, t, i)
    BY <2>1, <2>2, RetiringExactly
  <2> QED
    BY <2>1, <2>3 DEF ChangesOnly, Skips, Retires
<1>4. CASE r.suppressed
  <2>1. t = Retiring(Settle(s, i, "suppressed", NoOutput), Old(i))
    BY <1>1, <1>4 DEF IncrementalStep, Old
  <2> QED
    BY <1>1, <1>2, <1>3, <2>1
<1>5. CASE ~r.suppressed /\ Blocked(s.work, s.records, r)
  <2>1. t = Retiring(Settle(s, i, "blocked", NoOutput), Old(i))
    BY <1>1, <1>5 DEF IncrementalStep, Old
  <2> QED
    BY <1>1, <1>2, <1>3, <2>1
<1>6. CASE ~r.suppressed /\ ~Blocked(s.work, s.records, r)
  <2>1. t = Settled(s, i, x, forceNew)
    BY <1>1, <1>6 DEF IncrementalStep
  <2>2. x.ok
    <3> SUFFICES ASSUME ~x.ok PROVE FALSE
      OBVIOUS
    <3>1. t = [s EXCEPT !.ok = FALSE]
      BY <2>1 DEF Settled
    <3>2. \A v : [s EXCEPT !.ok = v].ok = v
      BY <1>2 DEF IsReplay
    <3>3. ~ [s EXCEPT !.ok = FALSE].ok
      BY <3>2, Zenon
    <3> QED
      BY <3>1, <3>3
  <2>3. Executable(s, x, i) /\ x.output \in Nat
    <3>1. Executable(s, x, i)
      BY <1>6, <2>2 DEF Executable
    <3>2. Ports(r)
      <4>1. DefinedAs(r, records[i]) /\ Ports(records[i])
        BY <1>1, <1>2 DEF Incremental, SameDefinitions, WellOrdered
      <4> QED
        BY <4>1 DEF Ports, DefinedAs
    <3>3. ~Blocked(s.work, s.records, r)
      BY <1>6
    <3> HIDE DEF r
    <3>4. Executes(s.work, s.records, r, x)
      BY <1>2, <2>2, <3>2, <3>3, ExecuteEffect
    <3> HIDE DEF x
    <3>5. x.output \in Nat
      BY <3>4 DEF Executes, Grown, Sound
    <3> QED
      BY <3>1, <3>5
  <2> HIDE DEF x
  <2>4. CASE KeepsBinding(geometry, Old(i), x.work, x.output, forceNew)
    <3> DEFINE u == Settle(s, i, "ok", Old(i))
               gone == Closure(x.work, {x.output})
    <3>1. t = KeepOutput(s, i, x, roles)
      BY <2>1, <2>2, <2>4 DEF Settled, Old
    <3>2. Old(i) \in Nat
      <4>1. records[i] \in Record
        BY <1>2 DEF WellOrdered
      <4> QED
        BY <4>1, RecordFields DEF Old
    <3>3. /\ IsReplay(u) /\ u.work = s.work /\ u.retire = s.retire
          /\ u.discard = s.discard
          /\ u.records \in Seq(Record) /\ Len(u.records) = Len(s.records)
          /\ DefinedAs(u.records[i], s.records[i]) /\ u.records[i].output = Old(i)
          /\ \A j \in 1..Len(s.records) : j # i => u.records[j] = s.records[j]
      BY <1>2, <3>2, SettleEffect
    <3>4. t = [u EXCEPT !.work = x.work, !.discard = u.discard \cup gone,
                        !.roles = roles, !.ok = roles.ok]
      BY <3>1 DEF KeepOutput, Old
    <3>5. roles.ok
      BY <1>2, <3>1, KeptOk
    <3> HIDE DEF u, gone, roles
    <3>6. t = [records |-> u.records, work |-> x.work, retire |-> u.retire,
               discard |-> u.discard \cup gone, roles |-> roles, ok |-> roles.ok]
      BY <3>3, <3>4 DEF IsReplay
    <3>7. /\ IsReplay(t) /\ t.records = u.records /\ t.work = x.work /\ t.ok
          /\ t.retire = u.retire /\ t.discard = u.discard \cup gone /\ t.roles = roles
      BY <3>5, <3>6 DEF IsReplay
    <3>8. ChangesOnly(s, t, i)
      BY <3>3, <3>7 DEF ChangesOnly
    <3>9. Keeps(s, t, i, x, forceNew)
      BY <2>4, <3>3, <3>5, <3>7 DEF Keeps, gone, roles
    <3> QED
      BY <1>1, <2>3, <3>8, <3>9
  <2>5. CASE ~KeepsBinding(geometry, Old(i), x.work, x.output, forceNew)
    <3> DEFINE v == Settle(s, i, "ok", x.output)
               u == [v EXCEPT !.work = x.work]
    <3>1. t = Retiring(u, Old(i))
      BY <2>1, <2>2, <2>5 DEF Settled, RenewOutput, Old
    <3>2. /\ IsReplay(v) /\ v.retire = s.retire /\ v.ok = s.ok
          /\ v.discard = s.discard /\ v.roles = s.roles
          /\ v.records \in Seq(Record) /\ Len(v.records) = Len(s.records)
          /\ DefinedAs(v.records[i], s.records[i]) /\ v.records[i].output = x.output
          /\ \A j \in 1..Len(s.records) : j # i => v.records[j] = s.records[j]
      BY <1>2, <2>3, SettleEffect
    <3> HIDE DEF v
    <3>3. u = [records |-> v.records, work |-> x.work, retire |-> v.retire,
               discard |-> v.discard, roles |-> v.roles, ok |-> v.ok]
      BY <3>2 DEF IsReplay
    <3> HIDE DEF u
    <3>4. /\ IsReplay(u) /\ u.records = v.records /\ u.work = x.work /\ u.ok = s.ok
          /\ u.retire = s.retire /\ u.discard = s.discard /\ u.roles = s.roles
      BY <3>2, <3>3 DEF IsReplay
    <3>5. /\ IsReplay(t) /\ t.records = u.records /\ t.work = u.work /\ t.ok = u.ok
          /\ t.discard = u.discard /\ t.roles = u.roles /\ Retires(u, t, i)
      BY <3>1, <3>4, RetiringExactly
    <3>6. ChangesOnly(s, t, i)
      BY <1>1, <3>2, <3>4, <3>5 DEF ChangesOnly
    <3>7. Renews(s, t, i, x)
      BY <3>2, <3>4, <3>5 DEF Renews, Retires
    <3> QED
      BY <1>1, <2>3, <3>6, <3>7
  <2> QED
    BY <2>4, <2>5
<1> QED
  BY <1>4, <1>5, <1>6

-----------------------------------------------------------------------------
(* Roles that agree                                                        *)

Agrees(b, x, y) == IF x \in DOMAIN b.map THEN b.map[x] = {y} ELSE x = y

BoundTo(b, c, x, leads) ==
    /\ Binding(c) /\ c.ok
    /\ DOMAIN c.map = DOMAIN b.map \cup {x} /\ c.map[x] = leads
    /\ \A e \in DOMAIN b.map \ {x} : c.map[e] = b.map[e]

LEMMA BindNothing ==
    ASSUME NEW b, b.ok, NEW x, NEW y, Agrees(b, x, y)
    PROVE  Bind(b, x, y) = b
BY DEF Bind, Agrees

LEMMA BindAlone ==
    ASSUME NEW b, Binding(b), b.ok, NEW x, NEW y, x # y, x \notin DOMAIN b.map
    PROVE  BoundTo(b, Bind(b, x, y), x, {y})
<1> DEFINE leads == {y}
           map == b.map
           m == Merged(map, Single(x, leads))
           c == Bind(b, x, y)
<1>1. c = [b EXCEPT !.map = m]
  BY DEF Bind
<1>2. /\ DOMAIN m = DOMAIN b.map \cup {x} /\ m[x] = leads
      /\ \A z \in DOMAIN b.map : m[z] = b.map[z]
  <2>1. x \notin DOMAIN map
    OBVIOUS
  <2> HIDE DEF leads, map
  <2>2. /\ DOMAIN Merged(map, Single(x, leads)) = DOMAIN map \cup {x}
        /\ \A z \in DOMAIN map : Merged(map, Single(x, leads))[z] = map[z]
        /\ x \notin DOMAIN map => Merged(map, Single(x, leads))[x] = leads
    BY MergedSingle
  <2> QED
    BY <2>1, <2>2 DEF map
<1> HIDE DEF leads, map
<1> HIDE DEF m, c
<1>3. c = [map |-> m, ok |-> b.ok]
  BY <1>1, BindingFields DEF Binding
<1>4. c.map = m /\ c.ok = b.ok /\ c = [map |-> c.map, ok |-> c.ok]
  BY <1>3
<1>5. BoundTo(b, c, x, leads)
  BY <1>2, <1>4 DEF BoundTo, Binding
<1> QED
  BY <1>5 DEF c, leads

(* Where the ends are accounted for, an entity binds itself only.          *)
LEMMA BindRolesExactly ==
    ASSUME NEW b, Binding(b), b.ok, NEW gOld, NEW old, NEW gNew, NEW new,
           gOld.ents[old].kind = gNew.ents[new].kind, old \notin DOMAIN b.map,
           IsEdge(gOld, old) /\ old # new =>
               /\ Agrees(b, gOld.ents[old].from, gNew.ents[new].from)
               /\ Agrees(b, gOld.ents[old].to, gNew.ents[new].to)
               /\ old \notin Tips(gOld, old)
    PROVE  IF old = new THEN BindRoles(b, gOld, old, gNew, new) = b
           ELSE BoundTo(b, BindRoles(b, gOld, old, gNew, new), old, {new})
<1> DEFINE b1 == Bind(b, old, new)
           c == BindRoles(b, gOld, old, gNew, new)
           x == gOld.ents[old]
           y == gNew.ents[new]
<1>1. c = IF b1 = b \/ ~b1.ok \/ ~IsEdge(gOld, old) THEN b1
          ELSE Bind(Bind(b1, x.from, y.from), x.to, y.to)
  BY DEF BindRoles
<1>2. CASE old = new
  <2>1. b1 = b
    BY <1>2, BindNothing DEF Agrees
  <2> QED
    BY <1>1, <1>2, <2>1
<1>3. CASE old # new
  <2>1. BoundTo(b, b1, old, {new})
    BY <1>3, BindAlone
  <2>2. CASE ~IsEdge(gOld, old)
    BY <1>1, <1>3, <2>1, <2>2
  <2>3. CASE IsEdge(gOld, old)
    <3>1. x.from # old /\ x.to # old
      BY <1>3, <2>3 DEF Tips
    <3>2. Agrees(b, x.from, y.from) /\ Agrees(b, x.to, y.to)
      BY <1>3, <2>3
    <3> HIDE DEF x, y, b1
    <3>3. Agrees(b1, x.from, y.from) /\ Agrees(b1, x.to, y.to) /\ b1.ok
      BY <2>1, <3>1, <3>2 DEF Agrees, BoundTo
    <3>4. Bind(b1, x.from, y.from) = b1 /\ Bind(b1, x.to, y.to) = b1
      BY <3>3, BindNothing
    <3>5. c = b1
      BY <1>1, <3>4
    <3> HIDE DEF c
    <3>6. BoundTo(b, c, old, {new})
      BY <2>1, <3>5
    <3> QED
      BY <1>3, <3>6 DEF c
  <2> QED
    BY <2>2, <2>3
<1> QED
  BY <1>2, <1>3

-----------------------------------------------------------------------------
(* A history without transforms whose lines stand where they say           *)

Wired(rs, w, i) ==
    rs[i].kind = "line" /\ rs[i].output # NoOutput =>
        w.ents[rs[i].output] = Line(Source(rs, i, 1), Source(rs, i, 2))

Calm ==
    /\ Replayable /\ Additive(records) /\ Owns(records, geometry)
    /\ \A i \in DOMAIN records : Wired(records, geometry, i)

Outs(rs, k) == {rs[j].output : j \in 1..k} \ {NoOutput}

(* The end points of an output are the outputs of the sources.             *)
LEMMA TipsOfOutput ==
    ASSUME WellOrdered(records), Additive(records),
           NEW rs, SameDefinitions(rs, records), NEW w, Sound(w), Rooted(rs, w),
           Owns(rs, w), NEW i \in 1..Len(records), rs[i].output # NoOutput, Wired(rs, w, i)
    PROVE  /\ rs[i].output \in Live(w)
           /\ rs[i].kind # "line" => Tips(w, rs[i].output) = {}
           /\ rs[i].kind = "line" =>
                  /\ w.ents[rs[i].output].from = rs[At(i, 1)].output
                  /\ w.ents[rs[i].output].to = rs[At(i, 2)].output
                  /\ Tips(w, rs[i].output) = {rs[At(i, 1)].output, rs[At(i, 2)].output}
                  /\ \A k \in 1..2 : /\ At(i, k) \in 1..(i - 1)
                                     /\ rs[At(i, k)].output \in Live(w)
                                     /\ rs[At(i, k)].output # NoOutput
<1> DEFINE o == rs[i].output
<1>1. /\ DOMAIN rs = 1..Len(records) /\ DOMAIN records = 1..Len(records)
      /\ DefinedAs(rs[i], records[i])
  BY DEF SameDefinitions, WellOrdered
<1>2. o \in Live(w) /\ Makes(rs[i]) /\ (IsEdge(w, o) <=> rs[i].kind = "line")
  BY <1>1 DEF Rooted, Owns, Makes, Additive, DefinedAs
<1>3. rs[i].kind # "line" => Tips(w, o) = {}
  BY <1>2 DEF Tips
<1>4. ASSUME rs[i].kind = "line"
      PROVE  /\ w.ents[o].from = rs[At(i, 1)].output /\ w.ents[o].to = rs[At(i, 2)].output
             /\ Tips(w, o) = {rs[At(i, 1)].output, rs[At(i, 2)].output}
             /\ \A k \in 1..2 : /\ At(i, k) \in 1..(i - 1)
                                /\ rs[At(i, k)].output \in Live(w)
                                /\ rs[At(i, k)].output # NoOutput
  <2>0. records[i].kind = "line"
    BY <1>1, <1>4 DEF DefinedAs
  <2>1. ASSUME NEW k \in 1..2
        PROVE  At(i, k) \in 1..(i - 1) /\ Source(rs, i, k) = rs[At(i, k)].output
    BY <2>0, SourceAt
  <2> DEFINE a == rs[At(i, 1)].output
             b == rs[At(i, 2)].output
             x == w.ents[o]
  <2>2. x = Line(a, b)
    BY <1>4, <2>1 DEF Wired
  <2>3. w.ents[o].from = a /\ w.ents[o].to = b
    <3> HIDE DEF a, b, x
    <3>1. x.from = a /\ x.to = b
      BY <2>2, EntityForms
    <3> QED
      BY <3>1 DEF x
  <2>4. Tips(w, o) = {a, b}
    BY <1>2, <1>4, <2>3 DEF Tips
  <2>5. {a, b} \subseteq Live(w)
    BY <1>2, <2>4 DEF Sound
  <2>6. \A e \in Live(w) : e # NoOutput
    BY DEF Sound, NoOutput
  <2>7. \A k \in 1..2 : rs[At(i, k)].output \in {a, b}
    OBVIOUS
  <2> HIDE DEF a, b
  <2>8. \A k \in 1..2 : rs[At(i, k)].output \in Live(w) /\ rs[At(i, k)].output # NoOutput
    BY <2>5, <2>6, <2>7
  <2> QED
    BY <2>1, <2>3, <2>4, <2>8 DEF a, b
<1> QED
  BY <1>2, <1>3, <1>4

LEMMA OldClosure ==
    ASSUME Calm, NEW i \in 1..Len(records), Old(i) # NoOutput
    PROVE  Old(i) \in Closure(geometry, {Old(i)}) /\ Closure(geometry, {Old(i)}) \subseteq Outputs
<1>1. /\ WellOrdered(records) /\ Sound(geometry) /\ Rooted(records, geometry)
      /\ SameDefinitions(records, records) /\ DOMAIN records = 1..Len(records)
      /\ Wired(records, geometry, i)
  BY DEF Calm, Replayable, SameDefinitions, DefinedAs, WellOrdered
<1> DEFINE o == Old(i)
           S == {o}
<1>2. o \in Live(geometry) /\ o \in Outputs
  BY <1>1 DEF Rooted, Old, Outputs
<1>3. Tips(geometry, o) \subseteq Outputs
  <2>1. CASE records[i].kind # "line"
    <3>1. Tips(geometry, o) = {}
      BY <1>1, <2>1, TipsOfOutput DEF Calm, Old
    <3> QED
      BY <3>1
  <2>2. CASE records[i].kind = "line"
    <3>1. /\ Tips(geometry, o) = {records[At(i, 1)].output, records[At(i, 2)].output}
          /\ \A k \in 1..2 : At(i, k) \in 1..(i - 1) /\ records[At(i, k)].output # NoOutput
      BY <1>1, <2>2, TipsOfOutput DEF Calm, Old
    <3>2. \A k \in 1..2 : At(i, k) \in DOMAIN records
      BY <1>1, <3>1 DEF WellOrdered
    <3> QED
      BY <3>1, <3>2 DEF Outputs
  <2> QED
    BY <2>1, <2>2
<1>4. S \subseteq Live(geometry) /\ UNION {Tips(geometry, e) : e \in S} = Tips(geometry, o)
  BY <1>2
<1> HIDE DEF S
<1>5. Closure(geometry, S) = S \cup UNION {Tips(geometry, e) : e \in S}
  BY <1>1, <1>4, ClosureOfLive
<1> QED
  BY <1>2, <1>3, <1>4, <1>5 DEF S

LEMMA OwnsRound ==
    ASSUME Replayable, NEW start \in 1..(Len(records) + 1), NEW forceNew,
           ForcedBy(start, forceNew), NEW i \in start..Len(records),
           NEW s, Incremental(s, start, i - 1, forceNew), Owns(s.records, s.work),
           NEW t, ChangesOnly(s, t, i),
           \/ Skips(s, t, i)
           \/ \E x : Executable(s, x, i)
                     /\ (Renews(s, t, i, x) \/ Keeps(s, t, i, x, forceNew))
    PROVE  Owns(t.records, t.work)
<1>1. /\ WellOrdered(records) /\ SameDefinitions(s.records, records)
      /\ Sound(s.work) /\ Rooted(s.records, s.work)
      /\ i \in 1..Len(records) /\ s.records[i] = records[i]
      /\ DOMAIN s.records = 1..Len(records) /\ DOMAIN t.records = 1..Len(records)
      /\ Len(s.records) = Len(records) /\ i > i - 1
  BY DEF Replayable, WellOrdered, Incremental, SameDefinitions, Grown, ChangesOnly
<1>2. /\ t.records[i].kind = s.records[i].kind
      /\ \A j \in DOMAIN s.records : j # i => t.records[j] = s.records[j]
  BY <1>1 DEF ChangesOnly, DefinedAs
<1>3. /\ Grown(s.work, t.work)
      /\ \/ s.records[i].kind = "transform"
         \/ t.records[i].output \in {NoOutput, s.records[i].output}
         \/ /\ t.records[i].output \notin Live(s.work)
            /\ IsEdge(t.work, t.records[i].output) <=> s.records[i].kind = "line"
  <2>1. CASE Skips(s, t, i)
    BY <1>1, <2>1, GrownReflexive DEF Skips
  <2>2. CASE ~Skips(s, t, i)
    <3>1. PICK x : Executable(s, x, i) /\ (Renews(s, t, i, x) \/ Keeps(s, t, i, x, forceNew))
      BY <2>2
    <3>2. Executed(s, x, i, forceNew)
      BY <3>1, IncrementalExecutes
    <3>3. Grown(s.work, t.work)
      BY <3>1, <3>2 DEF Executed, Renews, Keeps
    <3>4. CASE Keeps(s, t, i, x, forceNew)
      BY <1>1, <3>3, <3>4 DEF Keeps, Old
    <3>5. CASE s.records[i].kind = "transform"
      BY <3>3, <3>5
    <3>6. CASE Renews(s, t, i, x) /\ s.records[i].kind # "transform"
      <4> DEFINE rs == s.records
                 w == s.work
      <4>1. /\ x = Execute(w, rs, rs[i]) /\ x.ok /\ ~Blocked(w, rs, rs[i])
            /\ SameDefinitions(rs, records) /\ Sound(w) /\ Rooted(rs, w)
            /\ rs[i].kind # "transform"
        BY <1>1, <3>1, <3>6 DEF Executable
      <4> HIDE DEF rs, w
      <4>2. Adds(w, rs, i, x)
        BY <1>1, <4>1, ExecuteAdds
      <4>3. w.next \notin Live(w)
        BY <4>1 DEF Sound
      <4>4. t.records[i].output = x.output /\ t.work = x.work
        BY <3>6 DEF Renews
      <4>5. /\ t.records[i].output \notin Live(w)
            /\ IsEdge(t.work, t.records[i].output) <=> rs[i].kind = "line"
        BY <4>2, <4>3, <4>4 DEF Adds
      <4> QED
        BY <3>3, <4>5 DEF rs, w
    <3> QED
      BY <3>1, <3>4, <3>5, <3>6
  <2> QED
    BY <2>1, <2>2
<1> DEFINE rs == s.records
           w == s.work
           qs == t.records
           v == t.work
<1>4. /\ Sound(w) /\ Rooted(rs, w) /\ Owns(rs, w) /\ Grown(w, v)
      /\ DOMAIN qs = DOMAIN rs /\ i \in DOMAIN rs /\ qs[i].kind = rs[i].kind
      /\ \A j \in DOMAIN rs : j # i => qs[j] = rs[j]
      /\ \/ rs[i].kind = "transform"
         \/ qs[i].output \in {NoOutput, rs[i].output}
         \/ /\ qs[i].output \notin Live(w)
            /\ IsEdge(v, qs[i].output) <=> rs[i].kind = "line"
  BY <1>1, <1>2, <1>3
<1> HIDE DEF rs, w, qs, v
<1>5. Owns(qs, v)
  BY <1>4, OwnsOnward
<1> QED
  BY <1>5 DEF qs, v

(* A replay that tidies up after itself: what it adds stands on its outputs, *)
(* it discards nothing old but those, retires nothing but old outputs, and   *)
(* only copies, of outputs that stay, have roles.                            *)
Tidy(s, k) ==
    /\ \A i \in 1..k :
           /\ Wired(s.records, s.work, i)
           /\ \/ s.records[i].output \in {NoOutput, Old(i)}
              \/ s.records[i].output \notin Live(geometry)
    /\ \A e \in Live(s.work) \ Live(geometry) : Tips(s.work, e) \subseteq Outs(s.records, k)
    /\ \A e \in s.discard : e >= geometry.next \/ e \in Outs(s.records, k)
    /\ s.retire \subseteq Outputs
    /\ s.roles.ok
    /\ \A e \in DOMAIN s.roles.map :
           /\ e \in Live(s.work) /\ e \in s.discard \ Outs(s.records, k)
           /\ \E i \in 1..k : /\ Old(i) # NoOutput /\ s.records[i].output = Old(i)
                              /\ s.roles.map[e] = {Old(i)}

LEMMA TidyBegins ==
    ASSUME Calm, NEW start \in 1..(Len(records) + 1)
    PROVE  Tidy(Replaying(records, geometry), start - 1)
<1> DEFINE s == Replaying(records, geometry)
<1>1. /\ s.records = records /\ s.work = geometry /\ s.discard = {} /\ s.retire = {}
      /\ s.roles = NoBindings
  BY DEF Replaying
<1>2. \A i \in 1..(start - 1) : i \in DOMAIN records
  BY DEF Calm, Replayable, WellOrdered
<1>3. DOMAIN s.roles.map = {} /\ s.roles.ok
  BY <1>1 DEF NoBindings
<1> HIDE DEF s
<1>4. Tidy(s, start - 1)
  BY <1>1, <1>2, <1>3 DEF Tidy, Calm, Old
<1> QED
  BY <1>4 DEF s

(* What the records before i have stays as it is.                          *)
LEMMA RecordsOnward ==
    ASSUME WellOrdered(records), NEW i \in 1..Len(records),
           NEW rs, SameDefinitions(rs, records), NEW w, Sound(w), Rooted(rs, w),
           NEW qs, SameDefinitions(qs, records),
           \A j \in 1..Len(records) : j # i => qs[j] = rs[j],
           NEW v, \A e \in Live(w) : v.ents[e] = w.ents[e],
           \A j \in 1..(i - 1) : Wired(rs, w, j)
    PROVE  /\ Outs(qs, i) = Outs(rs, i - 1) \cup ({qs[i].output} \ {NoOutput})
           /\ \A j \in 1..(i - 1) : qs[j] = rs[j] /\ Wired(qs, v, j)
           /\ records[i].kind = "line" =>
                  \A k \in 1..2 :
                      /\ Source(qs, i, k) = Source(rs, i, k)
                      /\ Source(rs, i, k) \in Live(w) =>
                             Source(rs, i, k) \in Outs(rs, i - 1)
<1>1. /\ DOMAIN rs = 1..Len(records) /\ Len(records) \in Nat
      /\ 1..i = 1..(i - 1) \cup {i} /\ 1..(i - 1) \subseteq 1..Len(records)
      /\ i \notin 1..(i - 1)
  BY DEF SameDefinitions, WellOrdered
<1>2. \A j \in 1..(i - 1) : qs[j] = rs[j]
  BY <1>1
<1>3. Outs(qs, i) = Outs(rs, i - 1) \cup ({qs[i].output} \ {NoOutput})
  <2>1. {qs[j].output : j \in 1..i} = {rs[j].output : j \in 1..(i - 1)} \cup {qs[i].output}
    BY <1>1, <1>2
  <2> QED
    BY <2>1 DEF Outs
<1>4. ASSUME NEW j \in 1..i, records[j].kind = "line", NEW k \in 1..2
      PROVE  /\ Source(qs, j, k) = Source(rs, j, k)
             /\ \E m \in 1..(j - 1) : Source(rs, j, k) = rs[m].output
  <2>1. j \in 1..Len(records)
    BY <1>1
  <2>2. /\ At(j, k) \in 1..(j - 1) /\ Source(qs, j, k) = qs[At(j, k)].output
        /\ Source(rs, j, k) = rs[At(j, k)].output
    BY <1>4, <2>1, SourceAt
  <2>3. At(j, k) \in 1..(i - 1)
    BY <1>1, <2>2
  <2> QED
    BY <1>2, <2>2, <2>3
<1>5. ASSUME NEW j \in 1..(i - 1) PROVE Wired(qs, v, j)
  <2>1. j \in 1..i /\ j \in DOMAIN rs /\ qs[j] = rs[j] /\ rs[j].kind = records[j].kind
    BY <1>1, <1>2 DEF SameDefinitions, DefinedAs
  <2> SUFFICES ASSUME rs[j].kind = "line", rs[j].output # NoOutput
               PROVE  v.ents[rs[j].output] = Line(Source(qs, j, 1), Source(qs, j, 2))
    BY <2>1 DEF Wired
  <2>2. Source(qs, j, 1) = Source(rs, j, 1) /\ Source(qs, j, 2) = Source(rs, j, 2)
    BY <1>4, <2>1
  <2>3. rs[j].output \in Live(w)
    BY <2>1 DEF Rooted
  <2>4. v.ents[rs[j].output] = w.ents[rs[j].output]
    BY <2>3
  <2>5. w.ents[rs[j].output] = Line(Source(rs, j, 1), Source(rs, j, 2))
    BY <2>1 DEF Wired
  <2> QED
    BY <2>2, <2>4, <2>5
<1>6. ASSUME records[i].kind = "line", NEW k \in 1..2
      PROVE  /\ Source(qs, i, k) = Source(rs, i, k)
             /\ Source(rs, i, k) \in Live(w) => Source(rs, i, k) \in Outs(rs, i - 1)
  <2>1. /\ Source(qs, i, k) = Source(rs, i, k)
        /\ \E m \in 1..(i - 1) : Source(rs, i, k) = rs[m].output
    BY <1>1, <1>4, <1>6
  <2>2. NoOutput \notin Live(w)
    BY DEF Sound, NoOutput
  <2> QED
    BY <2>1, <2>2 DEF Outs
<1> QED
  BY <1>2, <1>3, <1>5, <1>6

Underway(s, start, i) ==
    /\ Incremental(s, start, i - 1, FALSE) /\ Owns(s.records, s.work)
    /\ Tidy(s, i - 1)

(* Where an incremental replay of a calm history stands before record i.   *)
LEMMA UnderwayFacts ==
    ASSUME Calm, NEW start \in 1..(Len(records) + 1), NEW i \in start..Len(records),
           NEW s, Underway(s, start, i)
    PROVE  /\ WellOrdered(records) /\ Sound(geometry) /\ Rooted(records, geometry)
           /\ i \in 1..Len(records) /\ SameDefinitions(s.records, records)
           /\ DOMAIN records = 1..Len(records) /\ Len(s.records) = Len(records)
           /\ Sound(s.work) /\ Rooted(s.records, s.work) /\ Grown(geometry, s.work)
           /\ \A j \in 1..(i - 1) : Wired(s.records, s.work, j)
           /\ \A e \in Live(geometry) : s.work.ents[e] = geometry.ents[e]
           /\ \A e \in DOMAIN s.roles.map : e >= geometry.next
           /\ \A e \in Live(geometry) : e < geometry.next
           /\ Outs(s.records, i - 1) \subseteq Live(s.work)
           /\ \A j \in 1..(i - 1) : j \in 1..Len(records)
<1>1. /\ WellOrdered(records) /\ Sound(geometry) /\ Rooted(records, geometry)
      /\ i \in 1..Len(records) /\ SameDefinitions(s.records, records)
      /\ DOMAIN records = 1..Len(records) /\ Len(s.records) = Len(records)
      /\ Sound(s.work) /\ Rooted(s.records, s.work) /\ Grown(geometry, s.work)
      /\ \A j \in 1..(i - 1) : Wired(s.records, s.work, j)
      /\ \A e \in Live(geometry) : s.work.ents[e] = geometry.ents[e]
      /\ \A e \in Live(geometry) : e < geometry.next
      /\ \A j \in 1..(i - 1) : j \in 1..Len(records)
      /\ DOMAIN s.records = 1..Len(records)
  BY DEF Calm, Replayable, WellOrdered, Underway, Incremental, SameDefinitions, Grown,
         Tidy, Sound
<1>2. Outs(s.records, i - 1) \subseteq Live(s.work)
  BY <1>1 DEF Outs, Rooted
<1>3. ASSUME NEW e \in DOMAIN s.roles.map PROVE e >= geometry.next
  <2>1. e \in Live(s.work) /\ e \notin Outs(s.records, i - 1)
    BY <1>3 DEF Underway, Tidy
  <2>2. e >= geometry.next \/ \E j \in 1..(i - 1) : s.records[j].output = e
    BY <1>3 DEF Underway, Incremental
  <2>3. e # NoOutput
    BY <1>1, <2>1 DEF Sound, NoOutput
  <2> QED
    BY <2>1, <2>2, <2>3 DEF Outs
<1> QED
  BY <1>1, <1>2, <1>3

LEMMA TidySkips ==
    ASSUME Calm, NEW start \in 1..(Len(records) + 1), NEW i \in start..Len(records),
           NEW s, Underway(s, start, i),
           NEW t, ChangesOnly(s, t, i), Skips(s, t, i)
    PROVE  Tidy(t, i)
<1> DEFINE rs == s.records
           w == s.work
           qs == t.records
<1>1. /\ WellOrdered(records) /\ i \in 1..Len(records) /\ SameDefinitions(rs, records)
      /\ DOMAIN records = 1..Len(records) /\ Len(rs) = Len(records)
      /\ Sound(w) /\ Rooted(rs, w)
      /\ \A j \in 1..(i - 1) : Wired(rs, w, j)
  BY UnderwayFacts
<1>2. SameDefinitions(qs, records) /\ \A j \in 1..Len(records) : j # i => qs[j] = rs[j]
  BY <1>1, ChangedOnce DEF ChangesOnly
<1>3. qs[i].output = NoOutput
  BY DEF Skips
<1> HIDE DEF rs, w, qs
<1>4. /\ Outs(qs, i) = Outs(rs, i - 1) \cup ({qs[i].output} \ {NoOutput})
      /\ \A j \in 1..(i - 1) : qs[j] = rs[j] /\ Wired(qs, w, j)
  BY <1>1, <1>2, RecordsOnward
<1>5. Outs(qs, i) = Outs(rs, i - 1)
  BY <1>3, <1>4
<1>6. ASSUME NEW j \in 1..i
      PROVE  /\ Wired(qs, w, j)
             /\ qs[j].output \in {NoOutput, Old(j)} \/ qs[j].output \notin Live(geometry)
  <2>1. CASE j = i
    BY <1>3, <2>1 DEF Wired
  <2>2. CASE j # i
    <3>1. j \in 1..(i - 1)
      BY <1>1, <2>2
    <3> QED
      BY <1>4, <3>1 DEF Underway, Tidy, rs
  <2> QED
    BY <2>1, <2>2
<1>7. t.retire \subseteq Outputs
  <2>1. s.retire \subseteq Outputs
    BY DEF Underway, Tidy
  <2>2. Old(i) # NoOutput => Closure(geometry, {Old(i)}) \subseteq Outputs
    BY <1>1, OldClosure
  <2> QED
    BY <2>1, <2>2 DEF Skips, Retires
<1>8. i \in Nat /\ \A j \in 1..(i - 1) : j \in 1..i
  BY <1>1
<1> QED
  BY <1>4, <1>5, <1>6, <1>7, <1>8 DEF Tidy, Underway, Skips, rs, w, qs

(* What executing record i adds.                                           *)
Added(s, x, i) ==
    /\ Adds(s.work, s.records, i, x)
    /\ s.work.next \notin Live(s.work) /\ s.work.next >= geometry.next
    /\ s.work.next # NoOutput /\ s.work.next \notin Live(geometry)
    /\ Sound(x.work)
    /\ Tips(x.work, x.output) \subseteq Outs(s.records, i - 1)
    /\ \A e \in Live(s.work) : Tips(x.work, e) = Tips(s.work, e)

LEMMA AddsTidily ==
    ASSUME Calm, NEW start \in 1..(Len(records) + 1), NEW i \in start..Len(records),
           NEW s, Underway(s, start, i),
           NEW x, Executable(s, x, i)
    PROVE  Added(s, x, i)
<1> DEFINE rs == s.records
           w == s.work
<1>1. /\ WellOrdered(records) /\ i \in 1..Len(records) /\ SameDefinitions(rs, records)
      /\ Sound(w) /\ Rooted(rs, w) /\ Grown(geometry, w) /\ DOMAIN records = 1..Len(records)
      /\ \A j \in 1..(i - 1) : Wired(rs, w, j) /\ Sound(geometry)
  BY UnderwayFacts
<1>2. x = Execute(w, rs, rs[i]) /\ x.ok /\ ~Blocked(w, rs, rs[i])
  BY DEF Executable
<1>3. rs[i].kind = records[i].kind /\ rs[i].kind # "transform" /\ Ports(rs[i])
  <2>1. DefinedAs(rs[i], records[i]) /\ records[i].kind # "transform" /\ Ports(records[i])
    BY <1>1 DEF SameDefinitions, Calm, Additive, WellOrdered
  <2> QED
    BY <2>1 DEF DefinedAs, Ports
<1> HIDE DEF rs, w
<1>4. Adds(w, rs, i, x)
  BY <1>1, <1>2, <1>3, ExecuteAdds
<1>5. /\ w.next \notin Live(w) /\ w.next >= geometry.next /\ w.next # NoOutput
      /\ w.next \notin Live(geometry)
  BY <1>1 DEF Sound, Grown, NoOutput
<1>6. Sound(x.work) /\ \A e \in Live(w) : Tips(x.work, e) = Tips(w, e)
  <2>1. Executes(w, rs, rs[i], x)
    BY <1>1, <1>2, <1>3, ExecuteEffect
  <2> QED
    BY <2>1 DEF Executes, Grown
<1>7. Tips(x.work, x.output) \subseteq Outs(rs, i - 1)
  <2>1. CASE rs[i].kind # "line"
    BY <1>4, <2>1 DEF Adds, Tips
  <2>2. CASE rs[i].kind = "line"
    <3> DEFINE y == x.work.ents[w.next]
    <3>1. y = Line(Source(rs, i, 1), Source(rs, i, 2)) /\ x.output = w.next
          /\ \A k \in 1..2 : Source(rs, i, k) \in Live(w)
      BY <1>4, <2>2 DEF Adds
    <3>2. y.from = Source(rs, i, 1) /\ y.to = Source(rs, i, 2)
      <4> HIDE DEF y
      <4> QED
        BY <3>1, EntityForms
    <3>3. \A k \in 1..2 : Source(rs, i, k) \in Live(w) => Source(rs, i, k) \in Outs(rs, i - 1)
      <4>1. \A e \in Live(w) : w.ents[e] = w.ents[e]
        OBVIOUS
      <4>2. \A j \in 1..Len(records) : j # i => rs[j] = rs[j]
        OBVIOUS
      <4> QED
        BY <1>1, <1>3, <2>2, <4>1, <4>2, RecordsOnward
    <3>4. Tips(x.work, x.output) \subseteq {Source(rs, i, 1), Source(rs, i, 2)}
      BY <3>1, <3>2 DEF Tips
    <3> QED
      BY <3>1, <3>3, <3>4
  <2> QED
    BY <2>1, <2>2
<1> QED
  BY <1>4, <1>5, <1>6, <1>7 DEF Added, rs, w

LEMMA TidyRenews ==
    ASSUME Calm, NEW start \in 1..(Len(records) + 1), NEW i \in start..Len(records),
           NEW s, Underway(s, start, i), NEW x, Executable(s, x, i),
           NEW t, ChangesOnly(s, t, i), Renews(s, t, i, x)
    PROVE  Tidy(t, i)
<1> DEFINE rs == s.records
           w == s.work
           qs == t.records
           v == x.work
<1>1. /\ WellOrdered(records) /\ i \in 1..Len(records) /\ SameDefinitions(rs, records)
      /\ Len(rs) = Len(records) /\ DOMAIN records = 1..Len(records)
      /\ Sound(w) /\ Rooted(rs, w)
      /\ \A j \in 1..(i - 1) : Wired(rs, w, j)
      /\ Outs(rs, i - 1) \subseteq Live(w)
  BY UnderwayFacts
<1>2. SameDefinitions(qs, records) /\ \A j \in 1..Len(records) : j # i => qs[j] = rs[j]
  BY <1>1, ChangedOnce DEF ChangesOnly
<1>3. Added(s, x, i)
  BY AddsTidily
<1>4. /\ x.output = w.next /\ Live(v) = Live(w) \cup {w.next} /\ w.next \notin Live(w)
      /\ \A e \in Live(w) : v.ents[e] = w.ents[e] /\ Tips(v, e) = Tips(w, e)
      /\ w.next # NoOutput /\ w.next >= geometry.next /\ w.next \notin Live(geometry)
      /\ Tips(v, w.next) \subseteq Outs(rs, i - 1)
      /\ rs[i].kind = "line" => v.ents[w.next] = Line(Source(rs, i, 1), Source(rs, i, 2))
  BY <1>3 DEF Added, Adds
<1>5. qs[i].output = w.next /\ t.work = v /\ rs[i].kind = records[i].kind
      /\ qs[i].kind = records[i].kind
  BY <1>1, <1>2, <1>4 DEF Renews, SameDefinitions, DefinedAs
<1> HIDE DEF rs, w, qs, v
<1>6. /\ Outs(qs, i) = Outs(rs, i - 1) \cup ({qs[i].output} \ {NoOutput})
      /\ \A j \in 1..(i - 1) : qs[j] = rs[j] /\ Wired(qs, v, j)
      /\ records[i].kind = "line" => \A k \in 1..2 : Source(qs, i, k) = Source(rs, i, k)
  BY <1>1, <1>2, <1>4, RecordsOnward
<1>7. Outs(qs, i) = Outs(rs, i - 1) \cup {w.next}
  BY <1>4, <1>5, <1>6
<1>8. Wired(qs, v, i)
  BY <1>4, <1>5, <1>6 DEF Wired
<1>9. ASSUME NEW j \in 1..i
      PROVE  /\ Wired(qs, v, j)
             /\ qs[j].output \in {NoOutput, Old(j)} \/ qs[j].output \notin Live(geometry)
  <2>1. CASE j = i
    BY <1>4, <1>5, <1>8, <2>1
  <2>2. CASE j # i
    <3>1. j \in 1..(i - 1)
      BY <1>1, <2>2
    <3> QED
      BY <1>6, <3>1 DEF Underway, Tidy, rs
  <2> QED
    BY <2>1, <2>2
<1>10. t.retire \subseteq Outputs
  <2>1. s.retire \subseteq Outputs
    BY DEF Underway, Tidy
  <2>2. Old(i) # NoOutput => Closure(geometry, {Old(i)}) \subseteq Outputs
    BY <1>1, OldClosure
  <2> QED
    BY <2>1, <2>2 DEF Renews, Retires
<1>11. ASSUME NEW e \in Live(v) \ Live(geometry) PROVE Tips(v, e) \subseteq Outs(qs, i)
  <2>1. e \in Live(w) => Tips(w, e) \subseteq Outs(rs, i - 1)
    BY <1>11 DEF Underway, Tidy, rs, w
  <2> QED
    BY <1>4, <1>7, <1>11, <2>1
<1>12. \A e \in t.discard : e >= geometry.next \/ e \in Outs(qs, i)
  BY <1>7 DEF Underway, Tidy, Renews, rs
<1>13. ASSUME NEW e \in DOMAIN t.roles.map
       PROVE  /\ e \in Live(v) /\ e \in t.discard \ Outs(qs, i)
              /\ \E j \in 1..i : /\ Old(j) # NoOutput /\ qs[j].output = Old(j)
                                 /\ t.roles.map[e] = {Old(j)}
  <2>1. /\ e \in Live(w) /\ e \in s.discard \ Outs(rs, i - 1)
        /\ \E j \in 1..(i - 1) : /\ Old(j) # NoOutput /\ rs[j].output = Old(j)
                                 /\ t.roles.map[e] = {Old(j)}
    BY <1>13 DEF Underway, Tidy, Renews, rs, w
  <2>2. t.discard = s.discard /\ \A j \in 1..(i - 1) : j \in 1..i
    BY <1>1 DEF Renews
  <2> QED
    BY <1>4, <1>6, <1>7, <2>1, <2>2
<1>14. t.roles.ok
  BY DEF Underway, Tidy, Renews
<1> QED
  BY <1>5, <1>9, <1>10, <1>11, <1>12, <1>13, <1>14 DEF Tidy, qs

(* A line that is kept joins the points it joined before.                  *)
LEMMA KeptSources ==
    ASSUME Calm, NEW start \in 1..(Len(records) + 1), NEW i \in start..Len(records),
           NEW s, Underway(s, start, i), NEW x, Executable(s, x, i),
           KeepsBinding(geometry, Old(i), x.work, x.output, FALSE),
           records[i].kind = "line", NEW k \in 1..2
    PROVE  Source(s.records, i, k) = Source(records, i, k)
<1> DEFINE rs == s.records
           w == s.work
           v == x.work
           a(c) == Source(rs, i, c)
           b(c) == Source(records, i, c)
<1>1. /\ WellOrdered(records) /\ i \in 1..Len(records) /\ SameDefinitions(rs, records)
      /\ Sound(w) /\ Rooted(rs, w) /\ Sound(geometry) /\ Rooted(records, geometry)
      /\ DOMAIN records = 1..Len(records) /\ Owns(rs, w) /\ Owns(records, geometry)
      /\ Additive(records) /\ SameDefinitions(records, records)
      /\ \A e \in Live(geometry) : w.ents[e] = geometry.ents[e]
      /\ Wired(records, geometry, i) /\ DOMAIN rs = 1..Len(records)
  <2>1. SameDefinitions(records, records)
    BY DEF Calm, Replayable, SameDefinitions, DefinedAs, WellOrdered
  <2>2. Owns(records, geometry) /\ Additive(records) /\ Wired(records, geometry, i)
    <3>1. i \in DOMAIN records
      BY UnderwayFacts
    <3> QED
      BY <3>1 DEF Calm
  <2>3. Owns(rs, w)
    BY DEF Underway
  <2>4. SameDefinitions(rs, records)
    BY UnderwayFacts
  <2>5. DOMAIN rs = 1..Len(records)
    BY <2>4 DEF SameDefinitions
  <2> HIDE DEF rs, w
  <2> QED
    BY <2>1, <2>2, <2>3, <2>4, <2>5, UnderwayFacts DEF rs, w
<1>2. Added(s, x, i)
  BY AddsTidily
<1>3. /\ x.output = w.next
      /\ rs[i].kind = "line" =>
             /\ v.ents[w.next] = Line(a(1), a(2)) /\ IsEdge(v, w.next)
             /\ \A c \in 1..2 : a(c) \in Live(w) /\ ~IsEdge(w, a(c))
      /\ \A e \in Live(w) : v.ents[e] = w.ents[e]
  BY <1>2 DEF Added, Adds
<1>4. rs[i].kind = "line"
  BY <1>1 DEF SameDefinitions, DefinedAs
<1>5. /\ Old(i) # NoOutput /\ SameOutput(geometry, Old(i), v, x.output)
  BY DEF KeepsBinding
<1>6. Old(i) \in Live(geometry) /\ Resolve(geometry, Old(i)) = {Old(i)}
  <2>1. Old(i) \in Live(geometry)
    BY <1>1, <1>5 DEF Old, Rooted
  <2> QED
    BY <1>1, <2>1, ResolveLive
<1>7. Payload(geometry, Old(i)) = Payload(v, w.next)
  BY <1>3, <1>5, <1>6 DEF SameOutput
<1>8. /\ geometry.ents[Old(i)].from = b(1) /\ geometry.ents[Old(i)].to = b(2)
      /\ IsEdge(geometry, Old(i))
      /\ \A c \in 1..2 : /\ At(i, c) \in 1..(i - 1) /\ b(c) = Old(At(i, c))
                         /\ b(c) \in Live(geometry) /\ b(c) # NoOutput
  <2>1. /\ geometry.ents[Old(i)].from = Old(At(i, 1)) /\ geometry.ents[Old(i)].to = Old(At(i, 2))
        /\ \A c \in 1..2 : /\ At(i, c) \in 1..(i - 1) /\ Old(At(i, c)) \in Live(geometry)
                           /\ Old(At(i, c)) # NoOutput
    BY <1>1, <1>5, TipsOfOutput DEF Old
  <2>2. \A c \in 1..2 : b(c) = Old(At(i, c))
    BY <1>1, SourceAt DEF Old
  <2>3. IsEdge(geometry, Old(i))
    BY <1>1, <1>5 DEF Owns, Makes, Old, Additive
  <2> QED
    BY <2>1, <2>2, <2>3
<1>9. ASSUME NEW c \in 1..2
      PROVE  PointPayload(geometry, b(c)) = PointPayload(w, a(c))
  <2> DEFINE y == v.ents[w.next]
  <2>1. y = Line(a(1), a(2))
    BY <1>3, <1>4
  <2>2. y.from = a(1) /\ y.to = a(2)
    <3> HIDE DEF y, a
    <3> QED
      BY <2>1, EntityForms
  <2>3. Payload(v, w.next) = <<PointPayload(v, a(1)), PointPayload(v, a(2))>>
    BY <1>3, <1>4, <2>2 DEF Payload
  <2>4. Payload(geometry, Old(i)) = <<PointPayload(geometry, b(1)), PointPayload(geometry, b(2))>>
    BY <1>8 DEF Payload
  <2>5. PointPayload(geometry, b(c)) = PointPayload(v, a(c))
    <3> HIDE DEF a, b, v, y
    <3> DEFINE p(d) == PointPayload(geometry, b(d))
               q(d) == PointPayload(v, a(d))
    <3>1. <<p(1), p(2)>> = <<q(1), q(2)>>
      BY <1>7, <2>3, <2>4
    <3> HIDE DEF p, q
    <3>2. p(1) = q(1) /\ p(2) = q(2)
      BY <3>1
    <3>3. p(c) = q(c)
      BY <3>2
    <3> QED
      BY <3>3 DEF p, q
  <2>6. a(c) \in Live(w)
    BY <1>3, <1>4
  <2>7. PointPayload(v, a(c)) = PointPayload(w, a(c))
    <3> HIDE DEF a, v, w
    <3>1. v.ents[a(c)] = w.ents[a(c)]
      BY <1>3, <2>6
    <3> QED
      BY <3>1 DEF PointPayload
  <2> QED
    BY <2>5, <2>7
<1> DEFINE j == At(i, k)
           new == rs[j].output
<1>10. /\ j \in 1..(i - 1) /\ j \in 1..Len(records) /\ a(k) = new /\ b(k) = Old(j)
       /\ new \in Live(w) /\ ~IsEdge(w, new) /\ Old(j) \in Live(geometry)
       /\ Old(j) # NoOutput
       /\ PointPayload(geometry, Old(j)) = PointPayload(w, new)
  <2>1. At(i, k) \in 1..(i - 1) /\ At(i, k) \in 1..Len(records) /\ a(k) = rs[At(i, k)].output
    BY <1>1, SourceAt
  <2>2. PointPayload(geometry, b(k)) = PointPayload(w, a(k))
    BY <1>9
  <2> QED
    BY <1>3, <1>4, <1>8, <2>1, <2>2
<1> HIDE DEF j, a, b
<1>11. ~IsEdge(geometry, Old(j))
  <2>1. new # NoOutput
    BY <1>1, <1>10 DEF Sound, NoOutput
  <2>2. rs[j].kind = records[j].kind /\ records[j].kind # "transform"
    BY <1>1, <1>10 DEF SameDefinitions, DefinedAs, Additive
  <2>3. rs[j].kind # "line"
    BY <1>1, <1>10, <2>1, <2>2 DEF Owns, Makes
  <2> QED
    BY <1>1, <1>10, <2>2, <2>3 DEF Owns, Makes, Old
<1>12. new = Old(j)
  <2> SUFFICES ASSUME new # Old(j) PROVE FALSE
    OBVIOUS
  <2>1. Renewed(w, j, new)
    BY <1>10 DEF Underway, Incremental
  <2>2. new # NoOutput
    BY <1>1, <1>10 DEF Sound, NoOutput
  <2>3. Payload(w, new) # Payload(geometry, Old(j))
    BY <1>10, <2>1, <2>2 DEF Renewed
  <2> QED
    BY <1>10, <1>11, <2>3 DEF Payload
<1> QED
  BY <1>10, <1>12 DEF a, b

(* The roles of the copy of an output that stays.                          *)
LEMMA CopyBound ==
    ASSUME Calm, NEW start \in 1..(Len(records) + 1), NEW i \in start..Len(records),
           NEW s, Underway(s, start, i), NEW x, Executable(s, x, i),
           NEW t, Keeps(s, t, i, x, FALSE)
    PROVE  BoundTo(s.roles, t.roles, s.work.next, {Old(i)})
<1> DEFINE rs == s.records
           w == s.work
           v == x.work
           b == s.roles
           n == w.next
           o == Old(i)
<1>1. /\ WellOrdered(records) /\ i \in 1..Len(records) /\ SameDefinitions(rs, records)
      /\ Sound(geometry) /\ Rooted(records, geometry) /\ DOMAIN records = 1..Len(records)
      /\ Grown(geometry, w)
  BY UnderwayFacts
<1>2. Added(s, x, i)
  BY AddsTidily
<1>3. KeepsBinding(geometry, o, v, x.output, FALSE)
      /\ t.roles = BindRoles(b, v, x.output, geometry, o) /\ t.roles.ok
  BY DEF Keeps
<1>4. /\ Binding(b) /\ b.ok
      /\ \A e \in DOMAIN b.map : e \in Live(w) /\ e \notin Outs(rs, i - 1)
  BY DEF Underway, Incremental, Tidy
<1>5. /\ x.output = n /\ n \notin Live(w) /\ n \notin Live(geometry)
      /\ Tips(v, n) \subseteq Outs(rs, i - 1)
      /\ IsEdge(v, n) <=> rs[i].kind = "line"
      /\ rs[i].kind = "line" => v.ents[n] = Line(Source(rs, i, 1), Source(rs, i, 2))
  BY <1>2 DEF Added, Adds
<1>6. v.ents[n].kind = geometry.ents[o].kind
  BY <1>3, <1>4, <1>5, KindsAgree
<1>7. o # NoOutput /\ o \in Live(geometry) /\ o # n
  BY <1>1, <1>3, <1>5 DEF KeepsBinding, Rooted, Old
<1>8. n \notin DOMAIN b.map /\ n \notin Tips(v, n)
  <2>1. Outs(rs, i - 1) \subseteq Live(w)
    BY UnderwayFacts
  <2> QED
    BY <1>4, <1>5, <2>1
<1>9. ASSUME IsEdge(v, n)
      PROVE  /\ Agrees(b, v.ents[n].from, geometry.ents[o].from)
             /\ Agrees(b, v.ents[n].to, geometry.ents[o].to)
  <2>1. rs[i].kind = "line" /\ records[i].kind = "line"
    BY <1>1, <1>5, <1>9 DEF SameDefinitions, DefinedAs
  <2>2. \A k \in 1..2 : Source(rs, i, k) = Source(records, i, k)
    BY <1>3, <2>1, KeptSources, <1>5
  <2> DEFINE y == v.ents[n]
             z == geometry.ents[o]
  <2>3. z = Line(Source(records, i, 1), Source(records, i, 2))
    BY <1>1, <1>7, <2>1 DEF Calm, Wired, Old
  <2>4. y = Line(Source(rs, i, 1), Source(rs, i, 2))
    BY <1>5, <2>1
  <2>5. y = z
    BY <2>2, <2>3, <2>4
  <2>6. {y.from, y.to} \subseteq Outs(rs, i - 1)
    BY <1>5, <1>9 DEF Tips
  <2> QED
    BY <1>4, <2>5, <2>6 DEF Agrees
<1> HIDE DEF rs, w, v, b, n, o
<1>10. IF n = o THEN BindRoles(b, v, n, geometry, o) = b
       ELSE BoundTo(b, BindRoles(b, v, n, geometry, o), n, {o})
  BY <1>4, <1>6, <1>8, <1>9, BindRolesExactly
<1> QED
  BY <1>3, <1>5, <1>7, <1>10 DEF b, n, w, o

LEMMA TidyKeeps ==
    ASSUME Calm, NEW start \in 1..(Len(records) + 1), NEW i \in start..Len(records),
           NEW s, Underway(s, start, i), NEW x, Executable(s, x, i),
           NEW t, ChangesOnly(s, t, i), Keeps(s, t, i, x, FALSE)
    PROVE  Tidy(t, i)
<1> DEFINE rs == s.records
           w == s.work
           qs == t.records
           v == x.work
           n == w.next
           o == Old(i)
<1>1. /\ WellOrdered(records) /\ i \in 1..Len(records) /\ SameDefinitions(rs, records)
      /\ Len(rs) = Len(records) /\ DOMAIN records = 1..Len(records)
      /\ Sound(w) /\ Rooted(rs, w) /\ Sound(geometry) /\ Rooted(records, geometry)
      /\ \A j \in 1..(i - 1) : Wired(rs, w, j)
      /\ Outs(rs, i - 1) \subseteq Live(w)
  BY UnderwayFacts
<1>a. /\ \A e \in Live(geometry) : e < geometry.next /\ w.ents[e] = geometry.ents[e]
      /\ Grown(geometry, w)
  BY UnderwayFacts
<1>2. SameDefinitions(qs, records) /\ \A j \in 1..Len(records) : j # i => qs[j] = rs[j]
  BY <1>1, ChangedOnce DEF ChangesOnly
<1>3. Added(s, x, i)
  BY AddsTidily
<1>4. /\ x.output = n /\ Live(v) = Live(w) \cup {n} /\ n \notin Live(w)
      /\ \A e \in Live(w) : v.ents[e] = w.ents[e] /\ Tips(v, e) = Tips(w, e)
      /\ n # NoOutput /\ n >= geometry.next /\ n \notin Live(geometry) /\ Sound(v)
      /\ Tips(v, n) \subseteq Outs(rs, i - 1)
  BY <1>3 DEF Added, Adds
<1>5. /\ qs[i].output = o /\ t.work = v
      /\ qs[i].kind = records[i].kind
      /\ KeepsBinding(geometry, o, v, n, FALSE)
      /\ t.discard = s.discard \cup Closure(v, {n}) /\ t.retire = s.retire /\ t.roles.ok
  BY <1>1, <1>2, <1>4 DEF Keeps, SameDefinitions, DefinedAs
<1>6. o # NoOutput /\ o \in Live(geometry) /\ o \in Live(w)
  <2>1. o # NoOutput
    BY <1>5 DEF KeepsBinding
  <2>2. o \in Live(geometry)
    BY <1>1, <2>1 DEF Rooted, Old
  <2> QED
    BY <1>a, <2>1, <2>2 DEF Grown
<1>7. BoundTo(s.roles, t.roles, n, {o})
  BY CopyBound
<1>8. records[i].kind = "line" => \A k \in 1..2 : Source(rs, i, k) = Source(records, i, k)
  BY <1>4, <1>5, KeptSources
<1>9. records[i].kind = "line" => geometry.ents[o] = Line(Source(records, i, 1), Source(records, i, 2))
  BY <1>1, <1>6 DEF Calm, Wired, Old
<1> HIDE DEF rs, w, qs, v, n, o
<1>10. /\ Outs(qs, i) = Outs(rs, i - 1) \cup ({qs[i].output} \ {NoOutput})
       /\ \A j \in 1..(i - 1) : qs[j] = rs[j] /\ Wired(qs, v, j)
       /\ records[i].kind = "line" => \A k \in 1..2 : Source(qs, i, k) = Source(rs, i, k)
  BY <1>1, <1>2, <1>4, RecordsOnward
<1>11. Outs(qs, i) = Outs(rs, i - 1) \cup {o}
  BY <1>5, <1>6, <1>10
<1>12. Wired(qs, v, i)
  <2>1. v.ents[o] = geometry.ents[o]
    BY <1>a, <1>4, <1>6
  <2> QED
    BY <1>5, <1>8, <1>9, <1>10, <2>1 DEF Wired
<1>13. ASSUME NEW j \in 1..i
       PROVE  /\ Wired(qs, v, j)
              /\ qs[j].output \in {NoOutput, Old(j)} \/ qs[j].output \notin Live(geometry)
  <2>1. CASE j = i
    BY <1>5, <1>12, <2>1 DEF o
  <2>2. CASE j # i
    <3>1. j \in 1..(i - 1)
      BY <1>1, <2>2
    <3> QED
      BY <1>10, <3>1 DEF Underway, Tidy, rs
  <2> QED
    BY <2>1, <2>2
<1>14. t.retire \subseteq Outputs
  BY <1>5 DEF Underway, Tidy
<1>15. ASSUME NEW e \in Live(v) \ Live(geometry) PROVE Tips(v, e) \subseteq Outs(qs, i)
  <2>1. e \in Live(w) => Tips(w, e) \subseteq Outs(rs, i - 1)
    BY <1>15 DEF Underway, Tidy, rs, w
  <2> QED
    BY <1>4, <1>11, <1>15, <2>1
<1>16. Closure(v, {n}) = {n} \cup Tips(v, n)
  <2> DEFINE S == {n}
  <2>1. S \subseteq Live(v) /\ UNION {Tips(v, e) : e \in S} = Tips(v, n)
    BY <1>4
  <2> HIDE DEF S
  <2>2. Closure(v, S) = S \cup UNION {Tips(v, e) : e \in S}
    BY <1>4, <2>1, ClosureOfLive
  <2> QED
    BY <2>1, <2>2 DEF S
<1>17. \A e \in t.discard : e >= geometry.next \/ e \in Outs(qs, i)
  <2>1. \A e \in s.discard : e >= geometry.next \/ e \in Outs(rs, i - 1)
    BY DEF Underway, Tidy, rs
  <2> QED
    BY <1>4, <1>5, <1>11, <1>16, <2>1
<1>18. ASSUME NEW e \in DOMAIN t.roles.map
       PROVE  /\ e \in Live(v) /\ e \in t.discard \ Outs(qs, i)
              /\ \E j \in 1..i : /\ Old(j) # NoOutput /\ qs[j].output = Old(j)
                                 /\ t.roles.map[e] = {Old(j)}
  <2>1. CASE e = n
    <3>1. n \notin Outs(qs, i)
      BY <1>1, <1>4, <1>6, <1>11
    <3>2. t.roles.map[e] = {Old(i)} /\ qs[i].output = Old(i) /\ Old(i) # NoOutput
      BY <1>5, <1>6, <1>7, <2>1 DEF BoundTo, o
    <3>3. i \in 1..i
      BY <1>1
    <3> QED
      BY <1>4, <1>5, <1>16, <2>1, <3>1, <3>2, <3>3
  <2>2. CASE e # n
    <3>1. e \in DOMAIN s.roles.map /\ t.roles.map[e] = s.roles.map[e]
      BY <1>7, <1>18, <2>2 DEF BoundTo
    <3>2. /\ e \in Live(w) /\ e \in s.discard \ Outs(rs, i - 1)
          /\ \E j \in 1..(i - 1) : /\ Old(j) # NoOutput /\ rs[j].output = Old(j)
                                   /\ s.roles.map[e] = {Old(j)}
      BY <3>1 DEF Underway, Tidy, rs, w
    <3>3. e >= geometry.next
      BY <3>1, UnderwayFacts
    <3>4. e \notin Outs(qs, i)
      <4>1. e # o
        BY <1>1, <1>a, <1>6, <3>3 DEF Sound
      <4> QED
        BY <1>11, <3>2, <4>1
    <3>5. \A j \in 1..(i - 1) : j \in 1..i
      BY <1>1
    <3> QED
      BY <1>4, <1>5, <1>10, <3>1, <3>2, <3>4, <3>5
  <2> QED
    BY <2>1, <2>2
<1> QED
  BY <1>5, <1>13, <1>14, <1>15, <1>17, <1>18 DEF Tidy, qs

(* Where an incremental replay stands after record k, in full.             *)
Progress(s, start, k, forceNew) ==
    /\ Incremental(s, start, k, forceNew) /\ Owns(s.records, s.work)
    /\ Calm /\ ~forceNew => Tidy(s, k)

LEMMA ProgressRound ==
    ASSUME Replayable, NEW start \in 1..(Len(records) + 1),
           NEW forceNew \in BOOLEAN, ForcedBy(start, forceNew),
           NEW i \in start..Len(records),
           NEW s, s.ok => Progress(s, start, i - 1, forceNew),
           NEW t, t = IncrementalStep(s, i, forceNew), t.ok
    PROVE  Progress(t, start, i, forceNew)
<1>1. Incremental(t, start, i, forceNew)
  BY IncrementalRound DEF Progress
<1>2. /\ s.ok /\ ChangesOnly(s, t, i)
      /\ \/ Skips(s, t, i)
         \/ \E x : Executable(s, x, i)
                   /\ (Renews(s, t, i, x) \/ Keeps(s, t, i, x, forceNew))
  BY IncrementalOutcome DEF Progress
<1>3. Incremental(s, start, i - 1, forceNew) /\ Owns(s.records, s.work)
  BY <1>2 DEF Progress
<1>4. Owns(t.records, t.work)
  BY <1>2, <1>3, OwnsRound
<1>5. ASSUME Calm, ~forceNew PROVE Tidy(t, i)
  <2>1. forceNew = FALSE
    BY <1>5
  <2>2. Underway(s, start, i)
    BY <1>2, <1>5, <2>1 DEF Progress, Underway
  <2>3. CASE Skips(s, t, i)
    BY <1>2, <1>5, <2>2, <2>3, TidySkips
  <2>4. CASE ~Skips(s, t, i)
    <3>1. PICK x : Executable(s, x, i) /\ (Renews(s, t, i, x) \/ Keeps(s, t, i, x, FALSE))
      BY <1>2, <2>1, <2>4
    <3>2. CASE Renews(s, t, i, x)
      BY <1>2, <1>5, <2>2, <3>1, <3>2, TidyRenews
    <3>3. CASE Keeps(s, t, i, x, FALSE)
      BY <1>2, <1>5, <2>2, <3>1, <3>3, TidyKeeps
    <3> QED
      BY <3>1, <3>2, <3>3
  <2> QED
    BY <2>3, <2>4
<1> QED
  BY <1>1, <1>4, <1>5 DEF Progress

LEMMA IncrementalProgress ==
    ASSUME Replayable, Owns(records, geometry),
           NEW start \in 1..(Len(records) + 1),
           NEW forceNew \in BOOLEAN, ForcedBy(start, forceNew),
           NEW s, s = IncrementalReplay(start, forceNew), s.ok
    PROVE  Progress(s, start, Len(records), forceNew)
<1> DEFINE a == start - 1
           N == Len(records)
           M == N - a
<1>0. N \in Nat /\ a \in Nat /\ start \in Nat /\ M \in Nat /\ a + M = N /\ a + 0 = a
      /\ a + 1 = start
  BY DEF Replayable, WellOrdered
<1>1. PICK R : IncrementalRounds(R, start, forceNew) /\ s = R[N]
  BY <1>0, IncrementalReplayRounds
<1>2. Progress(R[a], start, a, forceNew)
  <2> DEFINE t == Replaying(records, geometry)
  <2>1. Incremental(t, start, a, forceNew)
    BY ReplayBegins
  <2>2. t.records = records /\ t.work = geometry
    BY DEF Replaying
  <2>3. Calm => Tidy(t, a)
    BY TidyBegins
  <2>4. R[a] = t
    BY <1>1 DEF IncrementalRounds
  <2> HIDE DEF t
  <2> QED
    BY <2>1, <2>2, <2>3, <2>4 DEF Progress
<1> DEFINE Q == {m \in 0..M : R[a + m].ok => Progress(R[a + m], start, a + m, forceNew)}
<1> HIDE DEF a, N, M
<1>3. 0 \in Q
  BY <1>0, <1>2
<1>4. ASSUME NEW m \in 0..M, m \in Q, m < M PROVE m + 1 \in Q
  <2> DEFINE i == a + (m + 1)
  <2>1. i \in start..Len(records) /\ i - 1 = a + m /\ m + 1 \in 0..M
    BY <1>0, <1>4 DEF N
  <2>2. R[i] = IncrementalStep(R[i - 1], i, forceNew)
    BY <1>1, <2>1 DEF IncrementalRounds
  <2>3. R[i - 1].ok => Progress(R[i - 1], start, i - 1, forceNew)
    BY <1>4, <2>1
  <2> HIDE DEF i
  <2>4. R[i].ok => Progress(R[i], start, i, forceNew)
    BY <2>1, <2>2, <2>3, ProgressRound
  <2> QED
    BY <2>1, <2>4 DEF i
<1>5. M \in Q
  <2> HIDE DEF Q
  <2>1. \A m \in 0..M : m \in Q
    BY <1>0, <1>3, <1>4, SegmentInduction
  <2> QED
    BY <1>0, <2>1
<1> QED
  BY <1>0, <1>1, <1>5 DEF N

-----------------------------------------------------------------------------
(* What a full replay makes of the records                                 *)

Passes(s, t, i) == t.records[i].output = NoOutput /\ t.work = s.work

Gives(s, t, i, x) == t.records[i].output = x.output /\ t.work = x.work

LEMMA FullOutcome ==
    ASSUME NEW rs, WellOrdered(rs), NEW first, Sound(first),
           NEW i \in 1..Len(rs), NEW s, s.ok => Full(s, rs, first, i - 1),
           NEW t, t = FullStep(s, i), t.ok
    PROVE  /\ s.ok /\ ChangesOnly(s, t, i)
           /\ Passes(s, t, i) \/ \E x : Executable(s, x, i) /\ Gives(s, t, i, x)
<1> DEFINE r == s.records[i]
           x == Execute(s.work, s.records, r)
<1>1. s.ok
  BY DEF FullStep
<1>2. /\ IsReplay(s) /\ s.records \in Seq(Record) /\ i \in 1..Len(s.records)
      /\ NoOutput \in Nat /\ {"ok", "suppressed", "blocked"} \subseteq States
      /\ Sound(s.work) /\ SameDefinitions(s.records, rs)
  BY <1>1 DEF Full, SameDefinitions, Grown, NoOutput, States
<1>3. ASSUME NEW state \in States, t = Settle(s, i, state, NoOutput)
      PROVE  ChangesOnly(s, t, i) /\ Passes(s, t, i)
  <2> DEFINE u == Settle(s, i, state, NoOutput)
  <2>0. /\ IsReplay(u) /\ u.work = s.work /\ u.ok = s.ok
        /\ u.records \in Seq(Record) /\ Len(u.records) = Len(s.records)
        /\ DefinedAs(u.records[i], s.records[i]) /\ u.records[i].output = NoOutput
        /\ \A j \in 1..Len(s.records) : j # i => u.records[j] = s.records[j]
    BY <1>2, SettleEffect
  <2>1. t = u
    BY <1>3
  <2> HIDE DEF u
  <2>2. ChangesOnly(s, t, i)
    BY <2>0, <2>1 DEF ChangesOnly
  <2>3. Passes(s, t, i)
    BY <2>0, <2>1 DEF Passes
  <2> QED
    BY <2>2, <2>3
<1>4. CASE r.suppressed
  <2>1. t = Settle(s, i, "suppressed", NoOutput)
    BY <1>1, <1>4 DEF FullStep
  <2> QED
    BY <1>1, <1>2, <1>3, <2>1
<1>5. CASE ~r.suppressed /\ Blocked(s.work, s.records, r)
  <2>1. t = Settle(s, i, "blocked", NoOutput)
    BY <1>1, <1>5 DEF FullStep
  <2> QED
    BY <1>1, <1>2, <1>3, <2>1
<1>6. CASE ~r.suppressed /\ ~Blocked(s.work, s.records, r)
  <2>1. t = Replayed(s, i, x)
    BY <1>1, <1>6 DEF FullStep
  <2>2. x.ok
    <3> SUFFICES ASSUME ~x.ok PROVE FALSE
      OBVIOUS
    <3>1. t = [s EXCEPT !.ok = FALSE]
      BY <2>1 DEF Replayed
    <3>2. \A v : [s EXCEPT !.ok = v].ok = v
      BY <1>2 DEF IsReplay
    <3>3. ~ [s EXCEPT !.ok = FALSE].ok
      BY <3>2, Zenon
    <3> QED
      BY <3>1, <3>3
  <2>3. Executable(s, x, i)
    BY <1>6, <2>2 DEF Executable
  <2>4. Ports(r)
    <3>1. DefinedAs(r, rs[i]) /\ Ports(rs[i])
      BY <1>2 DEF SameDefinitions, WellOrdered
    <3> QED
      BY <3>1 DEF Ports, DefinedAs
  <2>5. ~Blocked(s.work, s.records, r)
    BY <1>6
  <2> HIDE DEF r
  <2>6. Executes(s.work, s.records, r, x)
    BY <1>2, <2>2, <2>4, <2>5, ExecuteEffect
  <2> HIDE DEF x
  <2>7. x.output \in Nat
    BY <2>6 DEF Executes, Grown, Sound
  <2> DEFINE u == Settle(s, i, "ok", x.output)
             y == [u EXCEPT !.work = x.work]
  <2>8. t = y
    BY <2>1, <2>2 DEF Replayed
  <2>9. /\ IsReplay(u) /\ u.ok = s.ok
        /\ u.records \in Seq(Record) /\ Len(u.records) = Len(s.records)
        /\ DefinedAs(u.records[i], s.records[i]) /\ u.records[i].output = x.output
        /\ \A j \in 1..Len(s.records) : j # i => u.records[j] = s.records[j]
    BY <1>2, <2>7, SettleEffect
  <2> HIDE DEF u
  <2>10. y = [records |-> u.records, work |-> x.work, retire |-> u.retire,
              discard |-> u.discard, roles |-> u.roles, ok |-> u.ok]
    BY <2>9 DEF IsReplay
  <2> HIDE DEF y
  <2>11. IsReplay(y) /\ y.records = u.records /\ y.work = x.work
    BY <2>10 DEF IsReplay
  <2>12. ChangesOnly(s, t, i)
    BY <2>8, <2>9, <2>11 DEF ChangesOnly
  <2>13. Gives(s, t, i, x)
    BY <2>8, <2>9, <2>11 DEF Gives
  <2> QED
    BY <1>1, <2>3, <2>12, <2>13
<1> QED
  BY <1>4, <1>5, <1>6

(* Where a full replay stands after record k, in full.                     *)
FullProgress(s, first, k) ==
    /\ Full(s, records, first, k) /\ Owns(s.records, s.work)
    /\ Additive(records) => \A i \in 1..k : Wired(s.records, s.work, i)

LEMMA FullProgressRound ==
    ASSUME WellOrdered(records), NEW first, Sound(first),
           NEW i \in 1..Len(records), NEW s, s.ok => FullProgress(s, first, i - 1),
           NEW t, t = FullStep(s, i), t.ok
    PROVE  FullProgress(t, first, i)
<1> DEFINE rs == s.records
           w == s.work
           qs == t.records
           v == t.work
<1>1. Full(t, records, first, i)
  BY FullRound DEF FullProgress
<1>2. /\ s.ok /\ ChangesOnly(s, t, i)
      /\ Passes(s, t, i) \/ \E x : Executable(s, x, i) /\ Gives(s, t, i, x)
  BY FullOutcome DEF FullProgress
<1>3. /\ SameDefinitions(rs, records) /\ Sound(w) /\ Rooted(rs, w) /\ Owns(rs, w)
      /\ Additive(records) => \A j \in 1..(i - 1) : Wired(rs, w, j)
  BY <1>2 DEF FullProgress, Full, Grown
<1>4. /\ DOMAIN records = 1..Len(records) /\ DOMAIN rs = 1..Len(records)
      /\ Len(rs) = Len(records) /\ SameDefinitions(qs, records)
      /\ DOMAIN qs = 1..Len(records)
      /\ \A j \in 1..Len(records) : j # i => qs[j] = rs[j]
      /\ qs[i].kind = rs[i].kind /\ rs[i].kind = records[i].kind
  <2>1. /\ SameDefinitions(qs, records) /\ WellOrdered(records)
        /\ \A j \in 1..Len(rs) : j # i => qs[j] = rs[j]
        /\ DefinedAs(qs[i], rs[i])
    BY <1>1, <1>2 DEF Full, ChangesOnly
  <2> HIDE DEF rs, qs
  <2> QED
    BY <1>3, <2>1 DEF SameDefinitions, DefinedAs, WellOrdered
<1>5. CASE Passes(s, t, i)
  <2>1. v = w /\ qs[i].output = NoOutput
    BY <1>5 DEF Passes
  <2> HIDE DEF rs, w, qs, v
  <2>2. Owns(qs, v)
    BY <1>3, <1>4, <2>1, GrownReflexive, OwnsOnward
  <2>3. ASSUME Additive(records), NEW j \in 1..i PROVE Wired(qs, v, j)
    <3>1. Wired(qs, v, i)
      BY <2>1 DEF Wired
    <3>2. \A k \in 1..(i - 1) : Wired(qs, v, k)
      BY <1>3, <1>4, <2>1, <2>3, RecordsOnward
    <3> QED
      BY <3>1, <3>2
  <2> QED
    BY <1>1, <2>2, <2>3 DEF FullProgress, qs, v
<1>6. CASE ~Passes(s, t, i)
  <2>1. PICK x : Executable(s, x, i) /\ Gives(s, t, i, x)
    BY <1>2, <1>6
  <2>2. /\ x = Execute(w, rs, rs[i]) /\ x.ok /\ ~Blocked(w, rs, rs[i])
        /\ qs[i].output = x.output /\ v = x.work
    BY <2>1 DEF Executable, Gives
  <2>3. Ports(rs[i])
    <3>1. DefinedAs(rs[i], records[i]) /\ Ports(records[i])
      BY <1>3 DEF SameDefinitions, WellOrdered
    <3> QED
      BY <3>1 DEF Ports, DefinedAs
  <2> HIDE DEF rs, w, qs, v
  <2>4. Grown(w, v)
    <3>1. Executes(w, rs, rs[i], x)
      BY <1>3, <2>2, <2>3, ExecuteEffect
    <3> QED
      BY <2>2, <3>1 DEF Executes
  <2>5. rs[i].kind # "transform" => Adds(w, rs, i, x)
    BY <1>3, <2>2, ExecuteAdds
  <2>6. Owns(qs, v)
    <3>1. w.next \notin Live(w)
      BY <1>3 DEF Sound
    <3>2. \/ rs[i].kind = "transform"
          \/ /\ qs[i].output \notin Live(w)
             /\ IsEdge(v, qs[i].output) <=> rs[i].kind = "line"
      BY <2>2, <2>5, <3>1 DEF Adds
    <3> QED
      BY <1>3, <1>4, <2>4, <3>2, OwnsOnward
  <2>7. ASSUME Additive(records), NEW j \in 1..i PROVE Wired(qs, v, j)
    <3>1. Adds(w, rs, i, x)
      BY <1>4, <2>5, <2>7 DEF Additive
    <3>2. \A e \in Live(w) : v.ents[e] = w.ents[e]
      BY <2>2, <3>1 DEF Adds
    <3>3. /\ \A k \in 1..(i - 1) : Wired(qs, v, k)
          /\ records[i].kind = "line" => \A k \in 1..2 : Source(qs, i, k) = Source(rs, i, k)
      BY <1>3, <1>4, <2>7, <3>2, RecordsOnward
    <3>4. Wired(qs, v, i)
      BY <1>4, <2>2, <3>1, <3>3 DEF Adds, Wired
    <3> QED
      BY <3>3, <3>4
  <2> QED
    BY <1>1, <2>6, <2>7 DEF FullProgress, qs, v
<1> QED
  BY <1>5, <1>6

LEMMA FullProgresses ==
    ASSUME WellOrdered(records), NEW base, Sound(base), NEW next \in Nat,
           NEW s, s = FullReplay(records, base, next), s.ok
    PROVE  FullProgress(s, Reserved(base, next), Len(records))
<1> DEFINE N == Len(records)
           first == Reserved(base, next)
<1>0. N \in Nat /\ Sound(first)
  BY ReservedEffect DEF WellOrdered
<1> HIDE DEF first
<1>1. PICK R : FullRounds(R, records, first) /\ s = R[N]
  BY <1>0, FullReplayRounds DEF first
<1>2. FullProgress(R[0], first, 0)
  <2> DEFINE t == Replaying(Unmade(records), first)
  <2>1. Full(t, records, first, 0)
    BY <1>0, FullBegins DEF Unmade
  <2>2. R[0] = t
    BY <1>1 DEF FullRounds
  <2>3. t.records = Unmade(records)
    BY DEF Replaying
  <2>4. \A i \in DOMAIN Unmade(records) : ~Makes(Unmade(records)[i])
    <3>1. ASSUME NEW i \in DOMAIN records PROVE ~Makes(Unmade(records)[i])
      <4>1. records[i] \in Record
        BY DEF WellOrdered
      <4>2. [records[i] EXCEPT !.output = NoOutput].output = NoOutput
        BY <4>1, RecordUnmade
      <4>3. Unmade(records)[i] = [records[i] EXCEPT !.output = NoOutput]
        BY DEF Unmade
      <4> QED
        BY <4>2, <4>3 DEF Makes
    <3>2. DOMAIN Unmade(records) = DOMAIN records
      BY DEF Unmade
    <3> QED
      BY <3>1, <3>2
  <2>5. Owns(t.records, t.work)
    BY <2>3, <2>4 DEF Owns
  <2> HIDE DEF t
  <2> QED
    BY <2>1, <2>2, <2>5 DEF FullProgress
<1> DEFINE Q == {m \in 0..N : R[m].ok => FullProgress(R[m], first, m)}
<1>3. 0 \in Q
  BY <1>0, <1>2
<1>4. ASSUME NEW m \in 0..N, m \in Q, m < N PROVE m + 1 \in Q
  <2> DEFINE i == m + 1
  <2>1. i \in 1..Len(records) /\ i \in 0..N /\ i - 1 = m
    BY <1>0, <1>4
  <2>2. R[i] = FullStep(R[i - 1], i)
    BY <1>1, <2>1 DEF FullRounds
  <2>3. R[i - 1].ok => FullProgress(R[i - 1], first, i - 1)
    BY <1>4, <2>1
  <2> HIDE DEF i
  <2>4. R[i].ok => FullProgress(R[i], first, i)
    BY <1>0, <2>1, <2>2, <2>3, FullProgressRound
  <2> QED
    BY <2>1, <2>4 DEF i
<1>5. N \in Q
  <2> HIDE DEF Q
  <2>1. \A m \in 0..N : m \in Q
    BY <1>0, <1>3, <1>4, SegmentInduction
  <2> QED
    BY <1>0, <2>1
<1> QED
  BY <1>1, <1>5 DEF first

LEMMA OldsDistinct ==
    ASSUME Calm, NEW i \in 1..Len(records), NEW j \in 1..Len(records),
           Old(i) = Old(j), Old(i) # NoOutput
    PROVE  i = j
<1>1. i \in DOMAIN records /\ j \in DOMAIN records
  BY DEF Calm, Replayable, WellOrdered
<1>2. Makes(records[i]) /\ Makes(records[j])
  BY <1>1 DEF Calm, Additive, Makes, Old
<1> QED
  BY <1>1, <1>2 DEF Calm, Owns, Old

(* What a replay of a calm history made of the records.                    *)
Remade(rs, w) ==
    /\ SameDefinitions(rs, records) /\ Sound(w) /\ Rooted(rs, w) /\ Owns(rs, w)
    /\ \A i \in 1..Len(records) : Wired(rs, w, i)
    /\ DOMAIN w.hist \cap Live(geometry) = {}

Leaves(rs, i) == Old(i) # NoOutput /\ rs[i].output # Old(i)

(* The transitions lead from the outputs that are left, each to the new    *)
(* output of its record.                                                   *)
LedExactly(b, rs, k) ==
    /\ Binding(b) /\ b.ok
    /\ \A e \in DOMAIN b.map : \E i \in 1..k : Leaves(rs, i) /\ e = Old(i)
    /\ \A i \in 1..k :
           Leaves(rs, i) => /\ Old(i) \in DOMAIN b.map
                            /\ b.map[Old(i)] = {rs[i].output} \ {NoOutput}

LEMMA TransitionExactly ==
    ASSUME Calm, NEW rs, NEW w, Remade(rs, w), NEW k \in 1..Len(records),
           NEW b, LedExactly(b, rs, k - 1),
           NEW c, c = Transition(b, records[k].output, w, rs[k].output)
    PROVE  LedExactly(c, rs, k)
<1> DEFINE old == Old(k)
           new == rs[k].output
           leads == {new} \ {NoOutput}
<1>0. /\ k - 1 \in Nat /\ 1..k = 1..(k - 1) \cup {k} /\ k \notin 1..(k - 1)
      /\ Sound(geometry) /\ (old # NoOutput => old \in Live(geometry))
      /\ WellOrdered(records) /\ Rooted(records, geometry) /\ k \in DOMAIN records
      /\ \A i \in 1..k : i \in 1..Len(records)
      /\ k \in DOMAIN rs /\ b.ok /\ Binding(b) /\ Additive(records)
      /\ SameDefinitions(records, records)
  BY DEF Calm, Replayable, WellOrdered, Rooted, Old, Remade, SameDefinitions, LedExactly,
         DefinedAs
<1>1. new # NoOutput => new \in Live(w)
  BY <1>0 DEF Remade, Rooted
<1>2. old # NoOutput => old \notin DOMAIN b.map
  <2> SUFFICES ASSUME old # NoOutput, old \in DOMAIN b.map PROVE FALSE
    OBVIOUS
  <2>1. PICK i \in 1..(k - 1) : old = Old(i)
    BY DEF LedExactly
  <2>2. i = k
    BY <1>0, <2>1, OldsDistinct
  <2> QED
    BY <1>0, <2>1, <2>2
<1>3. CASE ~Leaves(rs, k) /\ c = b
  BY <1>0, <1>3 DEF LedExactly
<1>4. CASE Leaves(rs, k) /\ BoundTo(b, c, old, leads)
  <2>1. Binding(c) /\ c.ok
    BY <1>4 DEF BoundTo
  <2>2. \A e \in DOMAIN c.map : \E i \in 1..k : Leaves(rs, i) /\ e = Old(i)
    BY <1>0, <1>4 DEF BoundTo, LedExactly
  <2>3. ASSUME NEW i \in 1..k, Leaves(rs, i)
        PROVE  Old(i) \in DOMAIN c.map /\ c.map[Old(i)] = {rs[i].output} \ {NoOutput}
    <3>1. CASE i = k
      BY <1>4, <3>1 DEF BoundTo
    <3>2. CASE i # k
      <4>1. i \in 1..(k - 1)
        BY <1>0, <3>2
      <4>2. Old(i) # old
        BY <1>0, <2>3, <3>2, OldsDistinct DEF Leaves
      <4>3. Old(i) \in DOMAIN b.map /\ b.map[Old(i)] = {rs[i].output} \ {NoOutput}
        BY <2>3, <4>1 DEF LedExactly
      <4> QED
        BY <1>4, <4>2, <4>3 DEF BoundTo
    <3> QED
      BY <3>1, <3>2
  <2> QED
    BY <2>1, <2>2, <2>3 DEF LedExactly
<1>5. CASE old = NoOutput
  <2>1. c = b
    <3>1. old = NoOutput => (IF old = NoOutput THEN {} ELSE Resolve(geometry, old)) = {}
      OBVIOUS
    <3> QED
      BY <1>5, <3>1 DEF Transition, Old
  <2> QED
    BY <1>3, <1>5, <2>1 DEF Leaves
<1>6. CASE old # NoOutput /\ new = NoOutput
  <2>1. Resolve(geometry, old) = {old} /\ Only({old}) = old
    BY <1>0, <1>6, ResolveLive, OnlyMember
  <2> DEFINE nowhere == {}
             map == b.map
             m == Merged(Single(old, nowhere), map)
  <2>2. c = [b EXCEPT !.map = m]
    BY <1>0, <1>6, <2>1 DEF Transition, Old
  <2>3. Overrides(m, map, old, nowhere)
    <3> HIDE DEF nowhere, map
    <3> QED
      BY SingleMerged
  <2> HIDE DEF m
  <2>4. c = [map |-> m, ok |-> b.ok]
    BY <1>0, <2>2, BindingFields DEF Binding
  <2>5. c.map = m /\ c.ok = b.ok /\ c = [map |-> c.map, ok |-> c.ok]
    BY <2>4
  <2>6. leads = {}
    BY <1>6
  <2> HIDE DEF leads
  <2>7. BoundTo(b, c, old, leads)
    BY <1>0, <2>3, <2>5, <2>6 DEF BoundTo, Overrides, Binding, nowhere, map
  <2> QED
    BY <1>4, <1>6, <2>7 DEF Leaves, leads
<1>7. CASE old # NoOutput /\ new # NoOutput
  <2>1. Resolve(geometry, old) = {old} /\ Only({old}) = old
    BY <1>0, <1>7, ResolveLive, OnlyMember
  <2>2. Resolve(w, new) = {new} /\ Only({new}) = new /\ {new} # {}
    BY <1>1, <1>7, ResolveLive, OnlyMember DEF Remade
  <2>3. old \notin DOMAIN w.hist
    BY <1>0, <1>7 DEF Remade
  <2>4. c = BindRoles(b, geometry, old, w, new)
    BY <1>0, <1>7, <2>1, <2>2, <2>3 DEF Transition, Old
  <2>5. /\ rs[k].kind = records[k].kind
        /\ IsEdge(geometry, old) <=> records[k].kind = "line"
        /\ IsEdge(w, new) <=> records[k].kind = "line"
    <3>1. rs[k].kind = records[k].kind
      BY <1>0 DEF Remade, SameDefinitions, DefinedAs
    <3>2. Makes(records[k]) /\ Makes(rs[k])
      BY <1>0, <1>7, <3>1 DEF Additive, Makes, Old
    <3> QED
      BY <1>0, <3>1, <3>2 DEF Calm, Remade, Owns, Old
  <2>6. geometry.ents[old].kind = w.ents[new].kind
    <3>1. /\ Entity(geometry.ents[old]) /\ Entity(w.ents[new])
      BY <1>0, <1>1, <1>7 DEF Remade, Sound
    <3>2. /\ geometry.ents[old].kind \in {"vertex", "edge"}
          /\ w.ents[new].kind \in {"vertex", "edge"}
      BY <3>1, EntityKinds
    <3> QED
      BY <2>5, <3>2 DEF IsEdge
  <2>7. ASSUME IsEdge(geometry, old)
        PROVE  /\ Agrees(b, geometry.ents[old].from, w.ents[new].from)
               /\ Agrees(b, geometry.ents[old].to, w.ents[new].to)
               /\ old \notin Tips(geometry, old)
    <3> DEFINE a(n) == At(k, n)
    <3>1. records[k].kind = "line" /\ rs[k].kind = "line"
      BY <2>5, <2>7
    <3>2. /\ geometry.ents[old].from = Old(a(1)) /\ geometry.ents[old].to = Old(a(2))
          /\ Tips(geometry, old) = {Old(a(1)), Old(a(2))}
          /\ \A n \in 1..2 : a(n) \in 1..(k - 1) /\ Old(a(n)) # NoOutput
      <4>1. Wired(records, geometry, k)
        BY <1>0 DEF Calm
      <4> QED
        BY <1>0, <1>7, <3>1, <4>1, TipsOfOutput DEF Calm, Old
    <3>3. /\ w.ents[new].from = rs[a(1)].output /\ w.ents[new].to = rs[a(2)].output
          /\ \A n \in 1..2 : rs[a(n)].output # NoOutput
      BY <1>0, <1>7, <3>1, TipsOfOutput DEF Remade
    <3> HIDE DEF a
    <3>4. ASSUME NEW n \in 1..2
          PROVE  Agrees(b, Old(a(n)), rs[a(n)].output) /\ Old(a(n)) # old
      <4>1. a(n) \in 1..(k - 1) /\ Old(a(n)) # NoOutput /\ rs[a(n)].output # NoOutput
            /\ a(n) \in 1..Len(records) /\ a(n) # k
        BY <1>0, <3>2, <3>3
      <4>2. Old(a(n)) # old
        BY <1>0, <4>1, OldsDistinct
      <4>3. CASE Leaves(rs, a(n))
        BY <4>1, <4>2, <4>3 DEF LedExactly, Agrees
      <4>4. CASE ~Leaves(rs, a(n))
        <5>1. rs[a(n)].output = Old(a(n))
          BY <4>1, <4>4 DEF Leaves
        <5>2. ASSUME Old(a(n)) \in DOMAIN b.map PROVE FALSE
          <6>1. PICK i \in 1..(k - 1) : Leaves(rs, i) /\ Old(a(n)) = Old(i)
            BY <5>2 DEF LedExactly
          <6>2. i = a(n)
            BY <1>0, <4>1, <6>1, OldsDistinct
          <6> QED
            BY <4>4, <6>1, <6>2
        <5> QED
          BY <4>2, <5>1, <5>2 DEF Agrees
      <4> QED
        BY <4>3, <4>4
    <3> QED
      BY <3>2, <3>3, <3>4
  <2>8. old \notin DOMAIN b.map
    BY <1>2, <1>7
  <2> HIDE DEF old, new
  <2>9. IF old = new THEN c = b ELSE BoundTo(b, c, old, {new})
    <3>1. b.ok /\ Binding(b)
      BY <1>0
    <3>2. IF old = new THEN BindRoles(b, geometry, old, w, new) = b
          ELSE BoundTo(b, BindRoles(b, geometry, old, w, new), old, {new})
      BY <2>6, <2>7, <2>8, <3>1, BindRolesExactly
    <3> QED
      BY <2>4, <3>2
  <2>10. leads = {new} /\ (Leaves(rs, k) <=> old # new)
    BY <1>7 DEF Leaves, old, new
  <2> HIDE DEF leads
  <2> QED
    BY <1>3, <1>4, <2>9, <2>10
<1> QED
  BY <1>5, <1>6, <1>7

LEMMA TransitionsExactly ==
    ASSUME Calm, NEW rs, NEW w, Remade(rs, w), NEW t, t = Transitions(rs, w)
    PROVE  LedExactly(t, rs, Len(records))
<1> DEFINE N == Len(records)
<1>0. N \in Nat
  BY DEF Calm, Replayable, WellOrdered
<1>1. PICK R : TransitionRounds(R, rs, w) /\ t = R[N]
  BY <1>0, TransitionsRounds
<1> DEFINE Q == {m \in 0..N : LedExactly(R[m], rs, m)}
<1>2. 0 \in Q
  <2>1. Binding(NoBindings) /\ DOMAIN NoBindings.map = {} /\ NoBindings.ok
    BY DEF NoBindings, Binding
  <2>2. LedExactly(NoBindings, rs, 0)
    BY <2>1 DEF LedExactly
  <2> QED
    BY <1>0, <1>1, <2>2 DEF TransitionRounds
<1>3. ASSUME NEW m \in 0..N, m \in Q, m < N PROVE m + 1 \in Q
  <2> DEFINE i == m + 1
  <2>1. i \in 1..Len(records) /\ i \in 0..N /\ i - 1 = m
    BY <1>0, <1>3
  <2>2. R[i] = Transition(R[i - 1], records[i].output, w, rs[i].output)
    BY <1>1, <2>1 DEF TransitionRounds
  <2>3. LedExactly(R[i - 1], rs, i - 1)
    BY <1>3, <2>1
  <2> HIDE DEF i
  <2>4. LedExactly(R[i], rs, i)
    BY <2>1, <2>2, <2>3, TransitionExactly
  <2> QED
    BY <2>1, <2>4 DEF i
<1>4. N \in Q
  <2> HIDE DEF Q
  <2>1. \A m \in 0..N : m \in Q
    BY <1>0, <1>2, <1>3, SegmentInduction
  <2> QED
    BY <1>0, <2>1
<1> QED
  BY <1>1, <1>4

LEMMA EmptySound ==
    /\ Sound(Empty) /\ ValidHistory(Empty)
    /\ Live(Empty) = {} /\ Empty.next = 1 /\ Empty.hist = <<>>
BY DEF Sound, ValidHistory, Empty, Live

-----------------------------------------------------------------------------
(* Regenerating a calm history                                             *)

LEMMA KeptExactly ==
    ASSUME Calm, NEW rs, NEW w, Remade(rs, w)
    PROVE  /\ Kept(rs, w) = Outs(rs, Len(records))
           /\ Outs(rs, Len(records)) \subseteq Live(w)
<1> DEFINE S == Outs(rs, Len(records))
<1>1. /\ WellOrdered(records) /\ Additive(records) /\ SameDefinitions(rs, records)
      /\ Sound(w) /\ Rooted(rs, w) /\ Owns(rs, w) /\ DOMAIN rs = 1..Len(records)
      /\ \A i \in 1..Len(records) : Wired(rs, w, i)
  BY DEF Calm, Replayable, Remade, SameDefinitions
<1>2. S \subseteq Live(w)
  BY <1>1 DEF Outs, Rooted
<1>3. ASSUME NEW e \in S PROVE Tips(w, e) \subseteq S
  <2>1. PICK i \in 1..Len(records) : e = rs[i].output /\ rs[i].output # NoOutput
    BY DEF Outs
  <2>2. CASE rs[i].kind # "line"
    BY <1>1, <2>1, <2>2, TipsOfOutput
  <2>3. CASE rs[i].kind = "line"
    <3>1. /\ Tips(w, e) = {rs[At(i, 1)].output, rs[At(i, 2)].output}
          /\ \A k \in 1..2 : At(i, k) \in 1..(i - 1) /\ rs[At(i, k)].output # NoOutput
      BY <1>1, <2>1, <2>3, TipsOfOutput
    <3>2. \A k \in 1..2 : At(i, k) \in 1..Len(records)
      BY <1>1, <3>1 DEF WellOrdered
    <3> QED
      BY <3>1, <3>2 DEF Outs
  <2> QED
    BY <2>2, <2>3
<1>4. {rs[i].output : i \in DOMAIN rs} \ {NoOutput} = S
  BY <1>1 DEF Outs
<1> HIDE DEF S
<1>5. Closure(w, S) = S \cup UNION {Tips(w, e) : e \in S}
  BY <1>1, <1>2, ClosureOfLive
<1>6. Closure(w, S) = S
  BY <1>3, <1>5
<1> QED
  BY <1>2, <1>4, <1>6 DEF Kept, S

LEMMA OwnedExactly ==
    ASSUME Calm
    PROVE  Owned = Outputs /\ Outputs = Outs(records, Len(records))
<1>1. /\ SameDefinitions(records, records) /\ Sound(geometry) /\ DOMAIN records = 1..Len(records)
      /\ DOMAIN geometry.hist \cap Live(geometry) = {}
  BY DEF Calm, Replayable, SameDefinitions, DefinedAs, WellOrdered, Sound
<1>2. Remade(records, geometry)
  BY <1>1 DEF Calm, Replayable, Remade
<1>3. Kept(records, geometry) = Outs(records, Len(records))
  BY <1>2, KeptExactly
<1> QED
  BY <1>1, <1>3 DEF Owned, Outputs, Kept, Outs

(* Where the whole of an incremental replay has been gone through.         *)
Finished(s, start) ==
    /\ Incremental(s, start, Len(records), FALSE) /\ Owns(s.records, s.work)
    /\ Tidy(s, Len(records))

LEMMA FinishedRemade ==
    ASSUME Calm, NEW start \in 1..(Len(records) + 1), NEW s, Finished(s, start)
    PROVE  Remade(s.records, s.work)
<1>1. /\ SameDefinitions(s.records, records) /\ Grown(geometry, s.work)
      /\ Rooted(s.records, s.work) /\ Sound(geometry)
  BY DEF Finished, Incremental, Calm, Replayable
<1>2. Sound(s.work) /\ DOMAIN s.work.hist \cap Live(geometry) = {}
  BY <1>1 DEF Grown, Sound
<1>3. \A i \in 1..Len(records) : Wired(s.records, s.work, i)
  BY DEF Finished, Tidy
<1> QED
  BY <1>1, <1>2, <1>3 DEF Remade, Finished

(* An output that its record leaves is no other record's.                  *)
LEMMA LeftForGood ==
    ASSUME Calm, NEW start \in 1..(Len(records) + 1), NEW s, Finished(s, start),
           NEW i \in 1..Len(records), Leaves(s.records, i)
    PROVE  /\ Old(i) \notin Outs(s.records, Len(records))
           /\ Old(i) \in Live(geometry)
<1>1. Old(i) \in Live(geometry)
  BY DEF Calm, Replayable, WellOrdered, Rooted, Leaves, Old
<1>2. ASSUME NEW j \in 1..Len(records), s.records[j].output = Old(i) PROVE FALSE
  <2>1. s.records[j].output = Old(j)
    BY <1>1, <1>2 DEF Finished, Tidy, Leaves
  <2>2. i = j
    BY <1>2, <2>1, OldsDistinct DEF Leaves
  <2> QED
    BY <2>1, <2>2 DEF Leaves
<1> QED
  BY <1>1, <1>2 DEF Outs

LEMMA NoneShared ==
    ASSUME Calm, NEW start \in 1..(Len(records) + 1), NEW s, Finished(s, start),
           NEW t, t = Transitions(s.records, s.work)
    PROVE  ~SharedConflict(t.map, Kept(s.records, s.work))
<1>1. Remade(s.records, s.work)
  BY FinishedRemade
<1>2. LedExactly(t, s.records, Len(records))
  BY <1>1, TransitionsExactly
<1>3. Kept(s.records, s.work) = Outs(s.records, Len(records))
  BY <1>1, KeptExactly
<1>4. ASSUME NEW o \in DOMAIN t.map PROVE o \notin Outs(s.records, Len(records))
  <2>1. PICK i \in 1..Len(records) : Leaves(s.records, i) /\ o = Old(i)
    BY <1>2 DEF LedExactly
  <2> QED
    BY <2>1, LeftForGood
<1> QED
  BY <1>3, <1>4 DEF SharedConflict

(* Lineage takes what leads from an old geometry to live entities.         *)
LEMMA RecordableOnward ==
    ASSUME Sound(geometry), ValidHistory(geometry), NEW w, Sound(w),
           NEW entries, NEW C, NEW K \in SUBSET Live(w),
           NEW h, h = Merged(w.hist, entries), IsFiniteSet(DOMAIN h),
           DOMAIN h = DOMAIN geometry.hist \cup C,
           \A x \in DOMAIN geometry.hist : h[x] = geometry.hist[x],
           \A x \in C \ DOMAIN geometry.hist : h[x] \subseteq K,
           DOMAIN h \cap Live(w) = {}, Live(geometry) \subseteq Live(w) \cup C,
           \A old \in DOMAIN entries \cap DOMAIN w.hist : w.hist[old] = entries[old]
    PROVE  Recordable(w, entries)
<1> DEFINE r == Recorded(w, entries)
<1>1. r = [ents |-> w.ents, hist |-> h, next |-> w.next]
  BY DEF Recorded, Sound
<1>2. r.ents = w.ents /\ r.hist = h
  BY <1>1
<1> HIDE DEF r
<1>3. Live(r) = Live(w)
  BY <1>2 DEF Live
<1>4. DOMAIN entries \subseteq DOMAIN h
  <2>1. \A f, g : DOMAIN Merged(f, g) = DOMAIN f \cup DOMAIN g
    BY MergedValues
  <2>2. DOMAIN Merged(w.hist, entries) = DOMAIN w.hist \cup DOMAIN entries
    BY <2>1
  <2> DEFINE m == Merged(w.hist, entries)
  <2>3. DOMAIN m = DOMAIN w.hist \cup DOMAIN entries /\ h = m
    BY <2>2
  <2> HIDE DEF m
  <2> QED
    BY <2>3
<1>5. \A x \in DOMAIN h : x \notin Descend(h, h[x])
  <2>1. K \cap DOMAIN h = {}
    OBVIOUS
  <2> QED
    BY <2>1, LeadsNowhereBack
<1>6. ASSUME NEW old \in DOMAIN h PROVE h[old] \subseteq Live(w) \cup DOMAIN h
  <2>1. CASE old \in DOMAIN geometry.hist
    <3>1. geometry.hist[old] \subseteq Live(geometry) \cup DOMAIN geometry.hist
      BY <2>1 DEF ValidHistory
    <3> QED
      BY <2>1, <3>1
  <2>2. CASE old \notin DOMAIN geometry.hist
    BY <1>6, <2>2
  <2> QED
    BY <2>1, <2>2
<1>7. ValidHistory(r)
  BY <1>2, <1>3, <1>5, <1>6 DEF ValidHistory
<1> QED
  BY <1>4, <1>7 DEF Recordable, r

(* What an incremental replay and its transitions have to do with what is  *)
(* removed.                                                                *)
LEMMA FinishedFacts ==
    ASSUME Calm, Live(geometry) = Owned,
           NEW start \in 1..(Len(records) + 1), NEW s, Finished(s, start),
           NEW S, S = Outs(s.records, Len(records))
    PROVE  /\ Sound(geometry) /\ Sound(s.work) /\ Grown(geometry, s.work)
           /\ s.work.hist = geometry.hist
           /\ S \subseteq Live(s.work)
           /\ \A e \in Live(s.work) \ Live(geometry) : Tips(s.work, e) \subseteq S
           /\ \A e \in S : Tips(s.work, e) \subseteq S
           /\ \A e \in Live(geometry) : Tips(s.work, e) \subseteq Live(geometry)
           /\ \A e \in s.discard : e \notin S => e \notin Live(geometry)
           /\ s.retire \subseteq Live(geometry)
           /\ \A e \in Live(geometry) : e \in S \/ e \in s.retire
           /\ \A e \in DOMAIN s.roles.map :
                  /\ e \in 1..(s.work.next - 1) /\ e \in Live(s.work)
                  /\ e \in s.discard \ S /\ s.roles.map[e] \subseteq S
           /\ \A i \in 1..Len(records) :
                  Leaves(s.records, i) =>
                      Old(i) \in (s.retire \ S) \cap Live(geometry)
<1> DEFINE N == Len(records)
           rs == s.records
           w == s.work
<1>1. /\ Sound(geometry) /\ Grown(geometry, w) /\ Sound(w) /\ w.hist = geometry.hist
      /\ N \in Nat /\ DOMAIN records = 1..N /\ SameDefinitions(rs, records)
      /\ DOMAIN rs = 1..N /\ WellOrdered(records) /\ Rooted(records, geometry)
      /\ \A e \in Live(geometry) : w.ents[e] = geometry.ents[e] /\ e < geometry.next
      /\ Live(geometry) \subseteq Live(w)
  BY DEF Finished, Incremental, Calm, Replayable, WellOrdered, Grown, SameDefinitions, Sound
<1>2. Remade(rs, w)
  BY FinishedRemade
<1>3. S = Kept(rs, w) /\ S \subseteq Live(w)
  BY <1>2, KeptExactly
<1>4. \A e \in S : Tips(w, e) \subseteq S
  <2>1. {e \in S : TRUE} = {rs[i].output : i \in DOMAIN rs} \ {NoOutput}
    BY <1>1 DEF Outs
  <2>2. S = Closure(w, S)
    BY <1>3, <2>1 DEF Kept
  <2>3. \A e \in S \cap Live(w) : {e} \cup Tips(w, e) \subseteq Closure(w, S)
    BY <1>1, ClosureLive
  <2> QED
    BY <1>3, <2>2, <2>3
<1>5. \A e \in Live(w) \ Live(geometry) : Tips(w, e) \subseteq S
  BY DEF Finished, Tidy
<1>6. \A e \in Live(geometry) : Tips(w, e) \subseteq Live(geometry)
  <2>1. \A e \in Live(geometry) : Tips(w, e) = Tips(geometry, e)
    BY <1>1 DEF Tips, IsEdge
  <2> QED
    BY <1>1, <2>1 DEF Sound
<1>7. ASSUME NEW e \in s.discard, e \notin S PROVE e \notin Live(geometry)
  <2>1. e >= geometry.next
    BY <1>7 DEF Finished, Tidy
  <2>2. e \in Live(geometry) => e < geometry.next /\ e \in Nat /\ geometry.next \in Nat
    BY <1>1 DEF Sound
  <2> QED
    BY <2>1, <2>2
<1>8. Live(geometry) = Outputs
  BY OwnedExactly
<1>9. s.retire \subseteq Live(geometry)
  BY <1>8 DEF Finished, Tidy
<1>10. ASSUME NEW i \in 1..N, Old(i) # NoOutput
       PROVE  rs[i].output = Old(i) \/ Old(i) \in s.retire
  <2>1. rs[i].output = Old(i) \/ Closure(geometry, {Old(i)}) \subseteq s.retire
    BY <1>10 DEF Finished, Incremental
  <2>2. Old(i) \in Closure(geometry, {Old(i)})
    BY <1>10, OldClosure
  <2> QED
    BY <2>1, <2>2
<1>11. ASSUME NEW e \in Live(geometry) PROVE e \in S \/ e \in s.retire
  <2>1. PICK i \in 1..N : e = Old(i) /\ Old(i) # NoOutput
    BY <1>1, <1>8 DEF Outputs, Old
  <2>2. rs[i].output = e => e \in S
    BY <1>1, <2>1 DEF Outs
  <2> QED
    BY <1>10, <2>1, <2>2
<1>12. ASSUME NEW e \in DOMAIN s.roles.map
       PROVE  /\ e \in 1..(w.next - 1) /\ e \in Live(w)
              /\ e \in s.discard \ S /\ s.roles.map[e] \subseteq S
  <2>1. e \in 1..(w.next - 1)
    BY DEF Finished, Incremental
  <2>2. /\ e \in Live(w) /\ e \in s.discard \ S
        /\ \E i \in 1..N : /\ Old(i) # NoOutput /\ rs[i].output = Old(i)
                           /\ s.roles.map[e] = {Old(i)}
    BY DEF Finished, Tidy
  <2> QED
    BY <2>1, <2>2 DEF Outs
<1>13. ASSUME NEW i \in 1..N, Leaves(rs, i)
       PROVE  Old(i) \in (s.retire \ S) \cap Live(geometry)
  <2>1. Old(i) \notin S /\ Old(i) \in Live(geometry)
    BY <1>13, LeftForGood
  <2>2. Old(i) \in s.retire
    BY <1>10, <1>13 DEF Leaves
  <2> QED
    BY <2>1, <2>2
<1> QED
  BY <1>1, <1>3, <1>4, <1>5, <1>6, <1>7, <1>9, <1>11, <1>12, <1>13

LEMMA IncrementRecords ==
    ASSUME Calm, ValidHistory(geometry), Live(geometry) = Owned,
           NEW start \in 1..(Len(records) + 1), NEW s, Finished(s, start),
           NEW t, t = Transitions(s.records, s.work),
           NEW discard, discard = s.discard \ Kept(s.records, s.work),
           NEW retire, retire = s.retire \ Kept(s.records, s.work)
    PROVE  /\ t.ok /\ RecordedBefore(s, t) /\ Trimmable(s.work, discard, retire)
           /\ Recordable(Trimmed(s.work, discard, retire), Entries(s, t))
<1> DEFINE N == Len(records)
           rs == s.records
           w == s.work
           S == Outs(s.records, N)
           once == RemoveExact(w, discard)
           trimmed == RemoveExact(once, retire)
<1>1. /\ Sound(geometry) /\ Sound(w) /\ Grown(geometry, w)
      /\ w.hist = geometry.hist
      /\ S \subseteq Live(w)
      /\ \A e \in Live(w) \ Live(geometry) : Tips(w, e) \subseteq S
      /\ \A e \in S : Tips(w, e) \subseteq S
      /\ \A e \in Live(geometry) : Tips(w, e) \subseteq Live(geometry)
      /\ \A e \in s.discard : e \notin S => e \notin Live(geometry)
      /\ s.retire \subseteq Live(geometry)
      /\ \A e \in Live(geometry) : e \in S \/ e \in s.retire
      /\ \A e \in DOMAIN s.roles.map :
             /\ e \in 1..(w.next - 1) /\ e \in Live(w)
             /\ e \in s.discard \ S /\ s.roles.map[e] \subseteq S
      /\ \A i \in 1..N :
             Leaves(rs, i) => Old(i) \in (s.retire \ S) \cap Live(geometry)
  BY FinishedFacts
<1>2. Remade(rs, w)
  BY FinishedRemade
<1>3. LedExactly(t, rs, N)
  BY <1>2, TransitionsExactly
<1>4. discard = s.discard \ S /\ retire = s.retire \ S
  BY <1>2, KeptExactly
<1>5. ASSUME NEW e \in DOMAIN t.map
      PROVE  e \in retire \cap Live(geometry) /\ t.map[e] \subseteq S
  <2>1. PICK i \in 1..N : Leaves(rs, i) /\ e = Old(i)
    BY <1>3 DEF LedExactly
  <2>2. t.map[e] = {rs[i].output} \ {NoOutput}
    BY <1>3, <2>1 DEF LedExactly
  <2> QED
    BY <1>1, <1>4, <2>1, <2>2 DEF Outs
<1> HIDE DEF S, rs, w
<1>6. t.ok /\ RecordedBefore(s, t)
  <2>1. DOMAIN t.map \cap DOMAIN w.hist = {}
    BY <1>1, <1>5 DEF Sound
  <2> QED
    BY <1>3, <2>1 DEF LedExactly, RecordedBefore, w
<1>7. Removable(w, discard)
  <2>1. ASSUME NEW e \in Live(w) \ discard PROVE Tips(w, e) \cap discard = {}
    BY <1>1, <1>4
  <2> QED
    BY <2>1 DEF Removable
<1>8. /\ Sound(once) /\ Live(once) = Live(w) \ discard /\ once.hist = w.hist
      /\ \A e \in Live(w) \ discard : once.ents[e] = w.ents[e]
  <2>1. Sound(w)
    BY <1>1
  <2>2. \A d : Removable(w, d) =>
            /\ Sound(RemoveExact(w, d)) /\ Live(RemoveExact(w, d)) = Live(w) \ d
            /\ RemoveExact(w, d).hist = w.hist
            /\ \A e \in Live(w) \ d : RemoveExact(w, d).ents[e] = w.ents[e]
    BY <2>1, RemoveEffect
  <2> QED
    BY <1>7, <2>2, Zenon
<1> HIDE DEF once
<1>9. Removable(once, retire)
  <2>1. ASSUME NEW e \in Live(once) \ retire PROVE Tips(once, e) \cap retire = {}
    <3>1. Tips(once, e) = Tips(w, e) /\ e \in Live(w)
      BY <1>8, <2>1 DEF Tips, IsEdge
    <3>2. e \notin Live(geometry) \/ e \in S
      BY <1>1, <1>4, <2>1
    <3>3. Tips(w, e) \subseteq S
      BY <1>1, <3>1, <3>2
    <3> QED
      BY <1>4, <3>1, <3>3
  <2> QED
    BY <2>1 DEF Removable
<1>10. /\ Sound(trimmed) /\ Live(trimmed) = Live(once) \ retire
       /\ trimmed.hist = once.hist
  <2>1. Sound(once)
    BY <1>8
  <2> QED
    BY <1>9, <2>1, RemoveEffect
<1>11. Trimmable(w, discard, retire)
  BY <1>7, <1>9 DEF Trimmable, once
<1>12. trimmed = Trimmed(w, discard, retire)
  BY DEF Trimmed, once
<1> HIDE DEF trimmed
<1> DEFINE roles == s.roles.map
           led == [o \in DOMAIN t.map \ DOMAIN w.hist |-> t.map[o]]
           entries == Merged(roles, led)
           h == Merged(trimmed.hist, entries)
           C == DOMAIN roles \cup DOMAIN t.map
<1>13. entries = Entries(s, t)
  BY DEF Entries, w
<1>14. DOMAIN led = DOMAIN t.map /\ \A e \in DOMAIN t.map : led[e] = t.map[e]
  BY <1>1, <1>5 DEF Sound
<1> HIDE DEF led
<1>15. /\ DOMAIN entries = C
       /\ \A e \in C : entries[e] \subseteq S
  <2>1. /\ DOMAIN entries = DOMAIN roles \cup DOMAIN led
        /\ \A x \in DOMAIN roles : entries[x] = roles[x]
        /\ \A x \in DOMAIN led \ DOMAIN roles : entries[x] = led[x]
    BY MergedValues
  <2> HIDE DEF entries
  <2> QED
    BY <1>1, <1>5, <1>14, <2>1
<1> HIDE DEF entries
<1>16. C \cap DOMAIN geometry.hist = {}
  BY <1>1, <1>5 DEF Sound
<1>17. /\ DOMAIN h = DOMAIN geometry.hist \cup C
       /\ \A x \in DOMAIN geometry.hist : h[x] = geometry.hist[x]
       /\ \A x \in C \ DOMAIN geometry.hist : h[x] \subseteq S
  <2>1. /\ DOMAIN h = DOMAIN trimmed.hist \cup DOMAIN entries
        /\ \A x \in DOMAIN trimmed.hist : h[x] = trimmed.hist[x]
        /\ \A x \in DOMAIN entries \ DOMAIN trimmed.hist : h[x] = entries[x]
    BY MergedValues
  <2>2. trimmed.hist = geometry.hist
    BY <1>1, <1>8, <1>10
  <2> HIDE DEF h, C
  <2> QED
    BY <1>15, <2>1, <2>2
<1>18. IsFiniteSet(DOMAIN h)
  <2>1. DOMAIN h \subseteq 1..(w.next - 1)
    BY <1>1, <1>5, <1>17 DEF Sound, Grown
  <2>2. 1 \in Int /\ w.next - 1 \in Int
    BY <1>1 DEF Sound
  <2> QED
    BY <2>1, <2>2, FS_Interval, FS_Subset
<1>19. /\ S \subseteq Live(trimmed) /\ DOMAIN h \cap Live(trimmed) = {}
       /\ Live(geometry) \subseteq Live(trimmed) \cup C
  <2>1. Live(trimmed) = (Live(w) \ discard) \ retire
    BY <1>8, <1>10
  <2>2. S \subseteq Live(trimmed)
    BY <1>1, <1>4, <2>1
  <2>3. DOMAIN geometry.hist \cap Live(w) = {}
    BY <1>1 DEF Sound
  <2>4. C \cap Live(trimmed) = {}
    BY <1>1, <1>4, <1>5, <2>1
  <2>5. ASSUME NEW e \in Live(geometry), e \notin S PROVE e \in C
    <3>1. Live(geometry) = Outputs /\ DOMAIN records = 1..N
      BY OwnedExactly DEF Calm, Replayable, WellOrdered
    <3>2. PICK i \in 1..N : e = Old(i) /\ Old(i) # NoOutput
      BY <3>1 DEF Outputs, Old
    <3>3. rs[i].output # Old(i)
      BY <2>5, <3>2 DEF Outs, S, rs
    <3>4. Leaves(rs, i)
      BY <3>2, <3>3 DEF Leaves
    <3> QED
      BY <1>3, <3>2, <3>4 DEF LedExactly
  <2> QED
    BY <1>17, <2>1, <2>2, <2>3, <2>4, <2>5
<1>20. \A old \in DOMAIN entries \cap DOMAIN trimmed.hist : trimmed.hist[old] = entries[old]
  BY <1>1, <1>8, <1>10, <1>15, <1>16
<1> HIDE DEF C
<1>21. S \in SUBSET Live(trimmed) /\ h = Merged(trimmed.hist, entries)
  BY <1>19
<1> HIDE DEF h
<1>22. Recordable(trimmed, entries)
  <2>1. Sound(geometry) /\ Sound(trimmed)
    BY <1>1, <1>10
  <2>2. DOMAIN h \cap Live(trimmed) = {} /\ Live(geometry) \subseteq Live(trimmed) \cup C
    BY <1>19
  <2> QED
    BY <1>17, <1>18, <1>20, <1>21, <2>1, <2>2, RecordableOnward
<1> QED
  BY <1>6, <1>11, <1>12, <1>13, <1>22 DEF w

LEMMA RestartRecords ==
    ASSUME Calm, ValidHistory(geometry), Live(geometry) = Owned,
           NEW s, s = FullReplay(records, Empty, geometry.next), s.ok,
           NEW t, t = Transitions(s.records, s.work)
    PROVE  t.ok /\ Recordable(s.work, Merged(geometry.hist, t.map))
<1> DEFINE N == Len(records)
           rs == s.records
           w == s.work
           S == Outs(s.records, N)
           first == Reserved(Empty, geometry.next)
<1>1. /\ Sound(geometry) /\ geometry.next \in Nat /\ WellOrdered(records) /\ Additive(records)
      /\ \A e \in Live(geometry) : e \in Nat /\ e < geometry.next /\ e # NoOutput
      /\ \A e \in DOMAIN geometry.hist : e \in Nat /\ e < geometry.next
      /\ DOMAIN records = 1..N
  BY DEF Calm, Replayable, Sound, NoOutput, WellOrdered
<1>2. /\ Live(first) = {} /\ first.hist = <<>> /\ first.next >= geometry.next
      /\ first.next \in Nat
  BY <1>1, EmptySound, ReservedEffect
<1>3. FullProgress(s, first, N)
  BY <1>1, EmptySound, FullProgresses
<1> HIDE DEF first
<1>4. /\ SameDefinitions(rs, records) /\ Grown(first, w) /\ Rooted(rs, w) /\ Owns(rs, w)
      /\ \A i \in 1..N : Wired(rs, w, i)
  BY <1>1, <1>3 DEF FullProgress, Full
<1>5. /\ Sound(w) /\ DOMAIN w.hist = {} /\ w.hist = <<>>
      /\ \A e \in Live(w) : e \in Nat /\ e >= geometry.next
  BY <1>1, <1>2, <1>4 DEF Grown, Sound
<1>6. Remade(rs, w)
  BY <1>4, <1>5 DEF Remade
<1>7. LedExactly(t, rs, N) /\ S \subseteq Live(w)
  BY <1>6, TransitionsExactly, KeptExactly
<1>8. ASSUME NEW e \in DOMAIN t.map
      PROVE  e \in Live(geometry) /\ t.map[e] \subseteq S
  <2>1. PICK i \in 1..N : Leaves(rs, i) /\ e = Old(i)
    BY <1>7 DEF LedExactly
  <2>2. t.map[e] = {rs[i].output} \ {NoOutput}
    BY <1>7, <2>1 DEF LedExactly
  <2>3. Old(i) \in Live(geometry)
    BY <1>1, <2>1 DEF Calm, Replayable, Rooted, Leaves, Old
  <2> QED
    BY <2>1, <2>2, <2>3 DEF Outs
<1>9. ASSUME NEW e \in Live(geometry) PROVE e \in DOMAIN t.map
  <2>1. PICK i \in 1..N : e = Old(i) /\ Old(i) # NoOutput
    BY <1>1, OwnedExactly DEF Outputs, Old
  <2>2. rs[i].output = Old(i) => rs[i].output \in Live(w)
    BY <1>4, <2>1 DEF Rooted, SameDefinitions
  <2>3. Leaves(rs, i)
    BY <1>1, <1>5, <2>1, <2>2 DEF Leaves
  <2> QED
    BY <1>7, <2>1, <2>3 DEF LedExactly
<1> HIDE DEF S, rs, w
<1> DEFINE led == t.map
           C == DOMAIN led
           entries == Merged(geometry.hist, led)
           h == Merged(w.hist, entries)
<1>10. DOMAIN led \cap DOMAIN geometry.hist = {}
  BY <1>1, <1>8 DEF Sound
<1>12. /\ DOMAIN entries = DOMAIN geometry.hist \cup C
       /\ \A x \in DOMAIN geometry.hist : entries[x] = geometry.hist[x]
       /\ \A x \in C : entries[x] = led[x]
  <2> HIDE DEF led
  <2>1. /\ DOMAIN entries = DOMAIN geometry.hist \cup DOMAIN led
        /\ \A x \in DOMAIN geometry.hist : entries[x] = geometry.hist[x]
        /\ \A x \in DOMAIN led \ DOMAIN geometry.hist : entries[x] = led[x]
    BY MergedValues
  <2> QED
    BY <1>10, <2>1
<1> HIDE DEF entries
<1>13. DOMAIN h = DOMAIN entries /\ \A x \in DOMAIN entries : h[x] = entries[x]
  <2>1. /\ DOMAIN h = DOMAIN w.hist \cup DOMAIN entries
        /\ \A x \in DOMAIN entries \ DOMAIN w.hist : h[x] = entries[x]
    BY MergedValues
  <2> HIDE DEF h
  <2> QED
    BY <1>5, <2>1
<1> HIDE DEF h
<1>14. /\ DOMAIN h = DOMAIN geometry.hist \cup C
       /\ \A x \in DOMAIN geometry.hist : h[x] = geometry.hist[x]
       /\ \A x \in C \ DOMAIN geometry.hist : h[x] \subseteq S
  BY <1>8, <1>12, <1>13
<1>15. IsFiniteSet(DOMAIN h)
  <2>1. DOMAIN h \subseteq 0..geometry.next
    BY <1>1, <1>8, <1>14
  <2>2. 0 \in Int /\ geometry.next \in Int
    BY <1>1
  <2> QED
    BY <2>1, <2>2, FS_Interval, FS_Subset
<1>16. DOMAIN h \cap Live(w) = {} /\ Live(geometry) \subseteq Live(w) \cup C
  BY <1>1, <1>5, <1>8, <1>9, <1>14
<1>17. \A old \in DOMAIN entries \cap DOMAIN w.hist : w.hist[old] = entries[old]
  BY <1>5
<1>18. S \in SUBSET Live(w) /\ h = Merged(w.hist, entries)
  BY <1>7 DEF h
<1> HIDE DEF C
<1>19. Sound(geometry) /\ Sound(w)
  BY <1>1, <1>5
<1>20. Recordable(w, entries)
  BY <1>14, <1>15, <1>16, <1>17, <1>18, <1>19, RecordableOnward
<1> QED
  BY <1>7, <1>20 DEF LedExactly, w, entries

-----------------------------------------------------------------------------
(* The inductive invariant *)

(* What a full replay starts from: an earlier state of the live geometry.  *)
BaselineKept ==
    baseline # NoBaseline =>
        /\ Sound(baseline)
        /\ baseline.next <= geometry.next
        /\ DOMAIN baseline.hist \subseteq DOMAIN geometry.hist
        /\ \A e \in Live(baseline) \cap Live(geometry) :
               Unmoved(geometry.ents[e]) = Unmoved(baseline.ents[e])

Counted ==
    /\ next_id \in 1..(MaxFeatures + 1)
    /\ edits \in 0..MaxEdits
    /\ report \in {"none", "ok", "feature", "shared", "lineage"}
    /\ suspects \subseteq {"mark", "prefix"}
    /\ Ids(records) \subseteq 1..(next_id - 1)

FInv ==
    /\ WellOrdered(records) /\ Counted
    /\ Sound(geometry) /\ ValidHistory(geometry) /\ Rooted(records, geometry)
    /\ Owns(records, geometry)
    /\ BaselineKept
    /\ NoOrphans

(* What an edit keeps of a record whose output it keeps. *)
Descends(q, r) == q.id = r.id /\ q.kind = r.kind /\ q.output = r.output

(* An edit makes up no outputs, leaves no record it changes clean, and     *)
(* forgets an output only if it leaves a mark.                             *)
Edits(rs) ==
    /\ rs \in Seq(Record) /\ Distinct(rs)
    /\ \A i \in DOMAIN rs : Ports(rs[i])
    /\ next_id' \in 1..(MaxFeatures + 1) /\ Ids(rs) \subseteq 1..(next_id' - 1)
    /\ \A i \in DOMAIN rs :
           rs[i].output # NoOutput => \E k \in DOMAIN records : Descends(rs[i], records[k])
    /\ \A i \in DOMAIN rs :
           rs[i].state = "pending" \/ \E k \in DOMAIN records : rs[i] = records[k]
    /\ \/ Marked(rs) \/ rs = <<>>
       \/ \A k \in DOMAIN records :
              Old(k) # NoOutput => \E i \in DOMAIN rs : rs[i].output = Old(k)

Edited == \E rs : Edits(rs) /\ ApplyMutation(rs)

LEMMA EditKeeps ==
    ASSUME FInv, NEW rs, Edits(rs), ApplyMutation(rs)
    PROVE  FInv'
<1>1. /\ records' = rs /\ report' = "none" /\ edits' = edits + 1 /\ edits < MaxEdits
      /\ Valid(rs) /\ baseline' = baseline /\ geometry' = geometry
      /\ suspects' = suspects \cup (IF MarkLost(rs) THEN {"mark"} ELSE {})
  BY DEF ApplyMutation
<1>2. WellOrdered(records')
  BY <1>1 DEF Edits, WellOrdered, Distinct
<1>3. Counted'
  <2>1. edits' \in 0..MaxEdits
    BY <1>1, FeatureHistoryAssumption DEF FInv, Counted
  <2>2. suspects' \subseteq {"mark", "prefix"}
    BY <1>1 DEF FInv, Counted
  <2> QED
    BY <1>1, <2>1, <2>2 DEF Edits, Counted
<1>4. Sound(geometry) /\ ValidHistory(geometry) /\ Rooted(records, geometry)
  BY DEF FInv
<1>5. Rooted(rs, geometry)
  BY <1>4 DEF Rooted, Edits, Descends
<1>8. Owns(rs, geometry)
  <2>1. ASSUME NEW i \in DOMAIN rs, Makes(rs[i])
        PROVE  \E k \in DOMAIN records : Makes(records[k]) /\ Descends(rs[i], records[k])
    BY <2>1 DEF Edits, Makes, Descends
  <2>2. ASSUME NEW i \in DOMAIN rs, NEW j \in DOMAIN rs, Makes(rs[i]), Makes(rs[j]),
               rs[i].output = rs[j].output
        PROVE  i = j
    <3>1. PICK k \in DOMAIN records : Makes(records[k]) /\ Descends(rs[i], records[k])
      BY <2>1, <2>2
    <3>2. PICK l \in DOMAIN records : Makes(records[l]) /\ Descends(rs[j], records[l])
      BY <2>1, <2>2
    <3>3. records[k].output = records[l].output
      BY <2>2, <3>1, <3>2 DEF Descends
    <3>4. k = l
      BY <3>1, <3>2, <3>3 DEF FInv, Owns
    <3>5. rs[i].id = rs[j].id
      BY <3>1, <3>2, <3>4 DEF Descends
    <3> QED
      BY <3>5 DEF Edits, Distinct
  <2>3. ASSUME NEW i \in DOMAIN rs, Makes(rs[i])
        PROVE  IsEdge(geometry, rs[i].output) <=> rs[i].kind = "line"
    <3>1. PICK k \in DOMAIN records : Makes(records[k]) /\ Descends(rs[i], records[k])
      BY <2>1, <2>3
    <3>2. IsEdge(geometry, records[k].output) <=> records[k].kind = "line"
      BY <3>1 DEF FInv, Owns
    <3> QED
      BY <3>1, <3>2 DEF Descends
  <2> QED
    BY <2>2, <2>3 DEF Owns
<1>6. BaselineKept'
  BY <1>1 DEF FInv, BaselineKept
<1>7. NoOrphans'
  <2> SUFFICES ASSUME "mark" \notin suspects', ~Marked(rs), baseline \in {NoBaseline, Empty}
               PROVE  Live(geometry) = Owned'
    BY <1>1 DEF NoOrphans
  <2>1. ~MarkLost(rs) /\ "mark" \notin suspects
    BY <1>1
  <2>2. ~Marked(records) /\ rs # <<>>
    BY <2>1 DEF MarkLost
  <2>3. Live(geometry) = Owned
    BY <2>1, <2>2 DEF FInv, NoOrphans
  <2>4. \A k \in DOMAIN records :
            Old(k) # NoOutput => \E i \in DOMAIN rs : rs[i].output = Old(k)
    BY <2>2 DEF Edits
  <2>5. Outputs \subseteq Outputs'
    BY <1>1, <2>4 DEF Outputs, Old
  <2>6. Outputs' \subseteq Live(geometry)
    BY <1>1, <1>5 DEF Outputs, Rooted
  <2> DEFINE old == Outputs
             new == Outputs'
  <2>7. Owned = Closure(geometry, old) /\ Owned' = Closure(geometry, new)
    BY <1>1 DEF Owned
  <2> HIDE DEF old, new
  <2>8. old \subseteq new /\ new \subseteq Live(geometry)
    BY <2>5, <2>6 DEF old, new
  <2>9. /\ Closure(geometry, old) = old \cup UNION {Tips(geometry, e) : e \in old}
        /\ Closure(geometry, new) = new \cup UNION {Tips(geometry, e) : e \in new}
    BY <1>4, <2>8, ClosureOfLive
  <2>10. Closure(geometry, new) \subseteq Live(geometry)
    BY <1>4, ClosureLive
  <2> QED
    BY <2>3, <2>7, <2>8, <2>9, <2>10
<1> QED
  BY <1>1, <1>2, <1>3, <1>4, <1>5, <1>6, <1>7, <1>8 DEF FInv

(* Edits of one record in its place *)

Reedits(q, r) ==
    /\ q \in Record /\ Ports(q)
    /\ Descends(q, r) /\ q.state = "pending"

LEMMA PendingReedits ==
    ASSUME NEW r \in Record, Ports(r), NEW q, q = Pending(r)
    PROVE  q \in Record /\ Reedits(q, r) /\ q.kind = r.kind /\ q.suppressed \in BOOLEAN
BY DEF Record, Pending, Reedits, Descends, Ports

LEMMA SuppressedReedits ==
    ASSUME NEW r \in Record, Ports(r), r.state = "pending", NEW v \in BOOLEAN
    PROVE  Reedits([r EXCEPT !.suppressed = v], r)
BY DEF Record, Reedits, Descends, Ports

LEMMA ParameterReedits ==
    ASSUME NEW r \in Record, Ports(r), r.state = "pending",
           NEW v \in Parameters[r.kind]
    PROVE  Reedits([r EXCEPT !.parameter = v], r)
<1>1. v \in UNION {Parameters[k] : k \in Kinds}
  BY DEF Record, Kinds
<1> QED
  BY <1>1 DEF Record, Reedits, Descends, Ports

(* The inputs of each port. *)
LEMMA InputsChosen ==
    ASSUME NEW kind, NEW ids \in SUBSET Features, NEW v \in InputChoices(kind, ids),
           kind \in {"point", "line", "transform"}
    PROVE  /\ v \in UNION {[1..n -> Features] : n \in 0..2}
           /\ kind = "line" => DOMAIN v = 1..2
           /\ kind = "transform" => DOMAIN v = 1..1
<1>1. CASE kind = "point"
  <2>1. v = <<>>
    BY <1>1 DEF InputChoices
  <2>2. v \in [1..0 -> Features]
    BY <2>1
  <2> QED
    BY <1>1, <2>2
<1>2. CASE kind = "line"
  <2>1. v \in ids \X ids
    BY <1>2 DEF InputChoices
  <2>2. v \in [1..2 -> Features]
    BY <2>1
  <2> QED
    BY <1>2, <2>2
<1>3. CASE kind = "transform"
  <2>1. PICK f \in ids : v = <<f>>
    BY <1>3 DEF InputChoices
  <2>2. v \in [1..1 -> Features]
    BY <2>1
  <2> QED
    BY <1>3, <2>2
<1> QED
  BY <1>1, <1>2, <1>3

LEMMA InputsReedit ==
    ASSUME NEW r \in Record, Ports(r), r.state = "pending", NEW ids \in SUBSET Features,
           NEW v \in InputChoices(r.kind, ids)
    PROVE  Reedits([r EXCEPT !.inputs = v], r)
<1>1. /\ v \in UNION {[1..n -> Features] : n \in 0..2}
      /\ r.kind = "line" => DOMAIN v = 1..2
      /\ r.kind = "transform" => DOMAIN v = 1..1
  BY InputsChosen DEF Ports
<1> QED
  BY <1>1 DEF Record, Reedits, Descends, Ports

LEMMA ReplaceOne ==
    ASSUME FInv, next_id' = next_id, NEW p \in DOMAIN records,
           NEW r, Reedits(r, records[p]), NEW rs, rs = [records EXCEPT ![p] = r]
    PROVE  Edits(rs)
<1>1. /\ records \in Seq(Record) /\ Distinct(records)
      /\ \A i \in DOMAIN records : Ports(records[i])
      /\ next_id \in 1..(MaxFeatures + 1) /\ Ids(records) \subseteq 1..(next_id - 1)
  BY DEF FInv, WellOrdered, Distinct, Counted
<1>2. /\ rs \in Seq(Record) /\ DOMAIN rs = DOMAIN records /\ rs[p] = r
      /\ \A i \in DOMAIN records : i # p => rs[i] = records[i]
  BY <1>1 DEF Reedits
<1>3. \A i \in DOMAIN records :
          Descends(rs[i], records[i]) /\ rs[i].output = Old(i) /\ Ports(rs[i])
  BY <1>1, <1>2 DEF Reedits, Descends, Old
<1>4. Ids(rs) = Ids(records) /\ Distinct(rs)
  BY <1>1, <1>2, <1>3 DEF Ids, Descends, Distinct
<1>5. \A i \in DOMAIN rs :
          rs[i].state = "pending" \/ \E k \in DOMAIN records : rs[i] = records[k]
  BY <1>2 DEF Reedits
<1> QED
  BY <1>1, <1>2, <1>3, <1>4, <1>5 DEF Edits

LEMMA PositionIn ==
    ASSUME NEW f \in Ids(records)
    PROVE  Position(records, f) \in DOMAIN records /\ records[Position(records, f)].id = f
<1>1. \E i \in DOMAIN records : records[i].id = f
  BY DEF Ids
<1> QED
  BY <1>1 DEF Position

LEMMA OneRecordEdits ==
    ASSUME FInv, NEW f \in Ids(records),
           SetSuppressed(f) \/ Rename(f) \/ UpdateParameters(f) \/ UpdateInputs(f)
    PROVE  Edited
<1> DEFINE i == Position(records, f)
           r == records[i]
           q == Pending(r)
<1>1. i \in DOMAIN records
  BY PositionIn
<1>2. /\ records \in Seq(Record) /\ r \in Record /\ Ports(r)
      /\ Ids(records) \in SUBSET Features
  <2>1. records \in Seq(Record) /\ \A j \in DOMAIN records : Ports(records[j])
    BY DEF FInv, WellOrdered
  <2>2. \A j \in DOMAIN records : records[j].id \in Features
    BY <2>1, RecordFields
  <2> QED
    BY <1>1, <2>1, <2>2 DEF Ids
<1>3. /\ q \in Record /\ Reedits(q, r) /\ q.kind = r.kind /\ q.suppressed \in BOOLEAN
  <2> HIDE DEF r, q
  <2> QED
    BY <1>2, PendingReedits DEF q
<1>4. next_id' = next_id
  BY DEF SetSuppressed, Rename, UpdateParameters, UpdateInputs
<1>5. ASSUME NEW v, Reedits(v, q), ApplyMutation([records EXCEPT ![i] = v])
      PROVE  Edited
  <2>1. Reedits(v, r)
    BY <1>3, <1>5 DEF Reedits, Descends
  <2> DEFINE rs == [records EXCEPT ![i] = v]
  <2>2. Edits(rs)
    <3> HIDE DEF i, q
    <3> QED
      BY <1>1, <1>4, <2>1, ReplaceOne
  <2> HIDE DEF rs, i, q
  <2>3. ApplyMutation(rs)
    BY <1>5 DEF rs
  <2> QED
    BY <2>2, <2>3 DEF Edited
<1>6. CASE SetSuppressed(f)
  <2> DEFINE v == [q EXCEPT !.suppressed = ~q.suppressed]
  <2>1. Reedits(v, q)
    BY <1>3, SuppressedReedits DEF Reedits, Descends
  <2>2. ApplyMutation([records EXCEPT ![i] = v])
    BY <1>6 DEF SetSuppressed
  <2> HIDE DEF v, i, q
  <2> QED
    BY <1>5, <2>1, <2>2
<1>7. CASE Rename(f)
  <2>1. Reedits(q, q)
    BY <1>3 DEF Reedits, Descends
  <2>2. ApplyMutation([records EXCEPT ![i] = q])
    BY <1>7 DEF Rename
  <2> HIDE DEF i, q
  <2> QED
    BY <1>5, <2>1, <2>2
<1>8. CASE UpdateParameters(f)
  <2>1. PICK v \in Parameters[r.kind] \ {r.parameter} :
            ApplyMutation([records EXCEPT ![i] = [Pending(records[i]) EXCEPT !.parameter = v]])
    BY <1>8 DEF UpdateParameters
  <2> DEFINE w == [q EXCEPT !.parameter = v]
  <2>2. Reedits(w, q)
    BY <1>3, <2>1, ParameterReedits DEF Reedits, Descends
  <2>3. ApplyMutation([records EXCEPT ![i] = w])
    BY <2>1
  <2> HIDE DEF w, i, q
  <2> QED
    BY <1>5, <2>2, <2>3
<1>9. CASE UpdateInputs(f)
  <2>1. PICK v \in InputChoices(r.kind, Ids(records)) \ {r.inputs} :
            ApplyMutation([records EXCEPT ![i] = [Pending(records[i]) EXCEPT !.inputs = v]])
    BY <1>9 DEF UpdateInputs
  <2> DEFINE w == [q EXCEPT !.inputs = v]
  <2>2. v \in InputChoices(q.kind, Ids(records))
    BY <1>3, <2>1
  <2>3. Reedits(w, q)
    <3> HIDE DEF q
    <3> QED
      BY <1>2, <1>3, <2>2, InputsReedit DEF Reedits, Descends
  <2>4. ApplyMutation([records EXCEPT ![i] = w])
    BY <2>1
  <2> HIDE DEF w, i, q
  <2> QED
    BY <1>5, <2>3, <2>4
<1> QED
  BY <1>6, <1>7, <1>8, <1>9

(* The other edits *)

LEMMA AppendEdits ==
    ASSUME FInv, AppendFeature
    PROVE  Edited
<1>0. /\ records \in Seq(Record) /\ Distinct(records)
      /\ \A i \in DOMAIN records : Ports(records[i])
      /\ next_id \in 1..(MaxFeatures + 1) /\ Ids(records) \subseteq 1..(next_id - 1)
  BY DEF FInv, WellOrdered, Distinct, Counted
<1>1. next_id <= MaxFeatures /\ next_id' = next_id + 1 /\ MaxFeatures \in Nat
  BY FeatureHistoryAssumption DEF AppendFeature
<1>2. next_id \in Features /\ Ids(records) \in SUBSET Features
  BY <1>0, <1>1 DEF Features
<1> DEFINE Fresh(kind, parameter, inputs, dependencies) ==
              [id |-> next_id, kind |-> kind, parameter |-> parameter,
               inputs |-> inputs, dependencies |-> dependencies,
               suppressed |-> FALSE, state |-> "pending", fullReplay |-> FALSE,
               output |-> NoOutput]
<1>3a. PICK kind \in Kinds :
         \E parameter \in Parameters[kind], inputs \in InputChoices(kind, Ids(records)) :
         \E dependencies \in DependencyChoices(kind, Ids(records)) :
             ApplyMutation(Append(records, Fresh(kind, parameter, inputs, dependencies)))
  BY DEF AppendFeature
<1>3. PICK parameter \in Parameters[kind], inputs \in InputChoices(kind, Ids(records)),
           dependencies \in DependencyChoices(kind, Ids(records)) :
           ApplyMutation(Append(records, Fresh(kind, parameter, inputs, dependencies)))
  BY <1>3a
<1> DEFINE r == Fresh(kind, parameter, inputs, dependencies)
           rs == Append(records, r)
<1>4. kind \in {"point", "line", "transform"}
  BY <1>3 DEF Kinds, Parameters
<1>5. /\ inputs \in UNION {[1..n -> Features] : n \in 0..2}
      /\ kind = "line" => DOMAIN inputs = 1..2
      /\ kind = "transform" => DOMAIN inputs = 1..1
  BY <1>2, <1>3, <1>4, InputsChosen
<1>6. dependencies \in SUBSET Features
  BY <1>2, <1>3 DEF DependencyChoices
<1>7. parameter \in UNION {Parameters[k] : k \in Kinds}
  BY <1>3
<1>8. /\ r \in Record /\ Ports(r) /\ r.id = next_id /\ r.output = NoOutput
      /\ r.state = "pending"
  BY <1>2, <1>3, <1>4, <1>5, <1>6, <1>7 DEF Record, Ports, NoOutput
<1>9. ApplyMutation(rs)
  BY <1>3
<1> HIDE DEF r
<1> DEFINE N == Len(records)
<1>10. /\ rs \in Seq(Record) /\ DOMAIN rs = 1..(N + 1) /\ rs[N + 1] = r
       /\ N \in Nat /\ DOMAIN records = 1..N
       /\ \A i \in 1..N : rs[i] = records[i]
  BY <1>0, <1>8
<1> HIDE DEF rs, N
<1>11. \A i \in DOMAIN rs : i = N + 1 \/ i \in DOMAIN records
  BY <1>10
<1>12. \A i \in DOMAIN records : i \in DOMAIN rs /\ i # N + 1
  BY <1>10
<1>13. \A i \in DOMAIN records : records[i].id \in 1..(next_id - 1)
  BY <1>0 DEF Ids
<1>14. \A i \in DOMAIN records : records[i].id # next_id
  BY <1>0, <1>13
<1>15. Distinct(rs)
  <2> SUFFICES ASSUME NEW i \in DOMAIN rs, NEW j \in DOMAIN rs, rs[i].id = rs[j].id
               PROVE  i = j
    BY DEF Distinct
  <2>1. CASE i = N + 1
    BY <1>8, <1>10, <1>11, <1>14, <2>1
  <2>2. CASE j = N + 1
    BY <1>8, <1>10, <1>11, <1>14, <2>2
  <2>3. CASE i # N + 1 /\ j # N + 1
    BY <1>0, <1>10, <1>11, <2>3 DEF Distinct
  <2> QED
    BY <2>1, <2>2, <2>3
<1>16. \A i \in DOMAIN rs : rs[i].id \in 1..next_id /\ Ports(rs[i])
  BY <1>0, <1>8, <1>10, <1>11, <1>13
<1>17. next_id' \in 1..(MaxFeatures + 1) /\ Ids(rs) \subseteq 1..(next_id' - 1)
  BY <1>0, <1>1, <1>16 DEF Ids
<1>18. \A i \in DOMAIN rs :
          rs[i].output # NoOutput =>
              \E k \in DOMAIN records : Descends(rs[i], records[k])
  BY <1>8, <1>10, <1>11 DEF Descends
<1>19. \A k \in DOMAIN records : \E i \in DOMAIN rs : rs[i].output = Old(k)
  BY <1>10, <1>12 DEF Old
<1>20. \A i \in DOMAIN rs :
           rs[i].state = "pending" \/ \E k \in DOMAIN records : rs[i] = records[k]
  BY <1>8, <1>10, <1>11
<1>21. Edits(rs)
  BY <1>10, <1>15, <1>16, <1>17, <1>18, <1>19, <1>20 DEF Edits
<1> QED
  BY <1>9, <1>21 DEF Edited

LEMMA MoveEdits ==
    ASSUME FInv, NEW f \in Ids(records), Move(f)
    PROVE  Edited
<1> DEFINE N == Len(records)
           p == Position(records, f)
           r == Pending(records[p])
<1>0. /\ records \in Seq(Record) /\ Distinct(records)
      /\ \A i \in DOMAIN records : Ports(records[i])
      /\ next_id \in 1..(MaxFeatures + 1) /\ Ids(records) \subseteq 1..(next_id - 1)
      /\ DOMAIN records = 1..N /\ N \in Nat
  BY DEF FInv, WellOrdered, Distinct, Counted
<1>1. p \in DOMAIN records /\ records[p].id = f
  BY PositionIn
<1>2. PICK target \in DOMAIN records : ApplyMutation(MovedTo(records, p, target, r))
  BY <1>1 DEF Move, MovedTo
<1>3. r \in Record /\ Reedits(r, records[p])
  BY <1>0, <1>1, PendingReedits
<1> DEFINE rs == MovedTo(records, p, target, r)
<1>5. ApplyMutation(rs) /\ rs = MovedTo(records, p, target, r)
  BY <1>2
<1> HIDE DEF r, p, rs
<1>4. /\ rs \in Seq(Record) /\ Len(rs) = Len(records)
      /\ \A j \in 1..N : rs[j] = IF j = target THEN r ELSE records[Before(p, target, j)]
  <2>1. Relocated(rs, records, p, target, r)
    BY <1>0, <1>1, <1>3, <1>5, MovedRecords
  <2> QED
    BY <2>1 DEF Relocated
<1>7. DOMAIN rs = 1..N
  BY <1>0, <1>4
<1> HIDE DEF N
<1>6. Rearranges(N, p, target)
  BY <1>0, <1>1, <1>2, BeforeOnto
<1>8. ASSUME NEW j \in 1..N
      PROVE  LET old == records[Before(p, target, j)]
             IN  /\ Descends(rs[j], old) /\ rs[j].id = old.id
                 /\ rs[j].output = old.output /\ Ports(rs[j])
  <2>1. Before(p, target, j) \in DOMAIN records
    BY <1>0, <1>6 DEF Rearranges
  <2>2. CASE j = target
    <3>1. Before(p, target, j) = p /\ rs[j] = r
      BY <1>4, <2>2 DEF Before
    <3> QED
      BY <1>3, <3>1 DEF Reedits, Descends
  <2>3. CASE j # target
    <3>1. rs[j] = records[Before(p, target, j)]
      BY <1>4, <2>3
    <3> QED
      BY <1>0, <2>1, <3>1 DEF Descends
  <2> QED
    BY <2>2, <2>3
<1>9. Distinct(rs)
  <2> SUFFICES ASSUME NEW i \in 1..N, NEW j \in 1..N, rs[i].id = rs[j].id
               PROVE  i = j
    BY <1>7 DEF Distinct
  <2>1. records[Before(p, target, i)].id = records[Before(p, target, j)].id
    BY <1>8
  <2>2. Before(p, target, i) = Before(p, target, j)
    <3> DEFINE a == Before(p, target, i)
               b == Before(p, target, j)
    <3>1. a \in DOMAIN records /\ b \in DOMAIN records
      BY <1>0, <1>6 DEF Rearranges
    <3>2. records[a].id = records[b].id
      BY <2>1
    <3> HIDE DEF a, b
    <3>3. a = b
      BY <1>0, <3>1, <3>2 DEF Distinct
    <3> QED
      BY <3>3 DEF a, b
  <2> QED
    BY <1>6, <2>2 DEF Rearranges
<1>10. Ids(rs) \subseteq Ids(records)
  <2> SUFFICES ASSUME NEW i \in 1..N PROVE rs[i].id \in Ids(records)
    BY <1>7 DEF Ids
  <2> DEFINE a == Before(p, target, i)
  <2>1. a \in DOMAIN records
    BY <1>0, <1>6 DEF Rearranges
  <2>2. rs[i].id = records[a].id
    BY <1>8
  <2> HIDE DEF a
  <2> QED
    BY <2>1, <2>2 DEF Ids
<1>11. next_id' = next_id
  BY DEF Move
<1>12. \A i \in DOMAIN rs :
          \E k \in DOMAIN records : Descends(rs[i], records[k])
  BY <1>0, <1>6, <1>7, <1>8 DEF Rearranges
<1>13. \A k \in DOMAIN records : \E i \in DOMAIN rs : rs[i].output = Old(k)
  <2> SUFFICES ASSUME NEW k \in 1..N PROVE \E i \in 1..N : rs[i].output = Old(k)
    BY <1>0, <1>7
  <2>1. PICK i \in 1..N : Before(p, target, i) = k
    BY <1>6 DEF Rearranges
  <2> QED
    BY <1>8, <2>1 DEF Old
<1>14. ASSUME NEW j \in DOMAIN rs
       PROVE  rs[j].state = "pending" \/ \E k \in DOMAIN records : rs[j] = records[k]
  <2>1. Before(p, target, j) \in DOMAIN records
    BY <1>0, <1>6, <1>7 DEF Rearranges
  <2> QED
    BY <1>3, <1>4, <1>7, <2>1 DEF Reedits
<1>15. Edits(rs)
  BY <1>0, <1>4, <1>7, <1>8, <1>9, <1>10, <1>11, <1>12, <1>13, <1>14 DEF Edits
<1> QED
  BY <1>5, <1>15 DEF Edited

LEMMA MarkedRecord ==
    ASSUME NEW r \in Record
    PROVE  LET q == [r EXCEPT !.state = "pending", !.fullReplay = TRUE]
           IN  /\ q \in Record /\ DefinedAs(q, r) /\ q.output = r.output /\ q.fullReplay
               /\ q.state = "pending"
BY DEF Record, DefinedAs

LEMMA RemoveEdits ==
    ASSUME FInv, NEW f \in Ids(records), Remove(f)
    PROVE  Edited
<1> DEFINE removed == {f} \cup Dependents(f)
           positions == {Position(records, g) : g \in removed}
           earliest == Earliest(positions)
           q == Dropped(records, removed)
           rs == MarkRemoval(q, earliest)
<1>0. /\ records \in Seq(Record) /\ Distinct(records)
      /\ \A i \in DOMAIN records : Ports(records[i])
      /\ next_id \in 1..(MaxFeatures + 1) /\ Ids(records) \subseteq 1..(next_id - 1)
  BY DEF FInv, WellOrdered, Distinct, Counted
<1>1. ApplyMutation(rs) /\ next_id' = next_id
  BY DEF Remove
<1>2. earliest \in Nat \ {0}
  <2>1. removed \subseteq Ids(records) /\ f \in removed
    BY <1>0, DependentsAmong
  <2>2. positions \subseteq DOMAIN records /\ positions # {}
    <3> HIDE DEF removed
    <3> QED
      BY <2>1, PositionIn
  <2>3. positions \in SUBSET Nat
    <3>1. DOMAIN records \subseteq Nat
      BY <1>0
    <3> HIDE DEF positions
    <3> QED
      BY <2>2, <3>1
  <2>4. earliest \in positions
    <3> HIDE DEF positions
    <3> QED
      BY <2>2, <2>3, EarliestMember
  <2> HIDE DEF earliest, positions
  <2> QED
    BY <1>0, <2>2, <2>4
<1> HIDE DEF earliest, removed
<1>3. /\ q \in Seq(Record) /\ Distinct(q)
      /\ \A j \in DOMAIN q : \E k \in DOMAIN records : q[j] = records[k]
  BY <1>0, DroppedSome
<1> HIDE DEF q
<1>4. CASE q = <<>>
  <2>1. rs = <<>>
    BY <1>4 DEF MarkRemoval
  <2>2. Edits(rs)
    BY <1>0, <1>1, <2>1 DEF Edits, Distinct, Ids
  <2> HIDE DEF rs
  <2> QED
    BY <1>1, <2>2 DEF Edited
<1>5. CASE q # <<>>
  <2> DEFINE k == IF earliest <= Len(q) THEN earliest ELSE Len(q)
             r == [q[k] EXCEPT !.state = "pending", !.fullReplay = TRUE]
  <2>1. rs = [q EXCEPT ![k] = r]
    BY <1>5 DEF MarkRemoval
  <2>2. k \in DOMAIN q /\ q[k] \in Record
    BY <1>2, <1>3, <1>5
  <2>3. /\ r \in Record /\ DefinedAs(r, q[k]) /\ r.output = q[k].output /\ r.fullReplay
        /\ r.state = "pending"
    <3> HIDE DEF k
    <3> QED
      BY <2>2, MarkedRecord
  <2> HIDE DEF rs, k, r
  <2>4. /\ rs \in Seq(Record) /\ DOMAIN rs = DOMAIN q /\ rs[k] = r
        /\ \A i \in DOMAIN q : i # k => rs[i] = q[i]
    BY <1>3, <2>1, <2>2, <2>3
  <2>5. \A i \in DOMAIN q : DefinedAs(rs[i], q[i]) /\ rs[i].output = q[i].output
    BY <2>3, <2>4 DEF DefinedAs
  <2>6. Marked(rs)
    BY <2>2, <2>3, <2>4 DEF Marked
  <2>7. Distinct(rs)
    BY <1>3, <2>4, <2>5 DEF Distinct, DefinedAs
  <2>8. ASSUME NEW i \in DOMAIN rs
        PROVE  /\ Ports(rs[i]) /\ rs[i].id \in Ids(records)
               /\ \E j \in DOMAIN records : Descends(rs[i], records[j])
    <3>1. PICK j \in DOMAIN records : q[i] = records[j]
      BY <1>3, <2>4
    <3>2. DefinedAs(rs[i], records[j]) /\ rs[i].output = records[j].output
      BY <2>4, <2>5, <3>1
    <3> QED
      BY <1>0, <3>2 DEF DefinedAs, Ports, Ids, Descends
  <2>9. Ids(rs) \subseteq 1..(next_id' - 1)
    <3>1. Ids(rs) \subseteq Ids(records)
      BY <2>8 DEF Ids
    <3> QED
      BY <1>0, <1>1, <3>1
  <2>10. \A i \in DOMAIN rs :
             rs[i].state = "pending" \/ \E j \in DOMAIN records : rs[i] = records[j]
    BY <1>3, <2>3, <2>4
  <2>11. Edits(rs)
    BY <1>0, <1>1, <2>4, <2>6, <2>7, <2>8, <2>9, <2>10 DEF Edits
  <2>12. ApplyMutation(rs)
    BY <1>1
  <2> QED
    BY <2>11, <2>12 DEF Edited
<1> QED
  BY <1>4, <1>5

LEMMA CaptureKeeps ==
    ASSUME FInv, CaptureBaseline
    PROVE  FInv'
<1>1. /\ baseline = NoBaseline /\ baseline' = geometry /\ report' = "none"
      /\ records' = records /\ next_id' = next_id /\ geometry' = geometry
      /\ edits' = edits /\ suspects' = suspects
  BY DEF CaptureBaseline
<1>2. Sound(geometry) /\ geometry.next \in Nat
  BY DEF FInv, Sound
<1>3. BaselineKept'
  BY <1>1, <1>2 DEF BaselineKept
<1>4. NoOrphans'
  <2> SUFFICES ASSUME "mark" \notin suspects, ~Marked(records), geometry \in {NoBaseline, Empty}
               PROVE  Live(geometry) = Owned
    BY <1>1 DEF NoOrphans, Owned, Outputs
  <2> QED
    BY <1>1 DEF FInv, NoOrphans
<1>5. Counted'
  BY <1>1 DEF FInv, Counted
<1> QED
  BY <1>1, <1>3, <1>4, <1>5 DEF FInv

-----------------------------------------------------------------------------
(* Regenerating *)

Fails == \E why \in {"feature", "shared", "lineage"} : Failed(why)

LEMMA FailureKeeps ==
    ASSUME FInv, Fails, next_id' = next_id, edits' = edits
    PROVE  FInv'
<1>1. /\ report' \in {"feature", "shared", "lineage"} /\ records' = records
      /\ geometry' = geometry /\ baseline' = baseline /\ suspects' = suspects
  BY DEF Fails, Failed
<1>2. Counted'
  BY <1>1 DEF FInv, Counted
<1>3. BaselineKept' /\ NoOrphans'
  BY <1>1 DEF FInv, BaselineKept, NoOrphans, Owned, Outputs
<1> QED
  BY <1>1, <1>2, <1>3 DEF FInv

(* A replay leaves the records well ordered. *)
LEMMA ReplayedOrder ==
    ASSUME WellOrdered(records), NEW rs, SameDefinitions(rs, records)
    PROVE  WellOrdered(rs) /\ Ids(rs) = Ids(records) /\ DOMAIN rs = DOMAIN records
<1>1. /\ rs \in Seq(Record) /\ records \in Seq(Record)
      /\ DOMAIN rs = 1..Len(records) /\ DOMAIN records = 1..Len(records)
      /\ \A i \in DOMAIN records : DefinedAs(rs[i], records[i])
  BY DEF SameDefinitions, WellOrdered
<1>2. \A i \in DOMAIN rs : Ports(rs[i])
  BY <1>1 DEF WellOrdered, Ports, DefinedAs
<1>3. \A i, j \in DOMAIN rs : rs[i].id = rs[j].id => i = j
  BY <1>1 DEF WellOrdered, DefinedAs
<1>4. Ids(rs) = Ids(records)
  BY <1>1 DEF Ids, DefinedAs
<1>5. Valid(rs)
  <2> SUFFICES ASSUME NEW i \in DOMAIN rs
               PROVE  DependenciesOf(rs[i]) \subseteq {rs[j].id : j \in 1..(i - 1)}
    BY DEF Valid
  <2>1. DependenciesOf(rs[i]) = DependenciesOf(records[i])
    BY <1>1 DEF DependenciesOf, DefinedAs
  <2>2. DependenciesOf(records[i]) \subseteq {records[j].id : j \in 1..(i - 1)}
    BY <1>1 DEF WellOrdered, Valid
  <2>3. \A j \in 1..(i - 1) : j \in DOMAIN records /\ rs[j].id = records[j].id
    BY <1>1 DEF DefinedAs
  <2> QED
    BY <2>1, <2>2, <2>3
<1> QED
  BY <1>1, <1>2, <1>3, <1>4, <1>5 DEF WellOrdered

(* What an incremental replay s, with transitions t, publishes: all that   *)
(* its outputs stand on, and nothing else of what it was to remove.        *)
IncrementPublished(s, t) ==
    LET kept == Kept(s.records, s.work)
    IN  /\ records' = s.records /\ baseline' = baseline
        /\ suspects \subseteq suspects' /\ suspects' \subseteq suspects \cup {"prefix"}
        /\ t.ok
        /\ Sound(geometry') /\ ValidHistory(geometry')
        /\ geometry'.next = s.work.next
        /\ Live(geometry') \subseteq Live(s.work)
        /\ kept \cap Live(s.work) \subseteq Live(geometry')
        /\ (s.discard \cup s.retire) \cap Live(geometry') \subseteq kept
        /\ \A e \in Live(geometry') : geometry'.ents[e] = s.work.ents[e]
        /\ geometry'.hist = Merged(s.work.hist, Entries(s, t))

LEMMA ConcludeEffect ==
    ASSUME NEW s, Sound(s.work), NEW t, NEW start,
           DOMAIN Entries(s, t) \subseteq 1..(s.work.next - 1),
           Conclude(s, t, Kept(s.records, s.work), start)
    PROVE  Fails \/ (s.ok /\ report' = "ok" /\ IncrementPublished(s, t))
<1> DEFINE kept == Kept(s.records, s.work)
           discard == Disposable(s.discard, kept)
           retire == Disposable(s.retire, kept)
           once == RemoveExact(s.work, discard)
           trimmed == Trimmed(s.work, discard, retire)
           entries == Entries(s, t)
<1> HIDE DEF kept
<1>1. CASE ~s.ok
  BY <1>1 DEF Conclude, Fails
<1>2. CASE s.ok /\ t.ok /\ SharedConflict(t.map, kept)
  BY <1>2 DEF Conclude, Fails, kept
<1>3. CASE s.ok /\ ~(t.ok /\ SharedConflict(t.map, kept))
  <2>1. CASE /\ t.ok /\ RecordedBefore(s, t)
             /\ Trimmable(s.work, discard, retire)
             /\ Recordable(trimmed, entries)
    <3>1. /\ Published(s.records, Recorded(trimmed, entries))
          /\ suspects' = suspects \cup StartsBelow(start)
          /\ UNCHANGED baseline
      BY <1>3, <2>1 DEF Conclude, kept
    <3>2. trimmed = RemoveExact(once, retire)
      BY DEF Trimmed
    <3>3. Removable(s.work, discard) /\ Removable(once, retire)
      BY <2>1 DEF Trimmable
    <3>4. /\ discard = s.discard \ kept /\ retire = s.retire \ kept
      BY DEF Disposable
    <3> HIDE DEF discard, retire
    <3>5. /\ Sound(once) /\ Live(once) = Live(s.work) \ discard
          /\ once.hist = s.work.hist /\ once.next = s.work.next
          /\ \A e \in Live(s.work) \ discard : once.ents[e] = s.work.ents[e]
      BY <3>3, RemoveEffect
    <3> HIDE DEF once
    <3>6. /\ Sound(trimmed) /\ Live(trimmed) = Live(once) \ retire
          /\ trimmed.hist = once.hist /\ trimmed.next = once.next
          /\ \A e \in Live(once) \ retire : trimmed.ents[e] = once.ents[e]
      BY <3>2, <3>3, <3>5, RemoveEffect
    <3> HIDE DEF trimmed, entries
    <3>7. DOMAIN entries \subseteq 1..(trimmed.next - 1)
      BY <3>5, <3>6 DEF entries
    <3>8. /\ Sound(Recorded(trimmed, entries)) /\ ValidHistory(Recorded(trimmed, entries))
          /\ Recorded(trimmed, entries).ents = trimmed.ents
          /\ Recorded(trimmed, entries).next = trimmed.next
          /\ Recorded(trimmed, entries).hist = Merged(trimmed.hist, entries)
      BY <2>1, <3>6, <3>7, RecordedEffect
    <3>9. records' = s.records /\ geometry' = Recorded(trimmed, entries) /\ report' = "ok"
      BY <3>1 DEF Published
    <3>10. /\ Sound(geometry') /\ ValidHistory(geometry')
           /\ geometry'.next = s.work.next
           /\ Live(geometry') = (Live(s.work) \ discard) \ retire
           /\ geometry'.hist = Merged(s.work.hist, entries)
      BY <3>5, <3>6, <3>8, <3>9 DEF Live
    <3>11. \A e \in Live(geometry') : geometry'.ents[e] = s.work.ents[e]
      BY <3>5, <3>6, <3>8, <3>9, <3>10
    <3>12. suspects \subseteq suspects' /\ suspects' \subseteq suspects \cup {"prefix"}
      BY <3>1 DEF StartsBelow
    <3>13. IncrementPublished(s, t)
      BY <2>1, <3>1, <3>4, <3>9, <3>10, <3>11, <3>12 DEF IncrementPublished, kept, entries
    <3> QED
      BY <1>3, <3>9, <3>13
  <2>2. CASE ~(/\ t.ok /\ RecordedBefore(s, t)
               /\ Trimmable(s.work, discard, retire)
               /\ Recordable(trimmed, entries))
    <3>1. Failed("lineage")
      BY <1>3, <2>2 DEF Conclude, kept
    <3> QED
      BY <3>1 DEF Fails
  <2> QED
    BY <2>1, <2>2
<1> QED
  BY <1>1, <1>2, <1>3

Increment(s, t, start, forceNew) ==
    /\ report' = "ok"
    /\ Incremental(s, start, Len(records), forceNew) /\ Owns(s.records, s.work)
    /\ Led(t, s.records, Len(records))
    /\ IncrementPublished(s, t)

LEMMA IncrementEffect ==
    ASSUME FInv, NEW start \in 1..(Len(records) + 1), NEW forceNew \in BOOLEAN,
           ForcedBy(start, forceNew), RegenerateIncremental(start, forceNew)
    PROVE  Fails \/ \E s, t : Increment(s, t, start, forceNew)
<1> DEFINE s == IncrementalReplay(start, forceNew)
           t == Transitions(s.records, s.work)
<1>0. Replayable /\ Owns(records, geometry)
  BY DEF FInv, Replayable
<1>1. Conclude(s, t, Kept(s.records, s.work), start)
  BY DEF RegenerateIncremental, Replace
<1>2. s = IncrementalReplay(start, forceNew) /\ t = Transitions(s.records, s.work)
  OBVIOUS
<1> HIDE DEF s, t
<1>3. CASE ~s.ok
  BY <1>1, <1>3 DEF Conclude, Fails
<1>4. CASE s.ok
  <2>1. Incremental(s, start, Len(records), forceNew) /\ Owns(s.records, s.work)
    BY <1>0, <1>2, <1>4, IncrementalProgress DEF Progress
  <2>2. /\ SameDefinitions(s.records, records) /\ Grown(geometry, s.work)
        /\ Rooted(s.records, s.work)
        /\ \A e \in DOMAIN s.roles.map : e \in 1..(s.work.next - 1)
    BY <2>1 DEF Incremental
  <2>3. Sound(geometry)
    BY DEF FInv
  <2>4. /\ Sound(s.work) /\ s.work.hist = geometry.hist
        /\ geometry.next <= s.work.next /\ s.work.next \in Nat /\ geometry.next \in Nat
    BY <2>2, <2>3 DEF Grown, Sound
  <2>5. DOMAIN s.work.hist \cap Live(geometry) = {}
    BY <2>3, <2>4 DEF Sound
  <2>6. Led(t, s.records, Len(records))
    BY <1>0, <1>2, <2>2, <2>4, <2>5, TransitionsEnd
  <2>7. DOMAIN Entries(s, t) \subseteq 1..(s.work.next - 1)
    <3>1. DOMAIN t.map \subseteq 1..(geometry.next - 1)
      BY <2>3, <2>6 DEF Led, Sound
    <3>2. DOMAIN Entries(s, t) \subseteq DOMAIN s.roles.map \cup DOMAIN t.map
      BY DEF Entries, Merged
    <3> QED
      BY <2>2, <2>4, <3>1, <3>2
  <2>8. Fails \/ (report' = "ok" /\ IncrementPublished(s, t))
    BY <1>1, <2>4, <2>7, ConcludeEffect
  <2> QED
    BY <2>1, <2>6, <2>8 DEF Increment
<1> QED
  BY <1>3, <1>4

(* What a full replay s from base, with transitions t, publishes. *)
FullPublished(s, t, base) ==
    /\ report' = "ok"
    /\ Full(s, records, Reserved(base, geometry.next), Len(records))
    /\ Owns(s.records, s.work)
    /\ Led(t, s.records, Len(records)) /\ t.ok
    /\ records' = s.records /\ baseline' = base /\ suspects' = {}
    /\ Sound(geometry') /\ ValidHistory(geometry')
    /\ geometry'.next = s.work.next /\ geometry'.ents = s.work.ents
    /\ geometry'.hist = Merged(s.work.hist, Merged(geometry.hist, t.map))

(* The geometry a full replay starts from. *)
Base == IF baseline = NoBaseline THEN geometry ELSE baseline

Earlier(base) ==
    /\ Sound(base) /\ base.next <= geometry.next
    /\ DOMAIN base.hist \subseteq DOMAIN geometry.hist
    /\ \A e \in Live(base) \cap Live(geometry) :
           Unmoved(geometry.ents[e]) = Unmoved(base.ents[e])

LEMMA BaseEarlier ==
    ASSUME FInv
    PROVE  Earlier(Base)
<1>1. Sound(geometry) /\ geometry.next \in Nat
  BY DEF FInv, Sound
<1>2. CASE baseline = NoBaseline
  BY <1>1, <1>2 DEF Base, Earlier
<1>3. CASE baseline # NoBaseline
  BY <1>3 DEF FInv, BaselineKept, Base, Earlier
<1> QED
  BY <1>2, <1>3

LEMMA FullEffect ==
    ASSUME FInv, RegenerateFully
    PROVE  Fails \/ \E s, t : FullPublished(s, t, Base)
<1> DEFINE s == FullReplay(records, Base, geometry.next)
           t == Transitions(s.records, s.work)
           entries == Merged(geometry.hist, t.map)
<1>0. Replayable /\ WellOrdered(records) /\ Sound(geometry)
  BY DEF FInv, Replayable
<1>1. ReplaceAll(s, Base)
  BY DEF RegenerateFully, Base
<1>2. s = FullReplay(records, Base, geometry.next) /\ t = Transitions(s.records, s.work)
  OBVIOUS
<1>3. CASE ~s.ok
  BY <1>1, <1>3 DEF ReplaceAll, Fails
<1>4. CASE s.ok
  <2>1. IF t.ok /\ Recordable(s.work, entries)
        THEN /\ Published(s.records, Recorded(s.work, entries))
             /\ baseline' = Base
             /\ suspects' = {}
        ELSE Failed("lineage")
    BY <1>1, <1>4 DEF ReplaceAll
  <2> HIDE DEF s, t
  <2>2. /\ Sound(Base) /\ Base.next <= geometry.next
        /\ DOMAIN Base.hist \subseteq DOMAIN geometry.hist
        /\ geometry.next \in Nat
    BY <1>0, BaseEarlier DEF Earlier, Sound
  <2> DEFINE first == Reserved(Base, geometry.next)
  <2>3. Full(s, records, first, Len(records)) /\ Owns(s.records, s.work)
    <3> HIDE DEF first
    <3> QED
      BY <1>0, <1>2, <1>4, <2>2, FullProgresses DEF first, FullProgress
  <2>4. /\ Sound(first) /\ first.hist = Base.hist
        /\ first.next >= geometry.next /\ first.next \in Nat
    BY <2>2, ReservedEffect
  <2> HIDE DEF first
  <2>5. /\ SameDefinitions(s.records, records) /\ Grown(first, s.work)
        /\ Rooted(s.records, s.work)
    BY <2>3 DEF Full
  <2>6. /\ Sound(s.work) /\ s.work.hist = Base.hist
        /\ geometry.next <= s.work.next /\ s.work.next \in Nat
    BY <2>2, <2>4, <2>5 DEF Grown, Sound
  <2>7. DOMAIN s.work.hist \cap Live(geometry) = {}
    BY <1>0, <2>2, <2>6 DEF Sound
  <2>8. Led(t, s.records, Len(records))
    BY <1>0, <1>2, <2>5, <2>6, <2>7, TransitionsEnd
  <2>9. CASE t.ok /\ Recordable(s.work, entries)
    <3>1. DOMAIN t.map \subseteq 1..(geometry.next - 1)
      BY <1>0, <2>8 DEF Led, Sound
    <3>2. DOMAIN entries \subseteq DOMAIN geometry.hist \cup DOMAIN t.map
      BY DEF Merged
    <3>3. DOMAIN entries \subseteq 1..(s.work.next - 1)
      BY <1>0, <2>2, <2>6, <3>1, <3>2 DEF Sound
    <3>4. geometry' = Recorded(s.work, entries) /\ records' = s.records /\ report' = "ok"
      BY <2>1, <2>9 DEF Published
    <3> HIDE DEF entries
    <3>5. /\ Sound(geometry') /\ ValidHistory(geometry')
          /\ geometry'.ents = s.work.ents /\ geometry'.next = s.work.next
          /\ geometry'.hist = Merged(s.work.hist, entries)
      BY <2>6, <2>9, <3>3, <3>4, RecordedEffect
    <3>6. FullPublished(s, t, Base)
      BY <2>1, <2>3, <2>8, <2>9, <3>4, <3>5 DEF FullPublished, first, entries
    <3> QED
      BY <3>6
  <2>10. CASE ~(t.ok /\ Recordable(s.work, entries))
    BY <2>1, <2>10 DEF Fails
  <2> QED
    BY <2>9, <2>10
<1> QED
  BY <1>3, <1>4

(* What a regeneration comes to. *)
Incremented ==
    /\ ~Marked(records)
    /\ \E start \in 1..(Len(records) + 1) : \E forceNew, s, t :
           /\ \A i \in 1..(start - 1) : i \notin Dirty(records)
           /\ ForcedBy(start, forceNew)
           /\ Increment(s, t, start, forceNew)

Restarted ==
    /\ Marked(records) \/ \E start \in 1..(Len(records) + 1) : Modifiers(start) # {}
    /\ \E s, t : FullPublished(s, t, Base)

NothingToDo ==
    /\ Dirty(records) = {}
    /\ report' = "ok"
    /\ UNCHANGED <<records, geometry, baseline, suspects>>

(* A regeneration has nothing to do, starts over, or replays from a record *)
(* before which all are clean.                                             *)
RegeneratesFully ==
    /\ Marked(records) \/ \E start \in 1..(Len(records) + 1) : Modifiers(start) # {}
    /\ RegenerateFully

RegeneratesFrom(start) ==
    /\ ~Marked(records)
    /\ \A i \in 1..(start - 1) : i \notin Dirty(records)
    /\ \E forceNew \in BOOLEAN :
           ForcedBy(start, forceNew) /\ RegenerateIncremental(start, forceNew)

LEMMA RegenerateChoices ==
    ASSUME FInv, Regenerate
    PROVE  \/ NothingToDo \/ RegeneratesFully
           \/ \E start \in 1..(Len(records) + 1) : RegeneratesFrom(start)
<1> DEFINE dirty == Dirty(records)
           first == IF dirty = {} THEN 1 ELSE Earliest(dirty)
           start == IncrementalStart(first)
           forceNew == Modifiers(start) # {}
<1>0. WellOrdered(records) /\ records \in Seq(Record) /\ Len(records) \in Nat
  BY DEF FInv, WellOrdered
<1>1. \/ NothingToDo
      \/ RegenerateFrom(start, forceNew)
  BY DEF Regenerate, NothingToDo
<1>2. first \in 1..(Len(records) + 1)
  <2>1. dirty \in SUBSET (1..Len(records)) /\ dirty \in SUBSET Nat
    <3>1. DOMAIN records = 1..Len(records) /\ 1..Len(records) \in SUBSET Nat
      BY <1>0
    <3> QED
      BY <3>1 DEF Dirty
  <2> HIDE DEF dirty
  <2>2. dirty # {} => Earliest(dirty) \in dirty
    BY <2>1, EarliestMember
  <2>3. \A i \in dirty : i \in 1..(Len(records) + 1)
    BY <1>0, <2>1
  <2>4. 1 \in 1..(Len(records) + 1)
    BY <1>0
  <2>5. CASE dirty = {}
    BY <2>4, <2>5
  <2>6. CASE dirty # {}
    BY <2>2, <2>3, <2>6
  <2> QED
    BY <2>5, <2>6
<1> HIDE DEF first
<1>3. start \in 1..(Len(records) + 1) /\ start \in 1..first
  <2>1. start \in 1..first
    BY <1>0, <1>2, StartInRange
  <2> HIDE DEF start
  <2> QED
    BY <1>0, <1>2, <2>1
<1>4. \A i \in 1..(start - 1) : i \notin dirty
  <2>1. \A i \in dirty : first <= i
    <3>1. dirty \in SUBSET Nat
      BY <1>0 DEF Dirty
    <3> HIDE DEF dirty
    <3> QED
      BY <3>1, EarliestMember DEF first
  <2>2. dirty \in SUBSET Nat
    BY <1>0 DEF Dirty
  <2> HIDE DEF start, dirty
  <2> QED
    BY <1>0, <1>2, <1>3, <2>1, <2>2
<1> HIDE DEF start
<1>5. ForcedBy(start, forceNew)
  BY DEF ForcedBy
<1>6. CASE NothingToDo
  BY <1>6
<1>7. CASE RegenerateFrom(start, forceNew)
  <2>1. CASE Marked(records) \/ (start = 1 /\ forceNew)
    <3>1. RegenerateFully
      BY <1>7, <2>1 DEF RegenerateFrom
    <3>2. Marked(records) \/ \E k \in 1..(Len(records) + 1) : Modifiers(k) # {}
      BY <1>3, <2>1
    <3> QED
      BY <3>1, <3>2 DEF RegeneratesFully
  <2>2. CASE ~(Marked(records) \/ (start = 1 /\ forceNew))
    <3>1. RegenerateIncremental(start, forceNew)
      BY <1>7, <2>2 DEF RegenerateFrom
    <3>2. forceNew \in BOOLEAN
      OBVIOUS
    <3> HIDE DEF forceNew
    <3>3. RegeneratesFrom(start)
      BY <1>4, <1>5, <2>2, <3>1, <3>2 DEF RegeneratesFrom
    <3> QED
      BY <1>3, <3>3
  <2> QED
    BY <2>1, <2>2
<1> QED
  BY <1>1, <1>6, <1>7

LEMMA RegenerateCases ==
    ASSUME FInv, Regenerate
    PROVE  NothingToDo \/ Fails \/ Incremented \/ Restarted
<1>1. CASE NothingToDo
  BY <1>1
<1>2. CASE RegeneratesFully
  <2>1. Fails \/ \E s, t : FullPublished(s, t, Base)
    BY <1>2, FullEffect DEF RegeneratesFully
  <2> QED
    BY <1>2, <2>1 DEF RegeneratesFully, Restarted
<1>3. ASSUME NEW start \in 1..(Len(records) + 1), RegeneratesFrom(start)
      PROVE  Fails \/ Incremented
  <2>1. PICK forceNew \in BOOLEAN :
            ForcedBy(start, forceNew) /\ RegenerateIncremental(start, forceNew)
    BY <1>3 DEF RegeneratesFrom
  <2>2. Fails \/ \E s, t : Increment(s, t, start, forceNew)
    BY <2>1, IncrementEffect
  <2> QED
    BY <1>3, <2>1, <2>2 DEF RegeneratesFrom, Incremented
<1> QED
  BY <1>1, <1>2, <1>3, RegenerateChoices

(* Tips do not change while an entity lives. *)
LEMMA TipsUnmoved ==
    ASSUME NEW g, Sound(g), NEW h, Sound(h), NEW e \in Live(g) \cap Live(h),
           Unmoved(g.ents[e]) = Unmoved(h.ents[e])
    PROVE  Tips(g, e) = Tips(h, e)
<1> DEFINE x == g.ents[e]
           y == h.ents[e]
<1>1. Entity(x) /\ Entity(y) /\ Unmoved(x) = Unmoved(y)
  BY DEF Sound
<1>2. /\ Tips(g, e) = IF x.kind = "edge" THEN {x.from, x.to} ELSE {}
      /\ Tips(h, e) = IF y.kind = "edge" THEN {y.from, y.to} ELSE {}
  BY DEF Tips, IsEdge
<1> HIDE DEF x, y
<1>3. x.kind \in {"vertex", "edge"} /\ y.kind \in {"vertex", "edge"}
  BY <1>1, EntityKinds
<1>4. /\ x.kind = "vertex" => Unmoved(x).kind = "vertex"
      /\ y.kind = "vertex" => Unmoved(y).kind = "vertex"
      /\ x.kind = "edge" => Unmoved(x) = x
      /\ y.kind = "edge" => Unmoved(y) = y
  BY EntityForms DEF Unmoved
<1>5. CASE x.kind = "edge" /\ y.kind = "edge"
  BY <1>1, <1>2, <1>4, <1>5
<1>6. CASE x.kind = "vertex" /\ y.kind = "vertex"
  BY <1>2, <1>6
<1>7. ~(x.kind = "edge" /\ y.kind = "vertex") /\ ~(x.kind = "vertex" /\ y.kind = "edge")
  BY <1>1, <1>4
<1> QED
  BY <1>3, <1>5, <1>6, <1>7

(* All that is published is what the outputs stand on. *)
LEMMA IncrementOwned ==
    ASSUME FInv, Live(geometry) = Owned,
           NEW start \in 1..(Len(records) + 1), NEW forceNew, NEW s, NEW t,
           Increment(s, t, start, forceNew)
    PROVE  Live(geometry') \subseteq Kept(s.records, s.work)
<1> DEFINE kept == Kept(s.records, s.work)
           outs == {s.records[i].output : i \in DOMAIN s.records} \ {NoOutput}
<1>0. /\ Sound(geometry) /\ Rooted(records, geometry) /\ WellOrdered(records)
      /\ records \in Seq(Record)
  BY DEF FInv, WellOrdered
<1>1. /\ SameDefinitions(s.records, records) /\ Grown(geometry, s.work)
      /\ Rooted(s.records, s.work)
      /\ \A e \in Live(s.work) \ Live(geometry) :
             e \in s.discard \/ \E i \in 1..Len(records) : s.records[i].output = e
      /\ \A i \in 1..Len(records) :
             Old(i) # NoOutput =>
                 s.records[i].output = Old(i) \/ Closure(geometry, {Old(i)}) \subseteq s.retire
  BY DEF Increment, Incremental
<1>2. /\ DOMAIN s.records = 1..Len(records) /\ DOMAIN records = 1..Len(records)
      /\ Sound(s.work) /\ Live(geometry) \subseteq Live(s.work)
  BY <1>0, <1>1 DEF SameDefinitions, Grown
<1>3. /\ Live(geometry') \subseteq Live(s.work)
      /\ (s.discard \cup s.retire) \cap Live(geometry') \subseteq kept
  BY DEF Increment, IncrementPublished
<1>4. outs \subseteq Live(s.work) /\ kept = Closure(s.work, outs)
  BY <1>1 DEF Rooted, Kept
<1>5. kept = outs \cup UNION {Tips(s.work, e) : e \in outs}
  <2> HIDE DEF outs, kept
  <2> QED
    BY <1>2, <1>4, ClosureOfLive
<1>6. ASSUME NEW e \in Live(geometry'), e \notin Live(geometry) PROVE e \in kept
  <2>1. e \in s.discard \/ \E i \in 1..Len(records) : s.records[i].output = e
    BY <1>1, <1>3, <1>6
  <2>2. ASSUME NEW i \in 1..Len(records), s.records[i].output = e PROVE e \in kept
    <3>1. e # NoOutput
      BY <1>2, <1>3, <2>2 DEF Sound, NoOutput
    <3>2. e \in outs
      BY <1>2, <2>2, <3>1
    <3> QED
      BY <1>5, <3>2
  <2> HIDE DEF kept
  <2> QED
    BY <1>3, <2>1, <2>2
<1>7. ASSUME NEW e \in Live(geometry'), e \in Live(geometry) PROVE e \in kept
  <2> DEFINE before == Outputs
  <2>1. before \subseteq Live(geometry)
    BY <1>0 DEF Outputs, Rooted
  <2>2. e \in Closure(geometry, before)
    BY <1>7 DEF Owned
  <2>3. \A o \in before : \E i \in 1..Len(records) : o = Old(i) /\ Old(i) # NoOutput
    BY <1>2 DEF Outputs, Old
  <2> HIDE DEF before
  <2>4. Closure(geometry, before) = before \cup UNION {Tips(geometry, x) : x \in before}
    BY <1>0, <2>1, ClosureOfLive
  <2>5. PICK o \in before : e \in {o} \cup Tips(geometry, o)
    BY <2>2, <2>4
  <2>6. PICK i \in 1..Len(records) : o = Old(i) /\ Old(i) # NoOutput
    BY <2>3
  <2>7. CASE s.records[i].output = Old(i)
    <3>1. o \in outs
      BY <1>2, <2>6, <2>7
    <3>2. o \in Live(geometry) \cap Live(s.work)
      BY <1>2, <2>1
    <3>3. Unmoved(s.work.ents[o]) = Unmoved(geometry.ents[o])
      BY <1>1, <3>2 DEF Grown
    <3>4. Tips(s.work, o) = Tips(geometry, o)
      BY <1>0, <1>2, <3>2, <3>3, TipsUnmoved
    <3> HIDE DEF outs, kept
    <3> QED
      BY <1>5, <2>5, <3>1, <3>4
  <2>8. CASE Closure(geometry, {Old(i)}) \subseteq s.retire
    <3>1. Closure(geometry, {o}) = {o} \cup UNION {Tips(geometry, x) : x \in {o}}
      <4> DEFINE S == {o}
      <4>1. S \subseteq Live(geometry)
        BY <2>1
      <4> HIDE DEF S
      <4>2. Closure(geometry, S) = S \cup UNION {Tips(geometry, x) : x \in S}
        BY <1>0, <4>1, ClosureOfLive
      <4> QED
        BY <4>2 DEF S
    <3>2. e \in s.retire
      BY <2>5, <2>6, <2>8, <3>1
    <3> HIDE DEF kept
    <3> QED
      BY <1>3, <1>7, <3>2
  <2> QED
    BY <1>1, <2>6, <2>7, <2>8
<1> QED
  BY <1>6, <1>7

LEMMA OwnsKept ==
    ASSUME NEW rs, NEW w, Owns(rs, w), NEW g, Rooted(rs, g),
           \A e \in Live(g) : g.ents[e] = w.ents[e]
    PROVE  Owns(rs, g)
<1>1. ASSUME NEW i \in DOMAIN rs, Makes(rs[i])
      PROVE  IsEdge(g, rs[i].output) <=> rs[i].kind = "line"
  <2>1. g.ents[rs[i].output] = w.ents[rs[i].output]
    BY <1>1 DEF Makes, Rooted
  <2> QED
    BY <1>1, <2>1 DEF Owns, IsEdge
<1> QED
  BY <1>1 DEF Owns

LEMMA IncrementKeeps ==
    ASSUME FInv, ~Marked(records), next_id' = next_id, edits' = edits,
           NEW start \in 1..(Len(records) + 1), NEW forceNew, NEW s, NEW t,
           Increment(s, t, start, forceNew)
    PROVE  FInv'
<1> DEFINE kept == Kept(s.records, s.work)
           outs == {s.records[i].output : i \in DOMAIN s.records} \ {NoOutput}
<1>0. /\ Sound(geometry) /\ WellOrdered(records) /\ geometry.next \in Nat
  BY DEF FInv, Sound
<1>1. /\ SameDefinitions(s.records, records) /\ Grown(geometry, s.work)
      /\ Rooted(s.records, s.work) /\ Owns(s.records, s.work)
  BY DEF Increment, Incremental
<1>2. /\ records' = s.records /\ baseline' = baseline /\ report' = "ok"
      /\ suspects \subseteq suspects' /\ suspects' \subseteq suspects \cup {"prefix"}
      /\ Sound(geometry') /\ ValidHistory(geometry')
      /\ geometry'.next = s.work.next
      /\ Live(geometry') \subseteq Live(s.work)
      /\ kept \cap Live(s.work) \subseteq Live(geometry')
      /\ \A e \in Live(geometry') : geometry'.ents[e] = s.work.ents[e]
      /\ geometry'.hist = Merged(s.work.hist, Entries(s, t))
  BY DEF Increment, IncrementPublished
<1>3. /\ Sound(s.work) /\ s.work.hist = geometry.hist /\ geometry.next <= s.work.next
      /\ s.work.next \in Nat
      /\ \A e \in Live(s.work) : e \in Live(geometry) \/ e >= geometry.next
      /\ \A e \in Live(geometry) : Unmoved(s.work.ents[e]) = Unmoved(geometry.ents[e])
  BY <1>1 DEF Grown, Sound
<1>4. WellOrdered(records') /\ Counted'
  <2>1. WellOrdered(s.records) /\ Ids(s.records) = Ids(records)
    BY <1>0, <1>1, ReplayedOrder
  <2>2. Ids(records)' = Ids(records)
    BY <1>2, <2>1 DEF Ids
  <2> QED
    BY <1>2, <2>1, <2>2 DEF FInv, Counted
<1>5. outs \subseteq Live(geometry') /\ kept = Closure(s.work, outs)
  <2>1. outs \subseteq Live(s.work) /\ kept = Closure(s.work, outs)
    BY <1>1 DEF Rooted, Kept
  <2>2. \A e \in outs \cap Live(s.work) : {e} \cup Tips(s.work, e) \subseteq Closure(s.work, outs)
    <3> HIDE DEF outs
    <3> QED
      BY <1>3, ClosureLive
  <2> HIDE DEF outs, kept
  <2> QED
    BY <1>2, <2>1, <2>2
<1>6. Rooted(records', geometry') /\ Owns(records', geometry')
  <2>1. Rooted(records', geometry')
    BY <1>2, <1>5 DEF Rooted
  <2> QED
    BY <1>1, <1>2, <2>1, OwnsKept
<1>7. BaselineKept'
  <2> SUFFICES ASSUME baseline # NoBaseline
               PROVE  /\ Sound(baseline) /\ baseline.next <= geometry'.next
                      /\ DOMAIN baseline.hist \subseteq DOMAIN geometry'.hist
                      /\ \A e \in Live(baseline) \cap Live(geometry') :
                             Unmoved(geometry'.ents[e]) = Unmoved(baseline.ents[e])
    BY <1>2 DEF BaselineKept
  <2>1. /\ Sound(baseline) /\ baseline.next <= geometry.next
        /\ DOMAIN baseline.hist \subseteq DOMAIN geometry.hist
        /\ \A e \in Live(baseline) \cap Live(geometry) :
               Unmoved(geometry.ents[e]) = Unmoved(baseline.ents[e])
    BY DEF FInv, BaselineKept
  <2>2. baseline.next \in Nat /\ \A e \in Live(baseline) : e \in Nat /\ e < baseline.next
    BY <2>1 DEF Sound
  <2>3. baseline.next <= geometry'.next
    BY <1>0, <1>2, <1>3, <2>1, <2>2
  <2>4. DOMAIN baseline.hist \subseteq DOMAIN geometry'.hist
    BY <1>2, <1>3, <2>1 DEF Merged
  <2>5. ASSUME NEW e \in Live(baseline) \cap Live(geometry')
        PROVE  Unmoved(geometry'.ents[e]) = Unmoved(baseline.ents[e])
    <3>1. ~(e >= geometry.next) /\ e \in Live(s.work)
      BY <1>0, <1>2, <2>1, <2>2
    <3>2. e \in Live(geometry)
      BY <1>3, <3>1
    <3>3. geometry'.ents[e] = s.work.ents[e]
      BY <1>2
    <3>4. Unmoved(s.work.ents[e]) = Unmoved(geometry.ents[e])
      BY <1>3, <3>2
    <3> QED
      BY <2>1, <3>2, <3>3, <3>4
  <2> QED
    BY <2>1, <2>3, <2>4, <2>5
<1>8. NoOrphans'
  <2> SUFFICES ASSUME "mark" \notin suspects', baseline \in {NoBaseline, Empty}
               PROVE  Live(geometry') = Owned'
    BY <1>2 DEF NoOrphans
  <2>1. "mark" \notin suspects
    BY <1>2
  <2>2. Live(geometry) = Owned
    BY <2>1 DEF FInv, NoOrphans
  <2>3. Live(geometry') \subseteq kept
    BY <2>2, IncrementOwned
  <2>4. Owned' = Closure(geometry', outs)
    BY <1>2 DEF Owned, Outputs
  <2> HIDE DEF outs, kept
  <2>5. /\ Closure(geometry', outs) = outs \cup UNION {Tips(geometry', e) : e \in outs}
        /\ kept = outs \cup UNION {Tips(s.work, e) : e \in outs}
    BY <1>2, <1>3, <1>5, ClosureOfLive
  <2>6. \A e \in outs : Tips(geometry', e) = Tips(s.work, e)
    BY <1>2, <1>5 DEF Tips, IsEdge
  <2>7. Closure(geometry', outs) \subseteq Live(geometry')
    BY <1>2, ClosureLive
  <2>8. kept = Closure(geometry', outs)
    BY <2>5, <2>6
  <2> QED
    BY <2>3, <2>4, <2>7, <2>8
<1> QED
  BY <1>2, <1>4, <1>6, <1>7, <1>8 DEF FInv

LEMMA RestartKeeps ==
    ASSUME FInv, next_id' = next_id, edits' = edits, NEW s, NEW t,
           FullPublished(s, t, Base)
    PROVE  FInv'
<1> DEFINE first == Reserved(Base, geometry.next)
           outs == {s.records[i].output : i \in DOMAIN s.records} \ {NoOutput}
<1>0. /\ Sound(geometry) /\ WellOrdered(records) /\ geometry.next \in Nat
      /\ records \in Seq(Record)
  BY DEF FInv, Sound, WellOrdered
<1>1. /\ Sound(Base) /\ Base.next <= geometry.next
      /\ DOMAIN Base.hist \subseteq DOMAIN geometry.hist
  BY BaseEarlier DEF Earlier
<1>2. /\ SameDefinitions(s.records, records) /\ Grown(first, s.work)
      /\ Rooted(s.records, s.work) /\ Owns(s.records, s.work)
      /\ \A e \in Live(s.work) \ Live(first) :
             \E i \in 1..Len(records) : s.records[i].output = e
  BY DEF FullPublished, Full
<1>3. /\ records' = s.records /\ baseline' = Base /\ report' = "ok" /\ suspects' = {}
      /\ Sound(geometry') /\ ValidHistory(geometry')
      /\ geometry'.next = s.work.next /\ geometry'.ents = s.work.ents
      /\ geometry'.hist = Merged(s.work.hist, Merged(geometry.hist, t.map))
  BY DEF FullPublished
<1>4. /\ Sound(first) /\ first.hist = Base.hist /\ first.ents = Base.ents
      /\ first.next >= geometry.next /\ first.next \in Nat /\ Base.next \in Nat
  BY <1>0, <1>1, ReservedEffect DEF Sound
<1> HIDE DEF first
<1>5. /\ Sound(s.work) /\ s.work.hist = Base.hist /\ first.next <= s.work.next
      /\ s.work.next \in Nat
      /\ \A e \in Live(first) : Unmoved(s.work.ents[e]) = Unmoved(first.ents[e])
  BY <1>2, <1>4 DEF Grown, Sound
<1>6. WellOrdered(records') /\ Counted'
  <2>1. WellOrdered(s.records) /\ Ids(s.records) = Ids(records)
    BY <1>0, <1>2, ReplayedOrder
  <2>2. Ids(records)' = Ids(records)
    BY <1>3, <2>1 DEF Ids
  <2> QED
    BY <1>3, <2>1, <2>2 DEF FInv, Counted
<1>7. /\ outs \subseteq Live(geometry')
      /\ Rooted(records', geometry') /\ Owns(records', geometry')
  <2>1. outs \subseteq Live(geometry') /\ Rooted(records', geometry')
    BY <1>2, <1>3 DEF Rooted, Live
  <2> QED
    BY <1>2, <1>3, <2>1, OwnsKept
<1>8. BaselineKept'
  <2>1. Base.next <= geometry'.next
    BY <1>0, <1>1, <1>3, <1>4, <1>5
  <2>2. DOMAIN Base.hist \subseteq DOMAIN geometry'.hist
    BY <1>3, <1>5 DEF Merged
  <2>3. \A e \in Live(Base) : Unmoved(geometry'.ents[e]) = Unmoved(Base.ents[e])
    BY <1>3, <1>4, <1>5 DEF Live
  <2> QED
    BY <1>1, <1>3, <2>1, <2>2, <2>3 DEF BaselineKept
<1>9. NoOrphans'
  <2> SUFFICES ASSUME Base \in {NoBaseline, Empty} PROVE Live(geometry') = Owned'
    BY <1>3 DEF NoOrphans
  <2>1. Base # NoBaseline
    BY <1>1 DEF Sound, NoBaseline, Empty
  <2>2. Live(first) = {}
    BY <1>4, <2>1, EmptySound DEF Live
  <2>3. Live(geometry') \subseteq outs
    <3> SUFFICES ASSUME NEW e \in Live(geometry') PROVE e \in outs
      OBVIOUS
    <3>1. e \in Live(s.work) /\ e # NoOutput
      BY <1>3, <1>5 DEF Live, Sound, NoOutput
    <3>2. PICK i \in 1..Len(records) : s.records[i].output = e
      BY <1>2, <2>2, <3>1
    <3>3. i \in DOMAIN s.records
      BY <1>0, <1>2 DEF SameDefinitions
    <3> QED
      BY <3>1, <3>2, <3>3
  <2>4. Owned' = Closure(geometry', outs)
    BY <1>3 DEF Owned, Outputs
  <2> HIDE DEF outs
  <2>5. /\ Closure(geometry', outs) = outs \cup UNION {Tips(geometry', e) : e \in outs}
        /\ Closure(geometry', outs) \subseteq Live(geometry')
    BY <1>3, <1>7, ClosureOfLive, ClosureLive
  <2> QED
    BY <2>3, <2>4, <2>5
<1> QED
  BY <1>3, <1>6, <1>7, <1>8, <1>9 DEF FInv

(* What a step comes to. *)
LEMMA StepCases ==
    ASSUME FInv, [Next]_vars
    PROVE  UNCHANGED vars \/ CaptureBaseline \/ Edited \/ Regenerate
<1>1. CASE AppendFeature
  BY <1>1, AppendEdits
<1>2. ASSUME NEW f \in Ids(records),
             \/ Remove(f) \/ SetSuppressed(f) \/ Rename(f)
             \/ UpdateParameters(f) \/ UpdateInputs(f) \/ Move(f)
      PROVE  Edited
  BY <1>2, RemoveEdits, OneRecordEdits, MoveEdits
<1> QED
  BY <1>1, <1>2 DEF Next

LEMMA StepKeeps ==
    ASSUME FInv, [Next]_vars
    PROVE  FInv'
<1>1. CASE UNCHANGED vars
  <2>1. /\ records' = records /\ next_id' = next_id /\ baseline' = baseline
        /\ geometry' = geometry /\ report' = report /\ edits' = edits
        /\ suspects' = suspects
    BY <1>1 DEF vars
  <2>2. Counted' /\ BaselineKept' /\ NoOrphans'
    BY <2>1 DEF FInv, Counted, BaselineKept, NoOrphans, Owned, Outputs
  <2> QED
    BY <2>1, <2>2 DEF FInv
<1>2. CASE CaptureBaseline
  BY <1>2, CaptureKeeps
<1>3. CASE Edited
  BY <1>3, EditKeeps DEF Edited
<1>4. CASE Regenerate
  <2>1. next_id' = next_id /\ edits' = edits
    BY <1>4 DEF Regenerate
  <2>2. NothingToDo \/ Fails \/ Incremented \/ Restarted
    BY <1>4, RegenerateCases
  <2>3. CASE NothingToDo
    <3>1. /\ records' = records /\ baseline' = baseline /\ geometry' = geometry
          /\ suspects' = suspects /\ report' = "ok"
      BY <2>3 DEF NothingToDo
    <3>2. Counted' /\ BaselineKept' /\ NoOrphans'
      BY <2>1, <3>1 DEF FInv, Counted, BaselineKept, NoOrphans, Owned, Outputs
    <3> QED
      BY <3>1, <3>2 DEF FInv
  <2>4. CASE Fails
    BY <2>1, <2>4, FailureKeeps
  <2>5. CASE Incremented
    BY <2>1, <2>5, IncrementKeeps DEF Incremented
  <2>6. CASE Restarted
    BY <2>1, <2>6, RestartKeeps DEF Restarted
  <2> QED
    BY <2>2, <2>3, <2>4, <2>5, <2>6
<1> QED
  BY <1>1, <1>2, <1>3, <1>4, StepCases

LEMMA BeginsSound == Init => FInv
<1> SUFFICES ASSUME Init PROVE FInv
  OBVIOUS
<1>1. /\ records = <<>> /\ next_id = 1 /\ baseline = NoBaseline /\ geometry = Empty
      /\ report = "none" /\ edits = 0 /\ suspects = {}
  BY DEF Init
<1>2. WellOrdered(records) /\ Ids(records) = {}
  BY <1>1 DEF WellOrdered, Valid, Ids
<1>3. Counted
  BY <1>1, <1>2, FeatureHistoryAssumption DEF Counted
<1>4. NoOrphans
  <2>1. Outputs = {} /\ Live(geometry) = {} /\ Sound(geometry)
    BY <1>1, EmptySound DEF Outputs
  <2>2. Owned \subseteq Live(geometry)
    BY <2>1, ClosureLive DEF Owned
  <2> QED
    BY <2>1, <2>2 DEF NoOrphans
<1> QED
  BY <1>1, <1>2, <1>3, <1>4, EmptySound DEF FInv, BaselineKept, Rooted, Owns

LEMMA AlwaysFInv == Spec => []FInv
<1>1. FInv /\ [Next]_vars => FInv'
  BY StepKeeps
<1> QED
  BY <1>1, BeginsSound, PTL DEF Spec

(* Every edit and regeneration leaves records that depend on earlier       *)
(* records only, and publishes geometry that restore_topology accepts.     *)
THEOREM HistoryAlwaysSound == Spec => []TypeOK
<1>1. FInv => TypeOK
  <2> SUFFICES ASSUME FInv PROVE TypeOK
    OBVIOUS
  <2>1. \A e \in Live(geometry) :
            e < geometry.next /\ Tips(geometry, e) \subseteq Live(geometry)
    BY DEF FInv, Sound
  <2> QED
    BY <2>1 DEF FInv, TypeOK, WellOrdered, Counted
<1> QED
  BY <1>1, AlwaysFInv, PTL

(* What suppressed, blocked and replaced features made, and the copies an  *)
(* incremental replay compares with, are gone from the published geometry. *)
THEOREM NothingOutlivesItsFeature == Spec => []NoOrphans
<1>1. FInv => NoOrphans
  BY DEF FInv
<1> QED
  BY <1>1, AlwaysFInv, PTL

-----------------------------------------------------------------------------
(* What a regeneration refuses *)

(* Without transforms, and with every line between the points it names.    *)
LEMMA CalmWhen ==
    ASSUME FInv, ~Redirected, ~Modified
    PROVE  Calm /\ \A start \in 1..(Len(records) + 1) : Modifiers(start) = {}
<1>1. /\ Replayable /\ Sound(geometry) /\ Rooted(records, geometry)
      /\ Owns(records, geometry) /\ WellOrdered(records)
      /\ DOMAIN records = 1..Len(records) /\ Len(records) \in Nat
  BY DEF FInv, Replayable, WellOrdered
<1>2. Additive(records)
  BY DEF Modified, Additive
<1>3. ASSUME NEW i \in DOMAIN records, records[i].kind = "line",
             records[i].output # NoOutput
      PROVE  geometry.ents[records[i].output] =
                 Line(Source(records, i, 1), Source(records, i, 2))
  <2> DEFINE e == records[i].output
             input == records[i].inputs
             x == geometry.ents[e]
             ends == [k \in DOMAIN input |-> records[Position(records, input[k])].output]
  <2>1. e \in Live(geometry) /\ IsEdge(geometry, e)
    BY <1>1, <1>3 DEF Rooted, Owns, Makes
  <2>2. e \in Resolve(geometry, e)
    BY <1>1, <2>1, ResolveLive
  <2>3. ends = <<x.from, x.to>>
    BY <1>3, <2>2 DEF Redirected
  <2>4. DOMAIN input = 1..2
    BY <1>1, <1>3 DEF WellOrdered, Ports
  <2>5. /\ ends[1] = records[Position(records, input[1])].output
        /\ ends[2] = records[Position(records, input[2])].output
    BY <2>4
  <2>6. x = Line(x.from, x.to)
    <3>1. Entity(x) /\ x.kind = "edge"
      BY <1>1, <2>1 DEF Sound, IsEdge
    <3> HIDE DEF x
    <3> QED
      BY <3>1, EntityKinds
  <2> HIDE DEF ends, x, input
  <2>7. /\ x.from = records[Position(records, input[1])].output
        /\ x.to = records[Position(records, input[2])].output
    BY <2>3, <2>5
  <2>8. x.from = Source(records, i, 1) /\ x.to = Source(records, i, 2)
    BY <2>7 DEF Source, input
  <2>9. x = Line(Source(records, i, 1), Source(records, i, 2))
    BY <2>6, <2>8, Zenon
  <2> QED
    BY <2>9 DEF x
<1>4. \A i \in DOMAIN records : Wired(records, geometry, i)
  BY <1>3 DEF Wired
<1>5. \A start \in 1..(Len(records) + 1) : Modifiers(start) = {}
  <2> SUFFICES ASSUME NEW start \in 1..(Len(records) + 1), NEW i \in start..Len(records),
                      records[i].kind = "transform", ~records[i].suppressed
               PROVE  FALSE
    BY DEF Modifiers
  <2>1. i \notin DOMAIN records
    BY DEF Modified
  <2> QED
    BY <1>1, <2>1
<1> QED
  BY <1>1, <1>2, <1>4, <1>5 DEF Calm

(* An error leaves its cause in place. *)
LEMMA FailureExplained ==
    ASSUME NEW why, Failed(why), why = "shared" => Redirected \/ Modified,
           why = "lineage" =>
               \/ Redirected \/ Modified
               \/ baseline # Empty
               \/ Live(geometry) # Owned
    PROVE  RefusalsExplained'
<1>1. /\ report' = why /\ records' = records /\ geometry' = geometry
      /\ baseline' = baseline
  BY DEF Failed
<1>2. (Modified' <=> Modified) /\ (Redirected' <=> Redirected) /\ Owned' = Owned
  BY <1>1 DEF Modified, Redirected, Owned, Outputs
<1> QED
  BY <1>1, <1>2 DEF RefusalsExplained

LEMMA NothingRefused ==
    ASSUME report' \notin {"shared", "lineage"}
    PROVE  RefusalsExplained'
BY DEF RefusalsExplained

LEMMA IncrementExplained ==
    ASSUME FInv, NEW start \in 1..(Len(records) + 1), NEW forceNew \in BOOLEAN,
           ForcedBy(start, forceNew), RegenerateIncremental(start, forceNew)
    PROVE  RefusalsExplained'
<1> DEFINE s == IncrementalReplay(start, forceNew)
           t == Transitions(s.records, s.work)
           kept == Kept(s.records, s.work)
           discard == Disposable(s.discard, kept)
           retire == Disposable(s.retire, kept)
<1>1. Conclude(s, t, kept, start)
  BY DEF RegenerateIncremental, Replace
<1>2. ASSUME s.ok, ~Redirected, ~Modified
      PROVE  /\ ~SharedConflict(t.map, kept)
             /\ Live(geometry) = Owned =>
                    /\ t.ok /\ RecordedBefore(s, t) /\ Trimmable(s.work, discard, retire)
                    /\ Recordable(Trimmed(s.work, discard, retire), Entries(s, t))
  <2>1. Calm /\ forceNew = FALSE
    BY <1>2, CalmWhen DEF ForcedBy
  <2>2. Replayable /\ Owns(records, geometry) /\ ValidHistory(geometry)
    BY DEF FInv, Replayable
  <2>3. /\ s = IncrementalReplay(start, forceNew) /\ t = Transitions(s.records, s.work)
        /\ discard = s.discard \ Kept(s.records, s.work)
        /\ retire = s.retire \ Kept(s.records, s.work)
        /\ kept = Kept(s.records, s.work)
    BY DEF Disposable
  <2> HIDE DEF s, t, kept, discard, retire
  <2>4. Finished(s, start)
    BY <1>2, <2>1, <2>2, <2>3, IncrementalProgress DEF Progress, Finished
  <2>5. ~SharedConflict(t.map, kept)
    BY <2>1, <2>3, <2>4, NoneShared
  <2>6. ASSUME Live(geometry) = Owned
        PROVE  /\ t.ok /\ RecordedBefore(s, t) /\ Trimmable(s.work, discard, retire)
               /\ Recordable(Trimmed(s.work, discard, retire), Entries(s, t))
    BY <2>1, <2>2, <2>3, <2>4, <2>6, IncrementRecords
  <2> QED
    BY <2>5, <2>6
<1>3. \/ ~s.ok /\ Failed("feature")
      \/ s.ok /\ SharedConflict(t.map, kept) /\ Failed("shared")
      \/ /\ s.ok /\ Failed("lineage")
         /\ ~(/\ t.ok /\ RecordedBefore(s, t) /\ Trimmable(s.work, discard, retire)
              /\ Recordable(Trimmed(s.work, discard, retire), Entries(s, t)))
      \/ report' = "ok"
  BY <1>1 DEF Conclude, Published
<1> HIDE DEF s, t, kept, discard, retire
<1>4. CASE ~s.ok /\ Failed("feature")
  BY <1>4, FailureExplained
<1>5. CASE s.ok /\ SharedConflict(t.map, kept) /\ Failed("shared")
  BY <1>2, <1>5, FailureExplained
<1>6. CASE /\ s.ok /\ Failed("lineage")
           /\ ~(/\ t.ok /\ RecordedBefore(s, t) /\ Trimmable(s.work, discard, retire)
                /\ Recordable(Trimmed(s.work, discard, retire), Entries(s, t)))
  BY <1>2, <1>6, FailureExplained
<1>7. CASE report' = "ok"
  BY <1>7, NothingRefused
<1> QED
  BY <1>3, <1>4, <1>5, <1>6, <1>7

LEMMA RestartExplained ==
    ASSUME FInv, RegenerateFully
    PROVE  RefusalsExplained'
<1> DEFINE s == FullReplay(records, Base, geometry.next)
           t == Transitions(s.records, s.work)
           entries == Merged(geometry.hist, t.map)
<1>1. ReplaceAll(s, Base)
  BY DEF RegenerateFully, Base
<1>2. \/ ~s.ok /\ Failed("feature")
      \/ s.ok /\ ~(t.ok /\ Recordable(s.work, entries)) /\ Failed("lineage")
      \/ report' = "ok"
  BY <1>1 DEF ReplaceAll, Published
<1>3. ASSUME s.ok, ~Redirected, ~Modified, baseline = Empty, Live(geometry) = Owned
      PROVE  t.ok /\ Recordable(s.work, entries)
  <2>1. Calm /\ ValidHistory(geometry)
    BY <1>3, CalmWhen DEF FInv
  <2>2. Base = Empty
    BY <1>3, EmptySound DEF Base, NoBaseline, Empty
  <2>3. /\ s = FullReplay(records, Empty, geometry.next)
        /\ t = Transitions(s.records, s.work)
    BY <2>2
  <2> HIDE DEF s, t
  <2> QED
    BY <1>3, <2>1, <2>3, RestartRecords
<1> HIDE DEF s, t, entries
<1>4. CASE ~s.ok /\ Failed("feature")
  BY <1>4, FailureExplained
<1>5. CASE s.ok /\ ~(t.ok /\ Recordable(s.work, entries)) /\ Failed("lineage")
  BY <1>3, <1>5, FailureExplained
<1>6. CASE report' = "ok"
  BY <1>6, NothingRefused
<1> QED
  BY <1>2, <1>4, <1>5, <1>6

LEMMA StepExplains ==
    ASSUME FInv, RefusalsExplained, [Next]_vars
    PROVE  RefusalsExplained'
<1>1. CASE UNCHANGED vars
  <2>1. /\ report' = report /\ records' = records /\ geometry' = geometry
        /\ baseline' = baseline
    BY <1>1 DEF vars
  <2>2. (Modified' <=> Modified) /\ (Redirected' <=> Redirected) /\ Owned' = Owned
    BY <2>1 DEF Modified, Redirected, Owned, Outputs
  <2> QED
    BY <2>1, <2>2 DEF RefusalsExplained
<1>2. CASE CaptureBaseline \/ Edited
  <2>1. report' = "none"
    BY <1>2 DEF CaptureBaseline, Edited, ApplyMutation
  <2> QED
    BY <2>1, NothingRefused
<1>3. CASE Regenerate
  <2>1. CASE NothingToDo
    BY <2>1, NothingRefused DEF NothingToDo
  <2>2. CASE RegeneratesFully
    BY <2>2, RestartExplained DEF RegeneratesFully
  <2>3. ASSUME NEW start \in 1..(Len(records) + 1), RegeneratesFrom(start)
        PROVE  RefusalsExplained'
    BY <2>3, IncrementExplained DEF RegeneratesFrom
  <2> QED
    BY <1>3, <2>1, <2>2, <2>3, RegenerateChoices
<1> QED
  BY <1>1, <1>2, <1>3, StepCases

(* regenerate refuses, for shared entities or for lineage, only histories  *)
(* with transforms or with lines led to other points, and for lineage also *)
(* where the geometry does not all come from the features.                 *)
THEOREM RefusalsAlwaysExplained == Spec => []RefusalsExplained
<1>1. Init => RefusalsExplained
  BY DEF Init, RefusalsExplained
<1>2. FInv /\ RefusalsExplained /\ [Next]_vars => RefusalsExplained'
  BY StepExplains
<1> QED
  BY <1>1, <1>2, AlwaysFInv, PTL DEF Spec

-----------------------------------------------------------------------------
(* What a step does to identifiers and outputs *)

Republishes == Regenerate /\ (Incremented \/ Restarted)

LEMMA OtherwiseKept ==
    ASSUME FInv, Next
    PROVE  Republishes \/ (geometry' = geometry /\ (Regenerated => records' = records))
<1>1. CASE UNCHANGED vars
  BY <1>1 DEF vars
<1>2. CASE CaptureBaseline
  BY <1>2 DEF CaptureBaseline
<1>3. CASE Edited
  <2>1. edits \in Nat
    BY FeatureHistoryAssumption DEF FInv, Counted
  <2> QED
    BY <1>3, <2>1 DEF Edited, ApplyMutation, Regenerated
<1>4. CASE Regenerate
  <2>1. NothingToDo \/ Fails \/ Incremented \/ Restarted
    BY <1>4, RegenerateCases
  <2>2. NothingToDo => geometry' = geometry /\ records' = records
    BY DEF NothingToDo
  <2>3. Fails => geometry' = geometry /\ records' = records
    BY DEF Fails, Failed
  <2> QED
    BY <1>4, <2>1, <2>2, <2>3 DEF Republishes
<1> QED
  BY <1>1, <1>2, <1>3, <1>4, StepCases

(* An identifier that stays live names the same entity; every other live   *)
(* identifier is new, or has come back with the baseline it is from.       *)
Reused(e) ==
    IF e \in Live(geometry)
    THEN Unmoved(geometry'.ents[e]) = Unmoved(geometry.ents[e])
    ELSE e >= geometry.next \/ FromBaseline(e, geometry'.ents[e])

LEMMA IncrementReuse ==
    ASSUME FInv, Incremented, NEW e \in Live(geometry')
    PROVE  Reused(e)
<1>1. PICK start, forceNew, s, t : Increment(s, t, start, forceNew)
  BY DEF Incremented
<1>2. Grown(geometry, s.work)
  BY <1>1 DEF Increment, Incremental
<1>3. e \in Live(s.work) /\ geometry'.ents[e] = s.work.ents[e]
  BY <1>1 DEF Increment, IncrementPublished
<1> QED
  BY <1>2, <1>3 DEF Grown, Reused

LEMMA RestartReuse ==
    ASSUME FInv, Restarted, NEW e \in Live(geometry')
    PROVE  Reused(e)
<1> DEFINE first == Reserved(Base, geometry.next)
<1>0. /\ Sound(Base) /\ Sound(geometry) /\ geometry.next \in Nat
      /\ \A x \in Live(Base) \cap Live(geometry) :
             Unmoved(geometry.ents[x]) = Unmoved(Base.ents[x])
  BY BaseEarlier DEF Earlier, FInv, Sound
<1>1. PICK s, t : FullPublished(s, t, Base)
  BY DEF Restarted
<1>2. Grown(first, s.work) /\ geometry'.ents = s.work.ents
  BY <1>1 DEF FullPublished, Full
<1>3. first.ents = Base.ents /\ first.next >= geometry.next /\ first.next \in Nat
  BY <1>0, ReservedEffect
<1> HIDE DEF first
<1>4. Live(first) = Live(Base) /\ e \in Live(s.work) /\ Sound(s.work)
  BY <1>2, <1>3 DEF Live, Grown
<1>5. CASE e \in Live(Base)
  <2>1. Unmoved(geometry'.ents[e]) = Unmoved(Base.ents[e])
    BY <1>2, <1>3, <1>4, <1>5 DEF Grown
  <2>2. CASE e \in Live(geometry)
    BY <1>0, <1>5, <2>1, <2>2 DEF Reused
  <2>3. CASE e \notin Live(geometry)
    <3>1. baseline # NoBaseline /\ Base = baseline
      BY <1>5, <2>3 DEF Base
    <3> QED
      BY <1>5, <2>1, <2>3, <3>1 DEF Reused, FromBaseline
  <2> QED
    BY <2>2, <2>3
<1>6. CASE e \notin Live(Base)
  <2>1. e >= first.next /\ e \in Nat
    BY <1>2, <1>4, <1>6 DEF Grown, Sound
  <2>2. e >= geometry.next
    BY <1>0, <1>3, <2>1
  <2>3. e \notin Live(geometry)
    BY <1>0, <2>1, <2>2 DEF Sound
  <2> QED
    BY <2>2, <2>3 DEF Reused
<1> QED
  BY <1>5, <1>6

(* "A stale EntityRef can never be silently reused for a different         *)
(* output": regeneration gives no identifier to another entity.            *)
THEOREM IdentifiersNeverReused == Spec => NoIdReuse
<1> DEFINE NoReuse == \A e \in Live(geometry)' :
               IF e \in Live(geometry)
               THEN Unmoved(geometry'.ents[e]) = Unmoved(geometry.ents[e])
               ELSE e >= geometry.next \/ FromBaseline(e, geometry'.ents[e])
<1>1. FInv /\ [Next]_vars => [NoReuse]_vars
  <2> SUFFICES ASSUME FInv, Next, NEW e \in Live(geometry)' PROVE Reused(e)
    BY DEF Reused
  <2>1. CASE Republishes
    BY <2>1, IncrementReuse, RestartReuse DEF Republishes, Live
  <2>2. CASE ~Republishes
    <3>1. geometry' = geometry
      BY <2>2, OtherwiseKept
    <3> QED
      BY <3>1 DEF Reused, Live
  <2> QED
    BY <2>1, <2>2
<1> QED
  BY <1>1, AlwaysFInv, PTL DEF Spec, NoIdReuse

(* Payloads of what lives in both geometries, unchanged. *)
LEMMA PayloadKept ==
    ASSUME NEW g, Sound(g), NEW h, NEW e \in Live(g),
           \A x \in Live(g) : h.ents[x] = g.ents[x]
    PROVE  Payload(h, e) = Payload(g, e)
<1>1. {e} \cup Tips(g, e) \subseteq Live(g)
  BY DEF Sound
<1>2. \A x \in {e} \cup Tips(g, e) : h.ents[x] = g.ents[x]
  BY <1>1
<1> QED
  BY <1>2, PayloadSame

MovesIfChanged(i) ==
    LET old == records[i].output
        new == records'[i].output
    IN old # NoOutput /\ new # NoOutput =>
       (old = new <=> Payload(geometry, old) = Payload(geometry', new))

LEMMA IncrementMoves ==
    ASSUME FInv, ~Modified, Incremented, NEW i \in DOMAIN records
    PROVE  MovesIfChanged(i)
<1>1. PICK start \in 1..(Len(records) + 1) :
          \E forceNew, s, t : ForcedBy(start, forceNew) /\ Increment(s, t, start, forceNew)
  BY DEF Incremented
<1>2. PICK forceNew, s, t : ForcedBy(start, forceNew) /\ Increment(s, t, start, forceNew)
  BY <1>1
<1>3. /\ Sound(geometry) /\ Rooted(records, geometry)
      /\ DOMAIN records = 1..Len(records) /\ Len(records) \in Nat
  BY DEF FInv, WellOrdered
<1>4. Modifiers(start) = {}
  BY <1>1, <1>3 DEF Modifiers, Modified
<1>5. ~forceNew
  BY <1>2, <1>4 DEF ForcedBy
<1> DEFINE old == records[i].output
           new == s.records[i].output
<1>6. /\ \A e \in Live(geometry) : s.work.ents[e] = geometry.ents[e]
      /\ Renewed(s.work, i, new)
      /\ Rooted(s.records, s.work)
  BY <1>2, <1>3, <1>5 DEF Increment, Incremental
<1>7. /\ records' = s.records /\ Sound(geometry')
      /\ \A e \in Live(geometry') : s.work.ents[e] = geometry'.ents[e]
  BY <1>2 DEF Increment, IncrementPublished
<1>8. SUFFICES ASSUME old # NoOutput, new # NoOutput
               PROVE  old = new <=> Payload(geometry, old) = Payload(geometry', new)
  BY <1>7 DEF MovesIfChanged
<1>9. old \in Live(geometry)
  BY <1>3, <1>8 DEF Rooted
<1>10. new \in Live(geometry')
  <2>1. /\ Rooted(s.records, s.work) /\ Sound(s.work) /\ i \in DOMAIN s.records
    BY <1>2, <1>3 DEF Increment, Incremental, Grown, SameDefinitions
  <2> DEFINE outs == {s.records[k].output : k \in DOMAIN s.records} \ {NoOutput}
  <2>2. new \in outs /\ new \in Live(s.work)
    BY <1>8, <2>1 DEF Rooted
  <2>3. Kept(s.records, s.work) = Closure(s.work, outs)
    BY DEF Kept
  <2> HIDE DEF outs, new
  <2>4. new \in Closure(s.work, outs)
    BY <2>1, <2>2, ClosureLive
  <2> QED
    BY <1>2, <2>2, <2>3, <2>4 DEF Increment, IncrementPublished
<1>11. Payload(s.work, new) = Payload(geometry', new)
  <2> HIDE DEF new
  <2> QED
    BY <1>7, <1>10, PayloadKept
<1>12. Payload(s.work, old) = Payload(geometry, old)
  <2> HIDE DEF old
  <2> QED
    BY <1>3, <1>6, <1>9, PayloadKept
<1>13. CASE old = new
  BY <1>11, <1>12, <1>13
<1>14. CASE old # new
  <2>1. Payload(s.work, new) # Payload(geometry, old)
    BY <1>6, <1>8, <1>14 DEF Renewed, Old
  <2> QED
    BY <1>11, <1>14, <2>1
<1> QED
  BY <1>13, <1>14

(* Without transforms or a full replay, a feature gets a new identifier    *)
(* exactly when its output has changed: references to what an edit did not *)
(* touch stay good.                                                        *)
THEOREM UnchangedOutputsStay == Spec => OnlyChangedOutputsMove
<1> DEFINE Stay ==
        Regenerated /\ ~Modified /\ (\A i \in DOMAIN records : ~records[i].fullReplay) =>
            \A i \in DOMAIN records :
                LET old == records[i].output
                    new == records'[i].output
                IN old # NoOutput /\ new # NoOutput =>
                   (old = new <=> Payload(geometry, old) = Payload(geometry', new))
<1>1. FInv /\ [Next]_vars => [Stay]_vars
  <2> SUFFICES ASSUME FInv, Next, Regenerated, ~Modified,
                      \A i \in DOMAIN records : ~records[i].fullReplay,
                      NEW i \in DOMAIN records
               PROVE  MovesIfChanged(i)
    BY DEF MovesIfChanged
  <2>1. CASE Republishes
    <3>1. ~Marked(records)
      BY DEF Marked
    <3>2. ~Restarted
      <4>1. DOMAIN records = 1..Len(records) /\ Len(records) \in Nat
        BY DEF FInv, WellOrdered
      <4>2. \A start \in 1..(Len(records) + 1) : Modifiers(start) = {}
        BY <4>1 DEF Modifiers, Modified
      <4> QED
        BY <3>1, <4>2 DEF Restarted
    <3> QED
      BY <2>1, <3>2, IncrementMoves DEF Republishes
  <2>2. CASE ~Republishes
    <3>1. geometry' = geometry /\ records' = records
      BY <2>2, OtherwiseKept
    <3> QED
      BY <3>1 DEF MovesIfChanged
  <2> QED
    BY <2>1, <2>2
<1> QED
  BY <1>1, AlwaysFInv, PTL DEF Spec, OnlyChangedOutputsMove

(* Where a retired identifier leads in one step, it leads. *)
LEMMA LeadsThere ==
    ASSUME NEW g, Sound(g), NEW old \in DOMAIN g.hist, NEW new \in Live(g),
           g.hist[old] = {new} \/ g.hist[old] = {}
    PROVE  Resolve(g, old) = g.hist[old]
<1>1. IsFiniteSet(DOMAIN g.hist)
  BY HistoryFinite
<1>2. g.hist[old] \subseteq Live(g) /\ Live(g) \cap DOMAIN g.hist = {}
  BY DEF Sound
<1> DEFINE hist == g.hist
<1> HIDE DEF hist
<1>3. hist[old] \cap DOMAIN hist = {} /\ old \in DOMAIN hist /\ IsFiniteSet(DOMAIN hist)
  BY <1>1, <1>2 DEF hist
<1>4. Descend(hist, {old}) = {old} \cup hist[old]
  BY <1>3, DescendOnce
<1>5. Resolve(g, old) = (({old} \cup hist[old]) \ DOMAIN hist) \cap Live(g)
  BY <1>4 DEF Resolve, hist
<1> QED
  BY <1>2, <1>3, <1>5 DEF hist

LeadsOn(i) ==
    LET old == records[i].output
        new == records'[i].output
        lead == Resolve(geometry', old)
    IN old # NoOutput /\ new # NoOutput =>
       /\ lead \subseteq Resolve(geometry', new)
       /\ lead = {} => \E j \in DOMAIN records \ {i} : records[j].output = old

(* The replacement of an output is recorded as the transitions have it.    *)
RecordsLead(i, rs, t) ==
    LET old == records[i].output
    IN  old # NoOutput /\ old # rs[i].output /\ rs[i].output # NoOutput =>
            old \in DOMAIN geometry'.hist /\ geometry'.hist[old] = t.map[old]

(* Where the replacement of an output is recorded as the transitions have  *)
(* it, references to the old output lead to the new one.                   *)
LEMMA LeadsAsRecorded ==
    ASSUME FInv, FInv', NEW i \in DOMAIN records,
           NEW rs, rs = records', SameDefinitions(rs, records),
           NEW t, Leads(t, rs, i, Len(records)), RecordsLead(i, rs, t)
    PROVE  LeadsOn(i)
<1> DEFINE old == records[i].output
           new == rs[i].output
           g == geometry'
<1> SUFFICES ASSUME old # NoOutput, new # NoOutput
             PROVE  /\ Resolve(g, old) \subseteq Resolve(g, new)
                    /\ Resolve(g, old) = {} =>
                           \E j \in DOMAIN records \ {i} : records[j].output = old
  BY DEF LeadsOn
<1>0. Len(records) \in Nat /\ DOMAIN records = 1..Len(records)
  BY DEF FInv, WellOrdered
<1>1. Sound(g) /\ new \in Live(g)
  <2>1. i \in DOMAIN rs
    BY <1>0 DEF SameDefinitions
  <2> QED
    BY <2>1 DEF FInv, Rooted
<1>2. Resolve(g, new) = {new}
  <2> HIDE DEF new, g
  <2> QED
    BY <1>1, ResolveLive
<1>3. CASE old = new
  BY <1>2, <1>3
<1>4. CASE old # new
  <2>1. /\ old \in DOMAIN g.hist /\ g.hist[old] = t.map[old]
        /\ \/ t.map[old] = {new}
           \/ t.map[old] = {} /\ \E j \in 1..Len(records) : j # i /\ Old(j) = old
    BY <1>4 DEF Leads, Old, RecordsLead
  <2>2. Resolve(g, old) = t.map[old]
    <3> HIDE DEF new, g, old
    <3> QED
      BY <1>1, <2>1, LeadsThere
  <2>3. t.map[old] = {} => \E j \in DOMAIN records \ {i} : records[j].output = old
    BY <1>0, <2>1 DEF Old
  <2> HIDE DEF new, g
  <2> QED
    BY <1>2, <2>1, <2>2, <2>3
<1> QED
  BY <1>3, <1>4

LEMMA IncrementLeads ==
    ASSUME FInv, FInv', Incremented, NEW i \in DOMAIN records
    PROVE  LeadsOn(i)
<1>1. PICK start, forceNew, s, t : Increment(s, t, start, forceNew)
  BY DEF Incremented
<1> DEFINE rs == s.records
           old == records[i].output
<1>2. /\ Sound(geometry) /\ Rooted(records, geometry)
      /\ DOMAIN records = 1..Len(records) /\ geometry.next \in Nat
  BY DEF FInv, WellOrdered, Sound
<1>3. /\ rs = records' /\ t.ok
      /\ geometry'.hist = Merged(geometry.hist, Entries(s, t))
      /\ SameDefinitions(rs, records) /\ Led(t, rs, Len(records))
      /\ s.work.hist = geometry.hist
      /\ \A e \in DOMAIN s.roles.map :
             e >= geometry.next \/ \E k \in 1..Len(records) : rs[k].output = e
  BY <1>1 DEF Increment, IncrementPublished, Incremental, Grown
<1>4. Leads(t, rs, i, Len(records))
  BY <1>2, <1>3 DEF Led
<1>5. Sound(geometry') /\ Rooted(rs, geometry') /\ DOMAIN rs = 1..Len(records)
  BY <1>2, <1>3 DEF FInv, Rooted, SameDefinitions
<1>6. ASSUME old # NoOutput, old # rs[i].output, rs[i].output # NoOutput
      PROVE  old \in DOMAIN geometry'.hist /\ geometry'.hist[old] = t.map[old]
  <2>1. old \in Live(geometry)
    BY <1>2, <1>6 DEF Rooted
  <2>2. old \in DOMAIN t.map
    BY <1>4, <1>6 DEF Leads, Old
  <2>3. old \notin DOMAIN geometry.hist /\ old \in Nat /\ ~(old >= geometry.next)
    BY <1>2, <2>1 DEF Sound
  <2> DEFINE first == s.roles.map
             rest == [o \in DOMAIN t.map \ DOMAIN s.work.hist |-> t.map[o]]
             entries == Merged(first, rest)
  <2>4. Entries(s, t) = entries
    BY DEF Entries
  <2>5. old \in DOMAIN rest /\ rest[old] = t.map[old]
    BY <1>3, <2>2, <2>3
  <2> HIDE DEF first, rest, old
  <2>6. /\ old \in DOMAIN entries
        /\ old \notin DOMAIN first => entries[old] = t.map[old]
    <3>1. Shows(entries, first, old, rest[old])
      BY <2>5, MergedShows
    <3> QED
      BY <2>5, <3>1 DEF Shows
  <2> HIDE DEF entries
  <2>7. old \in DOMAIN geometry'.hist /\ geometry'.hist[old] = entries[old]
    <3>1. Shows(geometry'.hist, geometry.hist, old, entries[old])
      BY <1>3, <2>4, <2>6, MergedShows
    <3> QED
      BY <2>3, <3>1 DEF Shows
  <2>8. old \notin DOMAIN first
    <3> SUFFICES ASSUME old \in DOMAIN first PROVE FALSE
      OBVIOUS
    <3>1. PICK k \in 1..Len(records) : rs[k].output = old
      BY <1>3, <2>3 DEF first
    <3>2. old \in Live(geometry')
      BY <1>5, <1>6, <3>1 DEF Rooted
    <3> QED
      BY <1>5, <2>7, <3>2 DEF Sound
  <2> QED
    BY <2>6, <2>7, <2>8
<1>7. RecordsLead(i, rs, t)
  BY <1>6 DEF RecordsLead
<1> HIDE DEF rs
<1> QED
  BY <1>3, <1>4, <1>7, LeadsAsRecorded

LEMMA RestartLeads ==
    ASSUME FInv, FInv', Restarted, NEW i \in DOMAIN records
    PROVE  LeadsOn(i)
<1>1. PICK s, t : FullPublished(s, t, Base)
  BY DEF Restarted
<1> DEFINE rs == s.records
           old == records[i].output
           first == Reserved(Base, geometry.next)
<1>2. /\ Sound(geometry) /\ Rooted(records, geometry)
      /\ DOMAIN records = 1..Len(records) /\ geometry.next \in Nat
  BY DEF FInv, WellOrdered, Sound
<1>3. Sound(Base) /\ DOMAIN Base.hist \subseteq DOMAIN geometry.hist
  BY BaseEarlier DEF Earlier
<1>4. first.hist = Base.hist
  BY <1>2, <1>3, ReservedEffect
<1>5. /\ rs = records' /\ t.ok
      /\ geometry'.hist = Merged(s.work.hist, Merged(geometry.hist, t.map))
      /\ SameDefinitions(rs, records) /\ Led(t, rs, Len(records))
      /\ s.work.hist = first.hist
  BY <1>1 DEF FullPublished, Full, Grown
<1>6. Leads(t, rs, i, Len(records))
  BY <1>2, <1>5 DEF Led
<1> HIDE DEF first
<1>7. ASSUME old # NoOutput, old # rs[i].output, rs[i].output # NoOutput
      PROVE  old \in DOMAIN geometry'.hist /\ geometry'.hist[old] = t.map[old]
  <2>1. old \in Live(geometry)
    BY <1>2, <1>7 DEF Rooted
  <2>2. old \in DOMAIN t.map
    BY <1>6, <1>7 DEF Leads, Old
  <2>3. old \notin DOMAIN geometry.hist /\ old \notin DOMAIN s.work.hist
    BY <1>2, <1>3, <1>4, <1>5, <2>1 DEF Sound
  <2> DEFINE entries == Merged(geometry.hist, t.map)
  <2> HIDE DEF old
  <2>4. old \in DOMAIN entries /\ entries[old] = t.map[old]
    <3>1. Shows(entries, geometry.hist, old, t.map[old])
      BY <2>2, MergedShows
    <3> QED
      BY <2>3, <3>1 DEF Shows
  <2> HIDE DEF entries
  <2>5. geometry'.hist = Merged(s.work.hist, entries)
    BY <1>5 DEF entries
  <2>6. Shows(geometry'.hist, s.work.hist, old, entries[old])
    BY <2>4, <2>5, MergedShows
  <2> QED
    BY <2>3, <2>4, <2>6 DEF Shows
<1>8. RecordsLead(i, rs, t)
  BY <1>7 DEF RecordsLead
<1> HIDE DEF rs
<1> QED
  BY <1>5, <1>6, <1>8, LeadsAsRecorded

(* A reference a caller still holds to an old output resolves to that      *)
(* feature's new output and to nothing else; to nothing at all only where  *)
(* another feature had the same entity as its output.                      *)
THEOREM OldReferencesLeadOn == Spec => OldOutputsLead
<1> DEFINE Lead ==
        Regenerated =>
            \A i \in DOMAIN records :
                LET old == records[i].output
                    new == records'[i].output
                    lead == Resolve(geometry', old)
                IN old # NoOutput /\ new # NoOutput =>
                   /\ lead \subseteq Resolve(geometry', new)
                   /\ lead = {} => \E j \in DOMAIN records \ {i} : records[j].output = old
<1>1. FInv /\ FInv' /\ [Next]_vars => [Lead]_vars
  <2> SUFFICES ASSUME FInv, FInv', Next, Regenerated, NEW i \in DOMAIN records
               PROVE  LeadsOn(i)
    BY DEF LeadsOn
  <2>1. CASE Republishes
    BY <2>1, IncrementLeads, RestartLeads DEF Republishes
  <2>2. CASE ~Republishes
    <3>1. geometry' = geometry /\ records' = records
      BY <2>2, OtherwiseKept
    <3> DEFINE old == records[i].output
    <3>2. old # NoOutput => old \in Live(geometry)
      BY DEF FInv, Rooted
    <3>3. Sound(geometry)
      BY DEF FInv
    <3> HIDE DEF old
    <3>4. old # NoOutput => Resolve(geometry, old) = {old}
      BY <3>2, <3>3, ResolveLive
    <3> QED
      BY <3>1, <3>4 DEF LeadsOn, old
  <2> QED
    BY <2>1, <2>2
<1> QED
  BY <1>1, AlwaysFInv, PTL DEF Spec, OldOutputsLead

-----------------------------------------------------------------------------
(* Histories without transforms *)

(* A clean record that stands on clean records is as its definition has it. *)
CleanExact(rs, g) ==
    \A i \in DOMAIN rs :
        /\ i \notin Dirty(rs)
        /\ \A j \in DOMAIN rs : rs[j].id \in DependenciesOf(rs[i]) => j \notin Dirty(rs)
        => Exact(rs, g, i)

(* What holds while only points and lines are replayed. *)
EInv ==
    /\ CleanExact(records, geometry)
    /\ report = "ok" => ExactTo(records, geometry, Len(records))

LEMMA ItsDefinitions ==
    ASSUME NEW rs, WellOrdered(rs)
    PROVE  SameDefinitions(rs, rs)
BY DEF WellOrdered, SameDefinitions, DefinedAs

LEMMA WhollyExact ==
    ASSUME NEW rs, rs \in Seq(Record), NEW g, ExactTo(rs, g, Len(rs))
    PROVE  CleanExact(rs, g)
BY DEF ExactTo, CleanExact

(* What clean records stand on, an edit leaves as it was. *)
LEMMA EditLeavesExact ==
    ASSUME FInv, EInv, Edited
    PROVE  EInv'
<1>1. PICK rs : Edits(rs) /\ ApplyMutation(rs)
  BY DEF Edited
<1>2. records' = rs /\ geometry' = geometry /\ report' = "none"
  BY <1>1 DEF ApplyMutation
<1>3. WellOrdered(rs) /\ rs \in Seq(Record) /\ DOMAIN rs = 1..Len(rs) /\ Len(rs) \in Nat
  BY <1>1 DEF Edits, ApplyMutation, WellOrdered, Distinct
<1>4. /\ WellOrdered(records) /\ records \in Seq(Record)
      /\ DOMAIN records = 1..Len(records) /\ Len(records) \in Nat
  BY DEF FInv, WellOrdered
<1>5. ASSUME NEW j \in DOMAIN rs, j \notin Dirty(rs)
      PROVE  \E k \in DOMAIN records : rs[j] = records[k] /\ k \notin Dirty(records)
  <2>1. rs[j].state # "pending"
    BY <1>5 DEF Dirty, CleanState
  <2> QED
    BY <1>1, <1>5, <2>1 DEF Edits, Dirty
<1>6. ASSUME NEW i \in DOMAIN rs, i \notin Dirty(rs),
             \A j \in DOMAIN rs : rs[j].id \in DependenciesOf(rs[i]) => j \notin Dirty(rs)
      PROVE  Exact(rs, geometry, i)
  <2>1. PICK k \in DOMAIN records : rs[i] = records[k] /\ k \notin Dirty(records)
    BY <1>5, <1>6
  <2>2. ASSUME NEW f \in DependenciesOf(records[k])
        PROVE  /\ rs[Position(rs, f)] = records[Position(records, f)]
               /\ Position(records, f) \notin Dirty(records)
    <3>1. PICK j \in 1..(i - 1) : rs[j].id = f
      BY <1>3, <2>1 DEF WellOrdered, Valid
    <3>2. j \in 1..Len(rs) /\ j \notin Dirty(rs)
      BY <1>3, <1>6, <2>1, <3>1
    <3>3. PICK l \in DOMAIN records : rs[j] = records[l] /\ l \notin Dirty(records)
      BY <1>3, <1>5, <3>2
    <3>4. Position(rs, f) = j
      BY <1>3, <3>1, <3>2, ItsDefinitions, PositionOf
    <3>5. Position(records, f) = l
      BY <1>4, <3>1, <3>3, ItsDefinitions, PositionOf
    <3> QED
      BY <3>3, <3>4, <3>5
  <2>3. ASSUME NEW j \in DOMAIN records, records[j].id \in DependenciesOf(records[k])
        PROVE  j \notin Dirty(records)
    <3>1. Position(records, records[j].id) = j
      BY <1>4, ItsDefinitions, PositionOf
    <3> QED
      BY <2>2, <2>3, <3>1
  <2>4. Exact(records, geometry, k)
    BY <2>1, <2>3 DEF EInv, CleanExact
  <2>5. Stopped(rs, i) <=> Stopped(records, k)
    BY <2>1, <2>2 DEF Stopped
  <2>6. Ports(records[k])
    BY <1>4 DEF WellOrdered
  <2>7. \A n \in DOMAIN records[k].inputs : Source(rs, i, n) = Source(records, k, n)
    <3>1. \A n \in DOMAIN records[k].inputs :
              records[k].inputs[n] \in DependenciesOf(records[k])
      BY DEF DependenciesOf, Members
    <3> QED
      BY <2>1, <2>2, <3>1 DEF Source
  <2>8. records[k].kind = "line" =>
            /\ Source(rs, i, 1) = Source(records, k, 1)
            /\ Source(rs, i, 2) = Source(records, k, 2)
    BY <2>6, <2>7 DEF Ports
  <2>9. records[k].kind = "line" =>
            (Joinable(rs, geometry, i) <=> Joinable(records, geometry, k))
    BY <2>8 DEF Joinable
  <2>10. Content(rs, geometry, i) = Content(records, geometry, k)
    BY <2>1, <2>8 DEF Content
  <2> QED
    BY <2>1, <2>4, <2>5, <2>9, <2>10 DEF Exact
<1> QED
  BY <1>2, <1>6 DEF EInv, CleanExact

(* An incremental replay that starts before the first dirty record starts  *)
(* from records that are as their definitions have them.                   *)
LEMMA PrefixExact ==
    ASSUME FInv, EInv, NEW start \in 1..(Len(records) + 1),
           \A i \in 1..(start - 1) : i \notin Dirty(records)
    PROVE  ExactTo(records, geometry, start - 1)
<1> SUFFICES ASSUME NEW i \in 1..(start - 1) PROVE Exact(records, geometry, i)
  BY DEF ExactTo
<1>1. /\ WellOrdered(records) /\ DOMAIN records = 1..Len(records)
      /\ Len(records) \in Nat
  BY DEF FInv, WellOrdered
<1>2. i \in DOMAIN records /\ i \notin Dirty(records)
  BY <1>1
<1>3. ASSUME NEW j \in DOMAIN records, records[j].id \in DependenciesOf(records[i])
      PROVE  j \notin Dirty(records)
  <2>1. PICK k \in 1..(i - 1) : records[k].id = records[j].id
    BY <1>1, <1>2, <1>3 DEF WellOrdered, Valid
  <2>2. k \in DOMAIN records /\ k \in 1..(start - 1)
    BY <1>1
  <2>3. j = k
    BY <1>1, <2>1, <2>2 DEF WellOrdered
  <2> QED
    BY <2>2, <2>3
<1> QED
  BY <1>2, <1>3 DEF EInv, CleanExact

LEMMA IncrementExact ==
    ASSUME FInv, FInv', EInv, ~Modified, Incremented
    PROVE  EInv'
<1>1. PICK start \in 1..(Len(records) + 1) : \E forceNew, s, t :
          /\ \A i \in 1..(start - 1) : i \notin Dirty(records)
          /\ ForcedBy(start, forceNew)
          /\ Increment(s, t, start, forceNew)
  BY DEF Incremented
<1>2. PICK forceNew, s, t :
          /\ \A i \in 1..(start - 1) : i \notin Dirty(records)
          /\ ForcedBy(start, forceNew)
          /\ Increment(s, t, start, forceNew)
  BY <1>1
<1> DEFINE N == Len(records)
<1>3. WellOrdered(records) /\ DOMAIN records = 1..N /\ N \in Nat
  BY DEF FInv, WellOrdered
<1>4. Additive(records)
  BY DEF Modified, Additive
<1>5. ~forceNew
  <2>1. Modifiers(start) = {}
    BY <1>3, <1>4 DEF Modifiers, Additive
  <2> QED
    BY <1>2, <2>1 DEF ForcedBy
<1>6. ExactTo(records, geometry, start - 1)
  BY <1>2, PrefixExact
<1>7. /\ SameDefinitions(s.records, records) /\ Sound(s.work)
      /\ ExactTo(s.records, s.work, N)
  BY <1>2, <1>4, <1>5, <1>6 DEF Increment, Incremental, Grown
<1>8. /\ records' = s.records
      /\ \A e \in Live(geometry') : geometry'.ents[e] = s.work.ents[e]
  BY <1>2 DEF Increment, IncrementPublished
<1>9. Sound(geometry') /\ Rooted(s.records, geometry') /\ s.records \in Seq(Record)
  BY <1>7, <1>8 DEF FInv, SameDefinitions
<1>10. DOMAIN s.records = 1..N /\ Len(s.records) = N
  BY <1>3, <1>7 DEF SameDefinitions
<1> DEFINE v == geometry'
<1> HIDE DEF N, v
<1>11. ASSUME NEW i \in 1..N, s.records[i].output \in Live(s.work)
       PROVE  /\ s.records[i].output \in Live(v)
              /\ \A e \in {s.records[i].output} \cup Tips(s.work, s.records[i].output) :
                     v.ents[e] = s.work.ents[e]
  <2> DEFINE o == s.records[i].output
  <2>1. o # NoOutput
    BY <1>7, <1>11 DEF Sound, NoOutput
  <2>2. o \in Live(v)
    BY <1>9, <1>10, <2>1 DEF Rooted, v
  <2> HIDE DEF o
  <2>3. v.ents[o] = s.work.ents[o]
    BY <1>8, <2>2 DEF v
  <2>4. Tips(s.work, o) = Tips(v, o)
    BY <2>3 DEF Tips, IsEdge
  <2>5. Tips(v, o) \subseteq Live(v)
    BY <1>9, <2>2 DEF Sound, v
  <2>6. \A e \in {o} \cup Tips(s.work, o) : v.ents[e] = s.work.ents[e]
    BY <1>8, <2>2, <2>4, <2>5 DEF v
  <2> QED
    BY <2>2, <2>6 DEF o
<1>12. ExactTo(s.records, v, N)
  <2>1. N \in 0..Len(records)
    BY <1>3 DEF N
  <2> QED
    BY <1>3, <1>7, <1>11, <2>1, ExactFrame
<1> QED
  BY <1>8, <1>9, <1>10, <1>12, WhollyExact DEF EInv, v

LEMMA RestartExact ==
    ASSUME FInv, ~Modified, Restarted
    PROVE  EInv'
<1>1. PICK s, t : FullPublished(s, t, Base)
  BY DEF Restarted
<1> DEFINE N == Len(records)
           v == geometry'
<1>2. WellOrdered(records) /\ N \in Nat /\ Additive(records)
  BY DEF FInv, WellOrdered, Modified, Additive
<1>3. /\ SameDefinitions(s.records, records) /\ ExactTo(s.records, s.work, N)
      /\ records' = s.records /\ v.ents = s.work.ents
  BY <1>1, <1>2 DEF FullPublished, Full
<1> HIDE DEF v
<1>4. ExactTo(s.records, v, N)
  <2>1. N \in 0..Len(records)
    BY <1>2
  <2>2. Live(v) = Live(s.work)
    BY <1>3 DEF Live
  <2> HIDE DEF N
  <2> QED
    BY <1>2, <1>3, <2>1, <2>2, ExactFrame
<1>5. s.records \in Seq(Record) /\ Len(s.records) = N
  BY <1>3 DEF SameDefinitions
<1> QED
  BY <1>3, <1>4, <1>5, WhollyExact DEF EInv, v

LEMMA StepLeavesExact ==
    ASSUME FInv, FInv', EInv, ~Modified, [Next]_vars
    PROVE  EInv'
<1>1. CASE UNCHANGED vars
  BY <1>1 DEF vars, EInv
<1>2. CASE CaptureBaseline
  BY <1>2 DEF CaptureBaseline, EInv
<1>3. CASE Edited
  BY <1>3, EditLeavesExact
<1>4. CASE Regenerate
  <2>1. CASE NothingToDo
    <3>1. ExactTo(records, geometry, Len(records))
      <4>1. records \in Seq(Record)
        BY DEF FInv, WellOrdered
      <4> QED
        BY <2>1, <4>1 DEF NothingToDo, EInv, CleanExact, ExactTo
    <3> QED
      BY <2>1, <3>1 DEF NothingToDo, EInv
  <2>2. CASE Fails
    BY <2>2 DEF Fails, Failed, EInv
  <2> QED
    BY <1>4, <2>1, <2>2, RegenerateCases, IncrementExact, RestartExact
<1> QED
  BY <1>1, <1>2, <1>3, <1>4, StepCases

(* Records that are all as their definitions have them hold what a replay  *)
(* from nothing would make.                                                *)
LEMMA ExactIntended ==
    ASSUME FInv, ~Modified, ExactTo(records, geometry, Len(records))
    PROVE  OutputsAreIntended
<1> DEFINE N == Len(records)
           s == FullReplay(records, Empty, 1)
           first == Reserved(Empty, 1)
<1>1. /\ WellOrdered(records) /\ N \in Nat /\ DOMAIN records = 1..N
      /\ Additive(records) /\ Sound(geometry) /\ Rooted(records, geometry)
  BY DEF FInv, WellOrdered, Modified, Additive
<1>2. SameDefinitions(records, records) /\ Sound(Empty) /\ 1 \in Nat
  BY <1>1, ItsDefinitions, EmptySound
<1>3. s.ok
  BY <1>1, <1>2, FullReplaySucceeds
<1> HIDE DEF first
<1>4. Full(s, records, first, N)
  BY <1>1, <1>2, <1>3, FullEnds DEF first
<1> HIDE DEF s
<1>5. SameDefinitions(s.records, records) /\ Sound(s.work) /\ ExactTo(s.records, s.work, N)
  BY <1>1, <1>4 DEF Full, Grown
<1>6. AlikeTo(records, geometry, s.records, s.work, N)
  <2>1. N \in 0..Len(records)
    BY <1>1
  <2> QED
    BY <1>1, <1>2, <1>5, <2>1, ExactAlike
<1>7. ASSUME NEW i \in DOMAIN records
      PROVE  LET made == s.records[i]
             IN  /\ records[i].state = made.state
                 /\ records[i].output = NoOutput <=> made.output = NoOutput
                 /\ made.output # NoOutput =>
                        \E o \in Resolve(geometry, records[i].output) :
                            Payload(geometry, o) = Payload(s.work, made.output)
  <2>1. Alike(records, geometry, s.records, s.work, i)
    BY <1>1, <1>6 DEF AlikeTo
  <2> DEFINE o == records[i].output
  <2>2. o # NoOutput => o \in Live(geometry)
    BY <1>1 DEF Rooted
  <2>3. o # NoOutput => Resolve(geometry, o) = {o}
    <3> HIDE DEF o
    <3> QED
      BY <1>1, <2>2, ResolveLive
  <2> QED
    BY <2>1, <2>3 DEF Alike
<1> QED
  BY <1>3, <1>7 DEF OutputsAreIntended, s

LEMMA BeginsExact == Init => EInv
<1> SUFFICES ASSUME Init PROVE EInv
  OBVIOUS
<1>1. records = <<>> /\ report = "none"
  BY DEF Init
<1> QED
  BY <1>1 DEF EInv, CleanExact

(* "Replay the history from its base materialization": as long as nothing  *)
(* is moved in place, replaying a suffix on the live geometry, keeping     *)
(* unchanged outputs and retiring replaced ones always ends with what the  *)
(* definitions alone make, whatever was edited in between.                 *)
THEOREM AdditiveHistoriesReplayExactly == Spec /\ []~Modified => []OutputsAreIntended
<1>1. FInv /\ FInv' /\ EInv /\ ~Modified /\ [Next]_vars => EInv'
  BY StepLeavesExact
<1>2. FInv /\ EInv /\ ~Modified => OutputsAreIntended
  <2> SUFFICES ASSUME FInv, EInv, ~Modified PROVE OutputsAreIntended
    OBVIOUS
  <2>1. CASE report = "ok"
    BY <2>1, ExactIntended DEF EInv
  <2>2. CASE report # "ok" /\ Dirty(records) = {}
    <3>1. records \in Seq(Record)
      BY DEF FInv, WellOrdered
    <3>2. ExactTo(records, geometry, Len(records))
      BY <2>2, <3>1 DEF EInv, CleanExact, ExactTo
    <3> QED
      BY <3>2, ExactIntended
  <2>3. CASE report # "ok" /\ Dirty(records) # {}
    BY <2>3 DEF OutputsAreIntended
  <2> QED
    BY <2>1, <2>2, <2>3
<1> QED
  BY <1>1, <1>2, AlwaysFInv, BeginsExact, PTL DEF Spec

=============================================================================
