---------------------------- MODULE DerivedProofs ----------------------------
(***************************************************************************)
(* What DerivedState guarantees for every mesh of vertices, edges and      *)
(* faces, every set of positions and every bound: spatial queries, cached  *)
(* edge lengths and cached trim loops are never stale, but for what        *)
(* interrupted commits left behind, and a ChangeSet names every region     *)
(* that changed.                                                           *)
(*                                                                         *)
(* All of it rests on one comparison: between the document as it is        *)
(* (Current) and the document a rollback returns to (published), which may *)
(* still happen while hooks run.  What the journal does not name is the    *)
(* same in both, and each cache is right about one of them.                *)
(***************************************************************************)
EXTENDS DerivedState, TLAPS

Current == [pos |-> pos, edges |-> edges, faces |-> faces]

(* The document whose trim entries have the current revision. *)
Resting == IF stage = "open" THEN published ELSE Current

WellFormed(s) ==
    /\ s.pos \in [Vertices -> Positions]
    /\ s.edges \subseteq Edges
    /\ s.faces \subseteq Faces
    /\ \A f \in s.faces : Boundary[f] \subseteq s.edges

(* Faces stand on live edges, and a transaction removes faces only. *)
MeshInv ==
    /\ WellFormed(Current)
    /\ WellFormed(Resting)
    /\ WellFormed(published)
    /\ faces \subseteq Resting.faces
    /\ revision \in Nat
    /\ stage \in {"idle", "open", "hooks"}
    /\ stage = "hooks" => revision > 0

(* The journal names whatever its transaction has disturbed. *)
JournalInv ==
    /\ stage = "idle" => captured = {} /\ spatialUpdates = {} /\ lengthsCaptured = {}
    /\ captured = {} => spatialUpdates = {}
    /\ stage # "idle" =>
         /\ \A v \in Vertices \ captured : pos[v] = published.pos[v]
         /\ \A k \in Keys \ (captured \cup spatialUpdates) :
                Region(Current, k) = Region(published, k)
         /\ \A e \in Edges \ lengthsCaptured :
                Region(Current, e) = Region(published, e)

(* A tree is right about every key that is not stray and that the journal  *)
(* does not name; one that is older than the journal is right about the    *)
(* document before it, until the commit reconciles it.                     *)
TreeInv ==
    /\ tree # Missing =>
         \A k \in Keys \ stray :
             (stage = "open" => k \notin captured \cup spatialUpdates)
                 => tree[k] = Region(Current, k)
    /\ stage = "open" /\ hadTree =>
         /\ tree # Missing
         /\ \A k \in Keys \ stray : tree[k] = Region(published, k)

LengthBefore(e) == IF e \in lengthsCaptured THEN lengthsBefore[e] ELSE lengths[e]

(* A length is right about the edge as it is, and the one a rollback would *)
(* put back about the edge as it was.                                      *)
LengthInv ==
    /\ lengths = [e \in Edges |-> lengths[e]]
    /\ lengthsBefore = [e \in Edges |-> lengthsBefore[e]]
    /\ \A e \in Edges : lengths[e] # Missing => lengths[e] = Region(Current, e)
    /\ stage # "idle" =>
         \A e \in Edges : LengthBefore(e) # Missing =>
                              LengthBefore(e) = Region(published, e)

(* Of the entries no interrupt has made late, none is of a later revision, *)
(* one of this revision is right about the document of this revision, and  *)
(* while hooks run, one of the revision before is right about the document *)
(* a rollback would return to.                                             *)
TrimInv ==
    /\ DOMAIN trims = Faces
    /\ \A f \in Faces \ late :
           trims[f] # Missing => trims[f].revision \in 0..revision
    /\ \A f \in Resting.faces \ late :
           TrimHit(f) => trims[f].loops = Region(Resting, f)
    /\ stage = "hooks" =>
         \A f \in published.faces \ late :
             trims[f] # Missing /\ trims[f].revision = revision - 1
                 => trims[f].loops = Region(published, f)

IInv == MeshInv /\ JournalInv /\ TreeInv /\ LengthInv /\ TrimInv

-----------------------------------------------------------------------------
(* Moving the vertices S changes the regions of S and of the live edges    *)
(* and faces on it, and of nothing else: a live face stands on live edges. *)
LEMMA Undisturbed ==
    ASSUME MeshInv, NEW S \in SUBSET Vertices, pos' \in [Vertices -> Positions],
           \A v \in Vertices \ S : pos'[v] = pos[v],
           edges' = edges, faces' = faces
    PROVE  \A k \in Keys \ (S \cup EdgesOn(S) \cup FacesOn(S)) :
               Region(Current', k) = Region(Current, k)
<1> USE DerivedStateAssumption
<1> SUFFICES ASSUME NEW k \in Keys \ (S \cup EdgesOn(S) \cup FacesOn(S)),
                    k \in Vertices \cup edges \cup faces
             PROVE  BoundsAt(pos', k) = BoundsAt(pos, k)
  BY DEF Region, Current
<1>1. \A v \in Support(k) : v \in Vertices /\ v \notin S
  <2>1. CASE k \in Vertices
    BY <2>1 DEF Support
  <2>2. CASE k \in edges
    BY <2>2 DEF Support, EdgesOn, MeshInv, WellFormed, Current
  <2>3. CASE k \in faces
    <3>1. /\ k \in Faces /\ k \notin Vertices /\ k \notin Edges
          /\ Boundary[k] \subseteq edges /\ edges \subseteq Edges
      BY <2>3 DEF MeshInv, WellFormed, Current
    <3>2. \A e \in Boundary[k] : Ends[e] \cap S = {}
      BY <2>3, <3>1 DEF FacesOn, EdgesOn
    <3>3. \A v \in Support(k) : \E e \in Boundary[k] : v \in Ends[e]
      BY <3>1 DEF Support
    <3> QED
      BY <3>1, <3>2, <3>3
  <2> QED
    BY <2>1, <2>2, <2>3
<1> QED
  BY <1>1 DEF BoundsAt

(* What an edit owes to the caches: the journal names every key whose      *)
(* region it changes, no length of such an edge stays, and no trim entry   *)
(* is made.                                                                *)
LEMMA EditKeepsIInv ==
    ASSUME IInv, MeshInv', Editing, NEW D \in SUBSET Keys, NEW E \in SUBSET Edges,
           \A k \in Keys \ D : Region(Current', k) = Region(Current, k),
           captured \cup spatialUpdates \cup D
               \subseteq captured' \cup spatialUpdates',
           captured \subseteq captured', captured' # {},
           \A v \in Vertices \ captured' : pos'[v] = pos[v],
           D \cap Edges \subseteq E, PopLengths(E),
           DOMAIN trims' = Faces,
           \A f \in Faces : trims'[f] = Missing
                             \/ (trims'[f] = trims[f] /\ (f \in late => f \in late'))
    PROVE  IInv'
<1>1. stage = "open" /\ stage' = "open" /\ published' = published
      /\ hadTree' = hadTree /\ tree' = tree /\ revision' = revision
      /\ stray' = stray
  BY DEF Editing
<1>2. JournalInv'
  <2>1. lengthsCaptured' = lengthsCaptured \cup E
    BY DEF PopLengths
  <2>2. \A e \in Edges \ lengthsCaptured' : Region(Current', e) = Region(published', e)
    BY <1>1, <2>1 DEF IInv, JournalInv, Keys
  <2> QED
    BY <1>1, <2>2 DEF IInv, JournalInv
<1>3. TreeInv'
  BY <1>1 DEF IInv, TreeInv
<1>4. LengthInv'
  <2>1. /\ lengths' = [e \in Edges |-> lengths'[e]]
        /\ lengthsBefore' = [e \in Edges |-> lengthsBefore'[e]]
    BY DEF PopLengths
  <2>2. \A e \in Edges : lengths'[e] # Missing => lengths'[e] = Region(Current', e)
    BY DEF PopLengths, IInv, LengthInv, Keys
  <2>3. \A e \in Edges : LengthBefore(e)' = LengthBefore(e)
    BY DEF PopLengths, LengthBefore
  <2> QED
    BY <1>1, <2>1, <2>2, <2>3 DEF IInv, LengthInv
<1>5. TrimInv'
  BY <1>1 DEF IInv, TrimInv, TrimHit, Resting, MeshInv, WellFormed
<1> QED
  BY <1>2, <1>3, <1>4, <1>5 DEF IInv

(* Without lengths to pop nothing is captured. *)
LEMMA KeptLengths ==
    ASSUME LengthInv, KeepLengths
    PROVE  PopLengths({})
BY DEF LengthInv, KeepLengths, PopLengths

(* The journal of a finished transaction is empty. *)
LEMMA ForgottenJournal ==
    ASSUME ForgetJournal
    PROVE  captured' = {} /\ spatialUpdates' = {} /\ lengthsCaptured' = {}
           /\ lengthsBefore' = [e \in Edges |-> lengthsBefore'[e]]
BY DEF ForgetJournal, NoLengths

LEMMA Initially == Init => IInv
<1> SUFFICES ASSUME Init PROVE IInv
  OBVIOUS
<1> USE DerivedStateAssumption DEF Init
<1>1. MeshInv
  BY DEF MeshInv, WellFormed, Current, Resting
<1>2. JournalInv /\ TreeInv
  BY DEF JournalInv, TreeInv
<1>3. LengthInv
  BY DEF LengthInv, NoLengths
<1>4. TrimInv
  BY DEF TrimInv, TrimHit, NoTrims, Resting, Current
<1> QED
  BY <1>1, <1>2, <1>3, <1>4 DEF IInv

LEMMA MovingKeepsIInv ==
    ASSUME IInv, Editing, NEW S \in SUBSET Vertices, S # {},
           pos' \in [Vertices -> Positions],
           \A v \in Vertices \ S : pos'[v] = pos[v],
           UNCHANGED <<edges, faces>>,
           captured \cup S \subseteq captured',
           spatialUpdates \cup EdgesOn(S) \subseteq spatialUpdates',
           FacesOn(S) \subseteq captured' \cup spatialUpdates',
           PopLengths(EdgesOn(S)),
           DOMAIN trims' = Faces,
           \A f \in Faces : trims'[f] = Missing
                             \/ (trims'[f] = trims[f] /\ (f \in late => f \in late'))
    PROVE  IInv'
<1> DEFINE D == S \cup EdgesOn(S) \cup FacesOn(S)
<1>1. MeshInv /\ stage = "open" /\ stage' = "open" /\ published' = published
      /\ revision' = revision
  BY DEF IInv, Editing
<1>2. MeshInv'
  BY <1>1 DEF MeshInv, WellFormed, Current, Resting
<1>3. \A k \in Keys \ D : Region(Current', k) = Region(Current, k)
  BY <1>1, Undisturbed
<1>4. EdgesOn(S) \in SUBSET Edges /\ FacesOn(S) \in SUBSET Faces
  BY <1>1 DEF EdgesOn, FacesOn, MeshInv, WellFormed, Current
<1>5. D \in SUBSET Keys /\ D \cap Edges \subseteq EdgesOn(S)
  BY <1>4, DerivedStateAssumption DEF Keys
<1>6. \A v \in Vertices \ captured' : pos'[v] = pos[v]
  OBVIOUS
<1> HIDE DEF D
<1>7. captured \subseteq captured' /\ captured' # {}
      /\ captured \cup spatialUpdates \cup D \subseteq captured' \cup spatialUpdates'
  BY DEF D
<1> QED
  BY <1>2, <1>3, <1>4, <1>5, <1>6, <1>7, EditKeepsIInv

LEMMA EditInductive ==
    ASSUME IInv, Edit
    PROVE  IInv'
<1> USE DerivedStateAssumption
<1>0. MeshInv /\ LengthInv /\ DOMAIN trims = Faces
  BY DEF IInv, TrimInv
<1>1. ASSUME NEW v \in Vertices, NEW p \in Positions, NEW R \in SUBSET Faces,
             MovePoint(v, p, R)
      PROVE  IInv'
  <2>1. pos' \in [Vertices -> Positions] /\ \A w \in Vertices \ {v} : pos'[w] = pos[w]
    BY <1>0, <1>1 DEF MovePoint, MeshInv, WellFormed, Current
  <2>2. captured' = captured \cup {v} \cup R
        /\ spatialUpdates' = spatialUpdates \cup EdgesOn({v}) \cup FacesOn({v})
    BY <1>1 DEF MovePoint, CaptureBounds
  <2>3. Editing /\ PopLengths(EdgesOn({v})) /\ UNCHANGED <<edges, faces>>
        /\ DOMAIN trims' = Faces
        /\ \A f \in Faces : trims'[f] = Missing
                             \/ (trims'[f] = trims[f] /\ (f \in late => f \in late'))
    BY <1>1 DEF MovePoint, DropTrims
  <2>4. {v} \in SUBSET Vertices /\ {v} # {}
        /\ captured \cup {v} \subseteq captured'
        /\ spatialUpdates \cup EdgesOn({v}) \subseteq spatialUpdates'
        /\ FacesOn({v}) \subseteq captured' \cup spatialUpdates'
    BY <2>2
  <2> QED
    BY <2>1, <2>3, <2>4, MovingKeepsIInv
<1>2. ASSUME NEW S \in (SUBSET Vertices) \ {{}}, NEW to \in [S -> Positions],
             Transform(S, to)
      PROVE  IInv'
  <2>1. pos' \in [Vertices -> Positions] /\ \A w \in Vertices \ S : pos'[w] = pos[w]
    BY <1>0, <1>2 DEF Transform, MeshInv, WellFormed, Current
  <2>2. captured' = captured \cup S \cup FacesOn(S)
        /\ spatialUpdates' = spatialUpdates \cup EdgesOn(S) \cup FacesOn(S)
    BY <1>2 DEF Transform, CaptureBounds
  <2>3. Editing /\ PopLengths(EdgesOn(S)) /\ UNCHANGED <<edges, faces>>
        /\ DOMAIN trims' = Faces
        /\ \A f \in Faces : trims'[f] = Missing
                             \/ (trims'[f] = trims[f] /\ (f \in late => f \in late'))
    BY <1>2 DEF Transform, DropTrims
  <2>4. S \in SUBSET Vertices /\ S # {}
        /\ captured \cup S \subseteq captured'
        /\ spatialUpdates \cup EdgesOn(S) \subseteq spatialUpdates'
        /\ FacesOn(S) \subseteq captured' \cup spatialUpdates'
    BY <1>2, <2>2
  <2> QED
    BY <2>1, <2>3, <2>4, MovingKeepsIInv
<1>3. ASSUME NEW f \in Faces, PutFace(f) \/ RemoveFace(f)
      PROVE  IInv'
  <2>1. Editing /\ f \in faces /\ KeepLengths /\ pos' = pos /\ edges' = edges
        /\ faces' \subseteq faces /\ faces \ {f} \subseteq faces'
        /\ captured' = captured \cup {f} /\ spatialUpdates' = spatialUpdates
        /\ DropTrims({f})
    BY <1>3 DEF PutFace, RemoveFace, CaptureBounds, geometry
  <2>2. MeshInv'
    BY <1>0, <2>1 DEF MeshInv, WellFormed, Current, Resting, Editing
  <2>3. \A k \in Keys \ {f} : Region(Current', k) = Region(Current, k)
    BY <2>1 DEF Region, Current
  <2>4. PopLengths({})
    BY <1>0, <2>1, KeptLengths
  <2>5. \A v \in Vertices \ captured' : pos'[v] = pos[v]
    BY <2>1
  <2>6. DOMAIN trims' = Faces
        /\ \A g \in Faces : trims'[g] = Missing
                             \/ (trims'[g] = trims[g] /\ (g \in late => g \in late'))
    BY <2>1 DEF DropTrims
  <2>7. {f} \in SUBSET Keys /\ {} \in SUBSET Edges /\ {f} \cap Edges \subseteq {}
    BY DEF Keys
  <2>8. captured \cup spatialUpdates \cup {f} \subseteq captured' \cup spatialUpdates'
        /\ captured \subseteq captured' /\ captured' # {}
    BY <2>1
  <2> QED
    BY <2>1, <2>2, <2>3, <2>4, <2>5, <2>6, <2>7, <2>8, EditKeepsIInv
<1>4. ASSUME NEW e \in Edges, AddEdge(e) \/ RemoveEdge(e)
      PROVE  IInv'
  <2>1. Editing /\ PopLengths({e}) /\ pos' = pos /\ faces' = faces
        /\ edges' \subseteq edges \cup {e} /\ edges \ {e} \subseteq edges'
        /\ captured' = captured \cup {e} /\ spatialUpdates' = spatialUpdates
        /\ trims' = trims /\ late' = late
    BY <1>4 DEF AddEdge, RemoveEdge, CaptureBounds
  <2>2. \A f \in faces : Boundary[f] \subseteq edges'
    BY <1>0, <1>4 DEF AddEdge, RemoveEdge, MeshInv, WellFormed, Current
  <2>3. MeshInv'
    BY <1>0, <2>1, <2>2 DEF MeshInv, WellFormed, Current, Resting, Editing
  <2>4. \A k \in Keys \ {e} : Region(Current', k) = Region(Current, k)
    BY <2>1 DEF Region, Current
  <2>5. \A v \in Vertices \ captured' : pos'[v] = pos[v]
    BY <2>1
  <2>6. {e} \in SUBSET Keys /\ {e} \in SUBSET Edges /\ {e} \cap Edges \subseteq {e}
    BY DEF Keys
  <2>7. captured \cup spatialUpdates \cup {e} \subseteq captured' \cup spatialUpdates'
        /\ captured \subseteq captured' /\ captured' # {}
    BY <2>1
  <2>8. DOMAIN trims' = Faces
        /\ \A g \in Faces : trims'[g] = Missing
                             \/ (trims'[g] = trims[g] /\ (g \in late => g \in late'))
    BY <1>0, <2>1
  <2> QED
    BY <2>1, <2>3, <2>4, <2>5, <2>6, <2>7, <2>8, EditKeepsIInv
<1> QED
  BY <1>1, <1>2, <1>3, <1>4 DEF Edit

-----------------------------------------------------------------------------
LEMMA ReadInductive ==
    ASSUME IInv,
           BuildTree \/ (\E e \in Edges : EdgeLength(e))
                     \/ (\E f \in Faces : FaceTrimLoops(f))
    PROVE  IInv'
<1>0. MeshInv' /\ JournalInv' /\ UNCHANGED <<geometry, revision, stage, published>>
  BY DEF IInv, MeshInv, JournalInv, BuildTree, EdgeLength, FaceTrimLoops,
         geometry, journal, Current, Resting
<1>1. CASE BuildTree
  <2>1. \A k \in Keys : CurrentBounds[k] = Region(Current, k)
    BY DEF CurrentBounds, Bounds, LiveKeys, Region, Current
  <2>2. TreeInv'
    BY <1>1, <2>1
       DEF IInv, TreeInv, BuildTree, geometry, journal, marks, Current, Region
  <2> QED
    BY <1>0, <1>1, <2>2
       DEF IInv, LengthInv, LengthBefore, TrimInv, TrimHit, BuildTree, geometry,
           journal, marks, Current, Resting, Region
<1>2. ASSUME NEW e \in Edges, EdgeLength(e)
      PROVE  IInv'
  <2>1. Bounds(e) = Region(Current, e)
    BY DEF Bounds, LiveKeys, Region, Current
  <2>2. /\ lengths' = [lengths EXCEPT ![e] = Region(Current, e)]
        /\ \A k \in Keys : Region(Current', k) = Region(Current, k)
    BY <1>2, <2>1 DEF EdgeLength, geometry, Current, Region
  <2>3. ASSUME NEW d \in Edges, stage # "idle", LengthBefore(d)' # Missing
        PROVE  LengthBefore(d)' = Region(published, d)
    <3>1. CASE d = e /\ stage = "hooks" /\ e \notin lengthsCaptured
      BY <1>0, <1>2, <2>2, <2>3, <3>1 DEF IInv, JournalInv, LengthInv, LengthBefore, EdgeLength
    <3>2. CASE d = e /\ stage = "open" /\ e \notin lengthsCaptured
      BY <1>2, <2>3, <3>2 DEF IInv, LengthInv, LengthBefore, EdgeLength
    <3>3. CASE d # e \/ e \in lengthsCaptured
      <4>1. LengthBefore(d)' = LengthBefore(d)
        BY <1>2, <2>2, <3>3 DEF IInv, LengthInv, LengthBefore, EdgeLength
      <4> QED
        BY <2>3, <4>1 DEF IInv, LengthInv
    <3> QED
      BY <2>3, <3>1, <3>2, <3>3 DEF IInv, MeshInv
  <2>4. LengthInv'
    BY <1>0, <1>2, <2>2, <2>3 DEF IInv, LengthInv, EdgeLength, Keys
  <2>5. TreeInv' /\ TrimInv'
    BY <1>2 DEF IInv, TreeInv, TrimInv, TrimHit, EdgeLength, geometry, marks,
                Current, Resting, Region
  <2> QED
    BY <1>0, <2>4, <2>5 DEF IInv
<1>3. ASSUME NEW f \in Faces, FaceTrimLoops(f)
      PROVE  IInv'
  <2>1. Bounds(f) = Region(Current, f)
    BY DEF Bounds, LiveKeys, Region, Current
  <2>2. TrimInv'
    BY <1>3, <2>1 DEF IInv, MeshInv, TrimInv, TrimHit, FaceTrimLoops, geometry,
                      journal, Current, Resting, Region
  <2>3. TreeInv' /\ LengthInv'
    BY <1>3 DEF IInv, TreeInv, LengthInv, LengthBefore, FaceTrimLoops, geometry,
                journal, Current, Region
  <2> QED
    BY <1>0, <2>2, <2>3 DEF IInv
<1> QED
  BY <1>1, <1>2, <1>3

(* Leaving the transaction, and the edit that has none. *)
LEMMA BoundaryInductive ==
    ASSUME IInv,
           Enter \/ ExitFailing \/ ExitCommitting \/ ExitUnchanged
                 \/ FinishHooks \/ InterruptHooks \/ SetDocumentSettings
    PROVE  IInv'
<1> USE DerivedStateAssumption
<1>1. CASE Enter
  <2> USE <1>1 DEF Enter, geometry, caches, marks
  <2>1. MeshInv' /\ JournalInv'
    BY DEF IInv, MeshInv, JournalInv, Current, Resting, WellFormed
  <2>2. TreeInv' /\ LengthInv'
    BY DEF IInv, TreeInv, JournalInv, LengthInv, LengthBefore, Current, Region
  <2>3. TrimInv'
    BY DEF IInv, TrimInv, TrimHit, Current, Resting, Region
  <2> QED
    BY <2>1, <2>2, <2>3 DEF IInv
<1>2. CASE ExitFailing
  <2>1. /\ stage = "open" /\ stage' = "idle" /\ revision' = revision
        /\ published' = published
        /\ stray' = (IF hadTree THEN stray ELSE {})
        /\ late' = late \ captured
        /\ pos' = published.pos /\ edges' = published.edges
        /\ faces' = published.faces
        /\ tree' = (IF hadTree THEN tree ELSE Missing)
        /\ lengths' = [e \in Edges |-> LengthBefore(e)]
        /\ trims' = [f \in Faces |-> IF f \in captured THEN Missing ELSE trims[f]]
        /\ ForgetJournal
    BY <1>2 DEF ExitFailing, Rollback, LengthBefore
  <2>2. \A k \in Keys : Region(Current', k) = Region(published, k)
    BY <2>1 DEF Region, Current
  <2>3. MeshInv' /\ JournalInv'
    BY <2>1, ForgottenJournal DEF IInv, MeshInv, JournalInv, WellFormed, Current, Resting
  <2>4. TreeInv'
    BY <2>1, <2>2 DEF IInv, TreeInv
  <2>5. LengthInv'
    BY <2>1, <2>2, ForgottenJournal DEF IInv, LengthInv, Keys
  <2>6. Resting.faces = published.faces /\ Resting'.faces = published.faces
        /\ \A k \in Keys : Region(Resting', k) = Region(Resting, k)
    BY <2>1, <2>2 DEF Resting, Current
  <2>7. TrimInv'
    BY <2>1, <2>6 DEF IInv, TrimInv, TrimHit, MeshInv, WellFormed, Keys
  <2> QED
    BY <2>3, <2>4, <2>5, <2>7 DEF IInv
<1>3. stage = "open" /\ ReconcileTree /\ UNCHANGED geometry /\ tree' # Missing =>
          \A k \in Keys \ stray' : tree'[k] = Region(Current', k)
  <2>1. \A k \in Keys : Bounds(k) = Region(Current, k)
    BY DEF Bounds, LiveKeys, Region, Current
  <2> QED
    BY <2>1 DEF ReconcileTree, Reconciled, IInv, TreeInv, geometry, Current, Region
<1>4. CASE ExitCommitting
  <2> USE <1>4 DEF ExitCommitting, geometry, journal
  <2>1. MeshInv' /\ JournalInv'
    BY DEF IInv, MeshInv, JournalInv, WellFormed, Current, Resting
  <2>2. TreeInv'
    BY <1>3 DEF TreeInv
  <2>3. LengthInv'
    BY DEF IInv, LengthInv, LengthBefore, Current, Region
  <2>4. \A f \in Faces \ late' :
            trims'[f] # Missing => trims'[f].revision \in 0..revision
    BY DEF IInv, TrimInv
  <2>5. \A f \in published.faces \ late' :
            trims'[f] # Missing /\ trims'[f].revision = revision
                => trims'[f].loops = Region(published, f)
    BY DEF IInv, TrimInv, TrimHit, Resting
  <2>6. revision \in Nat /\ revision' = revision + 1 /\ published' = published
        /\ published.faces \subseteq Faces /\ Resting'.faces \subseteq Faces
    BY DEF IInv, MeshInv, WellFormed, Resting, Current
  <2>7. DOMAIN trims' = Faces
    BY DEF IInv, TrimInv
  <2>8. TrimInv'
    BY <2>4, <2>5, <2>6, <2>7 DEF TrimInv, TrimHit
  <2> QED
    BY <2>1, <2>2, <2>3, <2>8 DEF IInv
<1>5. CASE ExitUnchanged
  <2> USE <1>5 DEF ExitUnchanged, geometry
  <2>1. MeshInv' /\ JournalInv'
    BY ForgottenJournal DEF IInv, MeshInv, JournalInv, WellFormed, Current, Resting
  <2>2. TreeInv'
    BY <1>3 DEF TreeInv
  <2>3. LengthInv'
    BY ForgottenJournal DEF IInv, LengthInv, Current, Region
  <2>4. \A v \in Vertices : pos[v] = published.pos[v]
    BY DEF IInv, JournalInv, Changed
  <2>5. pos = published.pos
    BY <2>4 DEF IInv, MeshInv, WellFormed, Resting, Current
  <2>6. \A f \in faces : Region(Resting', f) = Region(Resting, f)
                         /\ f \in Resting.faces
    BY <2>5 DEF IInv, MeshInv, Region, Resting, Current
  <2>7. TrimInv'
    BY <2>6 DEF IInv, TrimInv, TrimHit, Resting, Current
  <2> QED
    BY <2>1, <2>2, <2>3, <2>7 DEF IInv
<1>6. CASE FinishHooks
  <2> USE <1>6 DEF FinishHooks, geometry, caches, marks
  <2>1. MeshInv' /\ JournalInv'
    BY ForgottenJournal DEF IInv, MeshInv, JournalInv, WellFormed, Current, Resting
  <2>2. TreeInv' /\ LengthInv'
    BY ForgottenJournal DEF IInv, TreeInv, LengthInv, Current, Region
  <2>3. TrimInv'
    BY DEF IInv, TrimInv, TrimHit, Current, Resting, Region
  <2> QED
    BY <2>1, <2>2, <2>3 DEF IInv
<1>7. CASE InterruptHooks
  <2> DEFINE undone == {k \in Reconciled : Region(published, k) # Bounds(k)}
  <2>1. /\ stage = "hooks" /\ stage' = "idle" /\ revision' = revision - 1
        /\ published' = published
        /\ pos' = published.pos /\ edges' = published.edges
        /\ faces' = published.faces
        /\ tree' = (IF hadTree THEN tree ELSE Missing)
        /\ lengths' = [e \in Edges |-> LengthBefore(e)]
        /\ trims' = [f \in Faces |-> IF f \in captured THEN Missing ELSE trims[f]]
        /\ stray' = (IF hadTree THEN stray \cup undone ELSE {})
        /\ late' = (late \cup {f \in Faces : TrimHit(f)}) \ captured
        /\ ForgetJournal
    BY <1>7 DEF InterruptHooks, Rollback, LengthBefore
  <2>2. \A k \in Keys : Region(Current', k) = Region(published, k)
    BY <2>1 DEF Region, Current
  <2>3. revision \in Nat /\ revision > 0 /\ revision' \in Nat
    BY <2>1 DEF IInv, MeshInv
  <2>4. MeshInv' /\ JournalInv'
    BY <2>1, <2>3, ForgottenJournal
       DEF IInv, MeshInv, JournalInv, WellFormed, Current, Resting
  <2>5. ASSUME NEW k \in Keys \ stray', tree' # Missing
        PROVE  tree'[k] = Region(published, k)
    <3>1. hadTree /\ tree' = tree /\ tree # Missing /\ k \notin stray /\ k \notin undone
      BY <2>1, <2>5
    <3>2. tree[k] = Region(Current, k)
      BY <2>1, <3>1 DEF IInv, TreeInv
    <3>3. Bounds(k) = Region(Current, k)
      BY DEF Bounds, LiveKeys, Region, Current
    <3>4. CASE k \in Reconciled
      BY <3>1, <3>2, <3>3, <3>4
    <3>5. CASE k \notin Reconciled
      BY <2>1, <3>1, <3>2, <3>5 DEF Reconciled, IInv, JournalInv
    <3> QED
      BY <3>1, <3>4, <3>5
  <2> HIDE DEF undone
  <2>6. TreeInv'
    BY <2>1, <2>2, <2>5 DEF TreeInv
  <2>7. LengthInv'
    BY <2>1, <2>2, ForgottenJournal DEF IInv, LengthInv, Keys
  <2>8. Resting'.faces = published.faces /\ published.faces \subseteq Faces
        /\ \A k \in Keys : Region(Resting', k) = Region(published, k)
    BY <2>1, <2>2 DEF Resting, Current, IInv, MeshInv, WellFormed
  <2>9. ASSUME NEW f \in Faces \ late', trims'[f] # Missing
        PROVE  /\ f \notin late /\ trims'[f] = trims[f]
               /\ trims[f].revision \in 0..revision'
    <3>1. f \notin captured /\ trims'[f] = trims[f] /\ f \notin late /\ ~TrimHit(f)
      BY <2>1, <2>9
    <3>2. trims[f].revision \in 0..revision /\ trims[f].revision # revision
      BY <2>9, <3>1 DEF IInv, TrimInv, TrimHit
    <3> QED
      BY <2>1, <2>3, <3>1, <3>2
  <2>10. ASSUME NEW f \in published.faces \ late',
                trims'[f] # Missing, trims'[f].revision = revision'
         PROVE  trims'[f].loops = Region(published, f)
    <3>1. f \in Faces /\ f \notin late /\ trims'[f] = trims[f]
      BY <2>8, <2>9, <2>10
    <3> QED
      BY <2>1, <2>10, <3>1 DEF IInv, TrimInv
  <2>11. TrimInv'
    <3>1. DOMAIN trims' = Faces
      BY <2>1
    <3>2. \A f \in Faces \ late' :
              trims'[f] # Missing => trims'[f].revision \in 0..revision'
      BY <2>9
    <3>3. \A f \in Resting'.faces \ late' :
              trims'[f] # Missing /\ trims'[f].revision = revision'
                  => trims'[f].loops = Region(Resting', f)
      BY <2>8, <2>10 DEF Keys
    <3> QED
      BY <2>1, <3>1, <3>2, <3>3 DEF TrimInv, TrimHit
  <2> QED
    BY <2>4, <2>6, <2>7, <2>11 DEF IInv
<1>8. CASE SetDocumentSettings
  <2> USE <1>8 DEF SetDocumentSettings, geometry, journal
  <2>1. MeshInv' /\ JournalInv' /\ TreeInv'
    BY DEF IInv, MeshInv, JournalInv, TreeInv, WellFormed, Current, Resting
  <2>2. LengthInv'
    BY DEF IInv, LengthInv, NoLengths
  <2>3. TrimInv'
    BY DEF IInv, MeshInv, TrimInv, TrimHit, WellFormed, Resting, Current
  <2> QED
    BY <2>1, <2>2, <2>3 DEF IInv
<1> QED
  BY <1>1, <1>2, <1>4, <1>5, <1>6, <1>7, <1>8

LEMMA StutterInductive == ASSUME IInv, UNCHANGED vars PROVE IInv'
<1> USE DEF vars, geometry, journal, caches, marks
<1>1. Current' = Current /\ Resting' = Resting
  BY DEF Current, Resting
<1>2. MeshInv' /\ JournalInv' /\ TreeInv'
  BY <1>1 DEF IInv, MeshInv, JournalInv, TreeInv, Region, WellFormed
<1>3. LengthInv' /\ TrimInv'
  BY <1>1 DEF IInv, LengthInv, LengthBefore, TrimInv, TrimHit, Region
<1> QED
  BY <1>2, <1>3 DEF IInv

LEMMA Inductive == IInv /\ [Next]_vars => IInv'
BY EditInductive, ReadInductive, BoundaryInductive, StutterInductive DEF Next

-----------------------------------------------------------------------------
(* A spatial query answers from the exact current bounds of every entity,  *)
(* inside and outside transactions, after rollbacks and net-zero commits,  *)
(* except for the keys a BaseException in a hook has left stray.           *)
THEOREM QueriesNeverStale == Spec => []QueriesExact
<1>1. IInv => QueriesExact
  <2>1. \A k \in Keys : Bounds(k) = Region(Current, k)
    BY DEF Bounds, LiveKeys, Region, Current
  <2> QED
    BY <2>1 DEF IInv, TreeInv, JournalInv, QueriesExact, SearchBounds
<1> QED
  BY Initially, Inductive, <1>1, PTL DEF Spec

(* A cached edge length is the length of the edge as it is now, whatever   *)
(* was moved, removed and rolled back since it was computed.               *)
THEOREM LengthsNeverStale == Spec => []LengthsFresh
<1>1. IInv => LengthsFresh
  BY DEF IInv, LengthInv, LengthsFresh, Bounds, LiveKeys, Region, Current
<1> QED
  BY Initially, Inductive, <1>1, PTL DEF Spec

(* A trim-loop entry that face_trim_loops_uv would return describes the    *)
(* face as it is, except one that was made in the hooks of a commit which  *)
(* a BaseException has undone.                                             *)
THEOREM TrimsNeverStale == Spec => []TrimsFresh
<1>1. IInv => TrimsFresh
  BY DEF IInv, MeshInv, TrimInv, TrimsFresh, Resting, Bounds, LiveKeys, Region, Current
<1> QED
  BY Initially, Inductive, <1>1, PTL DEF Spec

(* The ChangeSet names every entity whose bounds differ between the two    *)
(* published documents, whether its own record was written or not.         *)
THEOREM ChangedRegionsAlwaysReported == Spec => ChangedRegionReported
<1> DEFINE Reported ==
        stage = "open" /\ stage' = "hooks" =>
            \A k \in Keys : Region(published, k) # Bounds(k) =>
                k \in lastChange'.changed \cup lastChange'.updates
<1>1. IInv /\ [Next]_vars => [Reported]_vars
  <2> SUFFICES ASSUME IInv, Next, stage = "open", stage' = "hooks",
                      NEW k \in Keys, Region(published, k) # Bounds(k)
               PROVE  k \in lastChange'.changed \cup lastChange'.updates
    OBVIOUS
  <2>1. ExitCommitting
    BY DEF Next, Enter, Edit, MovePoint, Transform, PutFace, RemoveFace, AddEdge,
           RemoveEdge, Editing, BuildTree, EdgeLength, FaceTrimLoops, ExitFailing,
           Rollback, ExitUnchanged, FinishHooks, InterruptHooks, SetDocumentSettings
  <2>2. /\ lastChange'.changed = Changed
        /\ spatialUpdates \subseteq lastChange'.updates
    BY <2>1 DEF ExitCommitting, ChangeSet
  <2>3. k \in captured \cup spatialUpdates
    BY DEF IInv, JournalInv, Bounds, LiveKeys, Region, Current
  <2>4. k \in Vertices \cup published.edges \cup published.faces \cup LiveKeys
    BY DEF Region, Bounds
  <2> QED
    BY <2>2, <2>3, <2>4 DEF Changed
<1> QED
  BY Initially, Inductive, <1>1, PTL DEF Spec, ChangedRegionReported

=============================================================================
