---------------------------- MODULE DerivedState ----------------------------
(***************************************************************************)
(* What a GeometryModel derives from its points and keeps between calls:   *)
(* the lazily built spatial tree, the edge-length cache and the face trim  *)
(* cache, together with the changed-region bookkeeping of the journal that *)
(* is supposed to keep them honest.                                        *)
(*                                                                         *)
(* Moving a point changes the bounds of every edge and face on it without  *)
(* writing their records, so each edit must announce what it disturbs.     *)
(* The undo of the records themselves is the subject of Transactions.tla;  *)
(* here it is the single value `published`.                                *)
(***************************************************************************)
EXTENDS Naturals, FiniteSets

CONSTANTS
    Vertices, Edges, Faces, \* the keys of the three stores
    Ends,        \* [Edges -> SUBSET Vertices]: the vertices of an edge
    Boundary,    \* [Faces -> SUBSET Edges]: the loops of a face
    QuadFaces,   \* the faces with four corners
    Positions,   \* where a vertex can be
    Missing,     \* no bounds, no record, no cache entry
    MaxRevision  \* bound: no edit starts at this revision

ASSUME DerivedStateAssumption ==
    /\ Vertices \cap Edges = {} /\ Vertices \cap Faces = {} /\ Edges \cap Faces = {}
    /\ Ends \in [Edges -> SUBSET Vertices]
    /\ Boundary \in [Faces -> SUBSET Edges]
    /\ QuadFaces \subseteq Faces
    /\ MaxRevision \in Nat

Keys == Vertices \cup Edges \cup Faces

Support(k) ==
    IF k \in Vertices THEN {k}
    ELSE IF k \in Edges THEN Ends[k]
    ELSE UNION {Ends[e] : e \in Boundary[k]}

VARIABLES
    pos,            \* _vertices: the position of each vertex
    edges, faces,   \* _edges, _faces: the live keys
    born,           \* edges ever created; identifiers do not come back
    revision,       \* _revision
    stage,          \* "idle", "open" or "hooks", as in Transactions
    published,      \* what a rollback restores
    captured,       \* keys of journal.entity_before
    spatialUpdates, \* journal.spatial_updates
    boundsBefore,   \* journal.bounds_before, Missing where absent
    bounded,        \* the keys of journal.bounds_before
    lengthsBefore,  \* journal.edge_length_cache_before
    lengthsCaptured,\* its keys
    hadTree,        \* journal.spatial_index_before is a tree
    tree,           \* _spatial_index: Missing, or bounds by key
    lengths,        \* _edge_length_cache
    trims,          \* _trim_loops_cache: entries for the current Face object
    lastChange,     \* _last_change_set: changed keys, boxes, spatial updates
    stray, late     \* history of interrupted commits, which no action reads:
                    \* the keys whose entry in the tree they left behind, and
                    \* the faces with a trim entry of an undone revision

geometry == <<pos, edges, faces, born>>
journal == <<published, captured, spatialUpdates, boundsBefore, bounded,
             lengthsBefore, lengthsCaptured, hadTree>>
caches == <<tree, lengths, trims>>
marks == <<stray, late>>
vars == <<geometry, revision, stage, journal, caches, lastChange, marks>>

LiveKeys == Vertices \cup edges \cup faces

BoundsAt(p, k) == [v \in Support(k) |-> p[v]]

(* The bounds of a key in a whole document. *)
Region(s, k) ==
    IF k \in Vertices \cup s.edges \cup s.faces THEN BoundsAt(s.pos, k)
    ELSE Missing

(* _entity_bounds: None for a key that is not in the stores. *)
Bounds(k) == IF k \in LiveKeys THEN BoundsAt(pos, k) ELSE Missing

EdgesOn(S) == {e \in edges : Ends[e] \cap S # {}}

(* Mutant of FacesOn: only the faces that move as a whole. *)
FacesWithin(S) == {f \in faces : Support(f) \subseteq S}

FacesOn(S) == {f \in faces : Boundary[f] \cap EdgesOn(S) # {}}

(* Points of a straight edge may coincide while an edit is under way;      *)
(* the commit validation refuses them.                                     *)
Degenerate(e) == Cardinality({pos[v] : v \in Ends[e]}) < Cardinality(Ends[e])

NoBounds == [k \in Keys |-> Missing]
NoLengths == [e \in Edges |-> Missing]
NoTrims == [f \in Faces |-> Missing]

(* A document as loaded: valid geometry and nothing derived yet. *)
Init ==
    /\ pos \in [Vertices -> Positions]
    /\ edges \in SUBSET Edges
    /\ faces \in SUBSET {f \in Faces : Boundary[f] \subseteq edges}
    /\ \A e \in edges : ~Degenerate(e)
    /\ born = edges
    /\ revision = 0
    /\ stage = "idle"
    /\ published = [pos |-> pos, edges |-> edges, faces |-> faces]
    /\ captured = {}
    /\ spatialUpdates = {}
    /\ boundsBefore = NoBounds
    /\ bounded = {}
    /\ lengthsBefore = NoLengths
    /\ lengthsCaptured = {}
    /\ hadTree = FALSE
    /\ tree = Missing
    /\ lengths = NoLengths
    /\ trims = NoTrims
    /\ lastChange = [changed |-> {}, boxes |-> {}, updates |-> {}]
    /\ stray = {}
    /\ late = {}

ForgetJournal ==
    /\ captured' = {}
    /\ spatialUpdates' = {}
    /\ boundsBefore' = NoBounds
    /\ bounded' = {}
    /\ lengthsBefore' = NoLengths
    /\ lengthsCaptured' = {}
    /\ hadTree' = FALSE

Enter ==
    /\ stage = "idle"
    /\ revision < MaxRevision
    /\ stage' = "open"
    /\ published' = [pos |-> pos, edges |-> edges, faces |-> faces]
    /\ hadTree' = (tree # Missing)
    /\ UNCHANGED <<geometry, revision, captured, spatialUpdates, boundsBefore,
                   bounded, lengthsBefore, lengthsCaptured, caches, lastChange,
                   marks>>

-----------------------------------------------------------------------------
(* What every owner write does to the journal and the caches *)

(* Mutant of PopLengths: the last capture wins. *)
PopLengthsLastWins(E) ==
    /\ lengthsCaptured' = lengthsCaptured \cup E
    /\ lengthsBefore' = [e \in Edges |-> IF e \in E
                                         THEN lengths[e] ELSE lengthsBefore[e]]
    /\ lengths' = [e \in Edges |-> IF e \in E THEN Missing ELSE lengths[e]]

(* _capture_edge_caches (first capture wins) and the pop that follows it. *)
PopLengths(E) ==
    /\ lengthsCaptured' = lengthsCaptured \cup E
    /\ lengthsBefore' = [e \in Edges |-> IF e \in E \ lengthsCaptured
                                         THEN lengths[e] ELSE lengthsBefore[e]]
    /\ lengths' = [e \in Edges |-> IF e \in E THEN Missing ELSE lengths[e]]

KeepLengths == UNCHANGED <<lengthsCaptured, lengthsBefore, lengths>>

(* A new Face object leaves the trim entry of the old one unused. *)
DropTrims(F) ==
    /\ trims' = [f \in Faces |-> IF f \in F THEN Missing ELSE trims[f]]
    /\ late' = late \ F

(* bounds_before as assigned by _capture_entity for each new key of keys,  *)
(* over the setdefault values b0 recorded on the keys d0.                  *)
CaptureBounds(keys, current, d0, b0) ==
    /\ captured' = captured \cup keys
    /\ bounded' = bounded \cup d0 \cup keys
    /\ boundsBefore' =
         [k \in Keys |->
            IF k \in keys \ captured THEN current[k]
            ELSE IF k \in d0 \ bounded THEN b0[k]
            ELSE boundsBefore[k]]

CurrentBounds == [k \in Keys |-> Bounds(k)]

Editing ==
    /\ stage = "open"
    /\ UNCHANGED <<revision, stage, published, hadTree, tree, lastChange, stray>>

(* move_point: announce the dependent edges and faces, move the vertex,    *)
(* then write new records for the faces whose surface had to be replaced:  *)
(* all quads, and any other face that no longer matches its surface.       *)
MovePoint(v, p, refitted) ==
    LET moved == [pos EXCEPT ![v] = p]
        E == EdgesOn({v})
        F == FacesOn({v})
        after == [k \in Keys |-> IF k \in LiveKeys THEN BoundsAt(moved, k)
                                 ELSE Missing]
    IN
    /\ Editing
    /\ p # pos[v]
    /\ refitted \subseteq F
    /\ F \cap QuadFaces \subseteq refitted
    /\ pos' = moved
    /\ spatialUpdates' = spatialUpdates \cup E \cup F
    /\ CaptureBounds({v} \cup refitted,
                     [after EXCEPT ![v] = Bounds(v)], E \cup F, CurrentBounds)
    /\ PopLengths(E)
    /\ DropTrims(refitted)
    /\ UNCHANGED <<edges, faces, born>>

(* transform: every affected face is captured before the first point       *)
(* moves, and gets a new record when all of them have moved.               *)
Transform(S, to) ==
    LET F == FacesOn(S)
        E == EdgesOn(S)
    IN
    /\ Editing
    /\ pos' = [v \in Vertices |-> IF v \in S THEN to[v] ELSE pos[v]]
    /\ spatialUpdates' = spatialUpdates \cup E \cup F
    /\ CaptureBounds(S \cup F, CurrentBounds, E, CurrentBounds)
    /\ PopLengths(E)
    /\ DropTrims(F)
    /\ UNCHANGED <<edges, faces, born>>

(* set_face_corners and the like: a new Face record, same points. *)
PutFace(f) ==
    /\ Editing
    /\ f \in faces
    /\ CaptureBounds({f}, CurrentBounds, {}, NoBounds)
    /\ DropTrims({f})
    /\ KeepLengths
    /\ UNCHANGED <<geometry, spatialUpdates>>

RemoveFace(f) ==
    /\ Editing
    /\ f \in faces
    /\ faces' = faces \ {f}
    /\ CaptureBounds({f}, CurrentBounds, {}, NoBounds)
    /\ DropTrims({f})
    /\ KeepLengths
    /\ UNCHANGED <<pos, edges, born, spatialUpdates>>

(* remove_edge is refused while a face uses the edge. *)
RemoveEdge(e) ==
    /\ Editing
    /\ e \in edges
    /\ \A f \in faces : e \notin Boundary[f]
    /\ edges' = edges \ {e}
    /\ CaptureBounds({e}, CurrentBounds, {}, NoBounds)
    /\ PopLengths({e})
    /\ UNCHANGED <<pos, faces, born, spatialUpdates, trims, late>>

AddEdge(e) ==
    /\ Editing
    /\ e \notin born
    /\ ~Degenerate(e)
    /\ edges' = edges \cup {e}
    /\ born' = born \cup {e}
    /\ CaptureBounds({e}, CurrentBounds, {}, NoBounds)
    /\ PopLengths({e})
    /\ UNCHANGED <<pos, faces, spatialUpdates, trims, late>>

-----------------------------------------------------------------------------
(* Reads that leave something behind, possible at every stage *)

(* _spatial: built from whatever the stores hold at the first query. *)
BuildTree ==
    /\ tree = Missing
    /\ tree' = CurrentBounds
    /\ UNCHANGED <<geometry, revision, stage, journal, lengths, trims,
                   lastChange, marks>>

(* edge_length on a miss; the journal keeps the entry it replaces. *)
EdgeLength(e) ==
    /\ e \in edges
    /\ lengths[e] = Missing
    /\ lengths' = [lengths EXCEPT ![e] = Bounds(e)]
    /\ IF stage = "open" /\ e \notin lengthsCaptured
       THEN /\ lengthsCaptured' = lengthsCaptured \cup {e}
            /\ lengthsBefore' = [lengthsBefore EXCEPT ![e] = Missing]
       ELSE UNCHANGED <<lengthsCaptured, lengthsBefore>>
    /\ UNCHANGED <<geometry, revision, stage, published, captured,
                   spatialUpdates, boundsBefore, bounded, hadTree, tree, trims,
                   lastChange, marks>>

(* Mutant of TrimHit: an unchanged Face record is taken for a valid entry. *)
TrimHitByRecord(f) == trims[f] # Missing

(* An entry is used when its revision and its Face object are the current  *)
(* ones; a replaced Face record drops out of `trims`.                      *)
TrimHit(f) == trims[f] # Missing /\ trims[f].revision = revision

(* face_trim_loops_uv, with no journal on the model. *)
FaceTrimLoops(f) ==
    /\ stage # "open"
    /\ f \in faces
    /\ ~TrimHit(f)
    /\ trims' = [trims EXCEPT ![f] = [revision |-> revision,
                                      loops |-> Bounds(f)]]
    /\ late' = late \ {f}
    /\ UNCHANGED <<geometry, revision, stage, journal, tree, lengths,
                   lastChange, stray>>

-----------------------------------------------------------------------------
(* Leaving the transaction *)

(* Mutant of Rollback: keeps a tree that was built from provisional state. *)
RollbackKeepingTree ==
    /\ pos' = published.pos
    /\ edges' = published.edges
    /\ faces' = published.faces
    /\ lengths' = [e \in Edges |-> IF e \in lengthsCaptured
                                   THEN lengthsBefore[e] ELSE lengths[e]]
    /\ trims' = [f \in Faces |-> IF f \in captured THEN Missing ELSE trims[f]]
    /\ tree' = tree
    /\ stage' = "idle"
    /\ ForgetJournal

(* _rollback_transaction: only a tree that predates the journal survives,  *)
(* as the object it is now: what a commit has done to it is not undone.    *)
Rollback ==
    /\ pos' = published.pos
    /\ edges' = published.edges
    /\ faces' = published.faces
    /\ lengths' = [e \in Edges |-> IF e \in lengthsCaptured
                                   THEN lengthsBefore[e] ELSE lengths[e]]
    /\ trims' = [f \in Faces |-> IF f \in captured THEN Missing ELSE trims[f]]
    /\ tree' = IF hadTree THEN tree ELSE Missing
    /\ stage' = "idle"
    /\ ForgetJournal

ExitFailing ==
    /\ stage = "open"
    /\ Rollback
    /\ stray' = IF hadTree THEN stray ELSE {}
    /\ late' = late \ captured
    /\ UNCHANGED <<born, revision, published, lastChange>>

(* The keys whose record is another one than before the transaction; what  *)
(* it both created and removed is not among them.                          *)
Changed == captured \cap (Vertices \cup published.edges \cup published.faces
                            \cup LiveKeys)

(* Every locally touched key is brought up to date in a live tree, also    *)
(* where the transaction had no net effect on it.                          *)
Reconciled == IF tree = Missing THEN {} ELSE captured \cup spatialUpdates

ReconcileTree ==
    /\ tree' = IF tree = Missing THEN tree
               ELSE [k \in Keys |-> IF k \in Reconciled THEN Bounds(k)
                                    ELSE tree[k]]
    /\ stray' = stray \ Reconciled

ChangeSet ==
    [changed |-> Changed,
     boxes |-> {k \in captured : boundsBefore[k] # Bounds(k)},
     updates |-> spatialUpdates \cup Reconciled]

(* _commit_transaction up to the hook loop. *)
ExitCommitting ==
    /\ stage = "open"
    /\ \A e \in edges : ~Degenerate(e)
    /\ Changed # {}
    /\ lastChange' = ChangeSet
    /\ ReconcileTree
    /\ revision' = revision + 1
    /\ stage' = "hooks"
    /\ UNCHANGED <<geometry, journal, lengths, trims, late>>

(* _commit_transaction without a net change: no revision, no hooks. *)
ExitUnchanged ==
    /\ stage = "open"
    /\ Changed = {}
    /\ lastChange' = ChangeSet
    /\ ReconcileTree
    /\ stage' = "idle"
    /\ ForgetJournal
    /\ UNCHANGED <<geometry, revision, published, lengths, trims, late>>

(* Every hook has run; an Exception in one does not leave the loop. *)
FinishHooks ==
    /\ stage = "hooks"
    /\ stage' = "idle"
    /\ published' = [pos |-> pos, edges |-> edges, faces |-> faces]
    /\ ForgetJournal
    /\ UNCHANGED <<geometry, revision, caches, lastChange, marks>>

(* A BaseException that is no Exception leaves the hook loop, and          *)
(* _exit_transaction rolls the commit back: the revision returns to what   *)
(* it was, but a tree that predates the journal has been reconciled by now *)
(* and a trim entry read in a hook is one of the revision that is undone.  *)
InterruptHooks ==
    /\ stage = "hooks"
    /\ Rollback
    /\ revision' = revision - 1
    /\ stray' = IF hadTree
                THEN stray \cup {k \in Reconciled : Region(published, k) # Bounds(k)}
                ELSE {}
    /\ late' = (late \cup {f \in Faces : TrimHit(f)}) \ captured
    /\ UNCHANGED <<born, published, lastChange>>

(* set_document_settings: new tolerances invalidate what is derived. *)
SetDocumentSettings ==
    /\ stage = "idle"
    /\ revision < MaxRevision
    /\ revision' = revision + 1
    /\ lengths' = NoLengths
    /\ tree' = Missing
    /\ lastChange' = [changed |-> {}, boxes |-> {}, updates |-> {}]
    /\ stray' = {}
    /\ UNCHANGED <<geometry, stage, journal, trims, late>>

Edit ==
    \/ \E v \in Vertices, p \in Positions, R \in SUBSET Faces : MovePoint(v, p, R)
    \/ \E S \in (SUBSET Vertices) \ {{}} :
          \E to \in [S -> Positions] : Transform(S, to)
    \/ \E f \in Faces : PutFace(f) \/ RemoveFace(f)
    \/ \E e \in Edges : AddEdge(e) \/ RemoveEdge(e)

Next ==
    \/ Enter
    \/ Edit
    \/ BuildTree
    \/ \E e \in Edges : EdgeLength(e)
    \/ \E f \in Faces : FaceTrimLoops(f)
    \/ ExitFailing
    \/ ExitCommitting
    \/ ExitUnchanged
    \/ FinishHooks
    \/ InterruptHooks
    \/ SetDocumentSettings

Spec == Init /\ [][Next]_vars

-----------------------------------------------------------------------------
(* Properties *)

BoundsType == {Missing} \cup UNION {[Support(k) -> Positions] : k \in Keys}

TypeOK ==
    /\ pos \in [Vertices -> Positions]
    /\ edges \subseteq Edges
    /\ faces \subseteq Faces
    /\ born \subseteq Edges
    /\ revision \in 0..MaxRevision
    /\ stage \in {"idle", "open", "hooks"}
    /\ captured \subseteq Keys
    /\ spatialUpdates \subseteq Edges \cup Faces
    /\ bounded \subseteq Keys
    /\ lengthsCaptured \subseteq Edges
    /\ hadTree \in BOOLEAN
    /\ \A k \in Keys : boundsBefore[k] \in BoundsType
    /\ \A e \in Edges : {lengths[e], lengthsBefore[e]} \subseteq BoundsType
    /\ tree # Missing => \A k \in Keys : tree[k] \in BoundsType
    /\ stray \subseteq Keys /\ (tree = Missing => stray = {})
    /\ late \subseteq {f \in Faces : trims[f] # Missing}

(* The bounds spatial_candidates uses for a key: provisional ones for the  *)
(* keys the open journal names, the tree's for the rest.                   *)
SearchBounds(k) ==
    IF stage = "open" /\ captured # {} /\ k \in captured \cup spatialUpdates
    THEN Bounds(k)
    ELSE tree[k]

(* A spatial query answers from the exact current bounds of every entity,  *)
(* also inside a transaction, on a tree built before, during or after any  *)
(* edit, and after a rollback or a net-zero commit.  The one exception:    *)
(* keys whose bounds an interrupted commit had changed in a tree older     *)
(* than its transaction, until a later commit touches them.                *)
QueriesExact ==
    tree # Missing => \A k \in Keys \ stray : SearchBounds(k) = Bounds(k)

(* A cached edge length is the length of the edge as it is now.            *)
LengthsFresh ==
    \A e \in Edges : lengths[e] # Missing => lengths[e] = Bounds(e)

(* A trim-loop entry that would be returned describes the face as it is.   *)
(* The one exception: an entry made while hooks ran that were interrupted, *)
(* when the revision it was made at comes round again.                     *)
TrimsFresh ==
    stage # "open" =>
        \A f \in faces \ late : TrimHit(f) => trims[f].loops = Bounds(f)

(* The ChangeSet names every entity whose bounds differ between the two    *)
(* published documents, whether its own record was written or not.         *)
ChangedRegionReported ==
    [][stage = "open" /\ stage' = "hooks" =>
         \A k \in Keys : Region(published, k) # Bounds(k) =>
             k \in lastChange'.changed \cup lastChange'.updates]_vars

(* "Capture every dependent bound while the original vertex is still live; *)
(* capturing it later ... would ... lose the old changed region"           *)
(* (move_point): a face record that is written is reported with its box    *)
(* whenever its bounds changed.                                            *)
FaceBoxesReported ==
    [][stage = "open" /\ stage' = "hooks" =>
         \A f \in Faces \cap lastChange'.changed :
             Region(published, f) # Bounds(f) => f \in lastChange'.boxes]_vars

=============================================================================
