--------------------------- MODULE PlanApplyProofs ---------------------------
(***************************************************************************)
(* What PlanApply.tla guarantees for every set of batches, whatever the    *)
(* caller, the hooks and their exceptions do between plan and application: *)
(* a plan can only be applied to the document it was made for, it          *)
(* publishes what it showed, and a plan that passes its preflight is       *)
(* applied or leaves nothing behind.                                       *)
(***************************************************************************)
EXTENDS PlanApply, RefinementProofs, NaturalRecursion, FiniteSetTheorems

(* What a reader finds when the journal, if there is one, is rolled back:  *)
(* also the commit whose hooks are running can still be.                   *)
Undoable == stage \in {"open", "hooks"}

Held == IF Undoable THEN Before ELSE Draft

HeldRevision == IF Undoable THEN revisionBefore ELSE revision

(* A journal begins and ends empty. *)
JournalFresh ==
    /\ stage \in {"idle", "notify"} =>
           depth = 0 /\ ~failure /\ ~exact /\ tagChanges = {}
    /\ stage = "open" => depth >= 1
    /\ stage = "hooks" => revision = revisionBefore + 1

Allocated(content, ids) ==
    \A i \in Ids : content.entities[i] # Missing \/ i \in content.retired => i < ids

(* The revision of a plan made at rest is its document's, as long as       *)
(* nothing newer can be what is left in the end.                           *)
PlanInv ==
    plan # NoPlan =>
        /\ plan.batch \in Batches /\ plan.revision \in Nat
        /\ plan.atRest =>
               /\ plan.basis \in Contents /\ plan.ids \in 1..(MaxId + 1)
               /\ Allocated(plan.basis, plan.ids)
               /\ plan.preview = Executed(Clone(plan.basis, plan.ids), plan.batch)
               /\ plan.preview.ok
               /\ plan.ids <= nextId /\ (Undoable => plan.ids <= allocatorBefore)
               /\ plan.revision <= HeldRevision
               /\ plan.revision = HeldRevision => plan.basis = Held

(* The clones the running application started from, and the plan's own.    *)
OwnRun == Runs(Clone(app.content, app.ids), plan.batch)
PlannedRun == Runs(Clone(plan.basis, plan.ids), plan.batch)

Reached(s) == s.ok /\ entities = s.entities /\ retired = s.retired

(* Two clones after the same commands: alike below ids, and as many live   *)
(* entities in all.                                                        *)
Alike(s, t, ids) ==
    /\ ids <= t.ids /\ t.ids <= s.ids
    /\ \A i \in Ids : i < ids => /\ s.entities[i] = t.entities[i]
                                 /\ i \in s.retired <=> i \in t.retired
    /\ \A i \in Ids : /\ i >= s.ids => s.entities[i] = Missing
                      /\ i >= t.ids => t.entities[i] = Missing
    /\ Cardinality(Live(s.entities)) = Cardinality(Live(t.entities))

IsApp == app = [plan |-> app.plan, next |-> app.next, outer |-> app.outer,
                content |-> app.content, revision |-> app.revision,
                ids |-> app.ids]

(* Inside its transaction the application has come exactly as far as the   *)
(* preflight had after as many commands; so has the plan's own preview, up *)
(* to the identifiers of new entities.                                     *)
BatchInv ==
    LET k == app.next - 1
    IN  /\ stage = "open" /\ depth = 1 /\ ~failure /\ ~exact
        /\ k \in 0..Len(plan.batch)
        /\ Reached(OwnRun[k]) /\ nextId = OwnRun[k].ids
        /\ \A i \in tagChanges : tags[i] = {}
        /\ k > 0 => Changed
        /\ plan.atRest => Alike(OwnRun[k], PlannedRun[k], plan.ids)

CommittedInv ==
    LET n == Len(plan.batch)
    IN  /\ stage \in {"hooks", "idle"}
        /\ revision = app.revision + 1
        /\ lastChange.before = app.revision /\ lastChange.after = revision
        /\ Reached(OwnRun[n]) /\ settings = app.content.settings
        /\ plan.atRest => Alike(OwnRun[n], PlannedRun[n], plan.ids)

OuterInv ==
    /\ app.content \in Contents /\ app.ids \in 1..(MaxId + 1)
    /\ app.revision = plan.revision /\ Digest(plan) \notin ledger
    /\ plan.atRest => app.content = plan.basis
    /\ Executed(Clone(app.content, app.ids), plan.batch).ok
    /\ Undoable => Before = app.content /\ revisionBefore = app.revision
    /\ IF app.next > 0 THEN BatchInv ELSE CommittedInv

AppInv ==
    app # NoApplication =>
        /\ IsApp /\ app.next \in Nat /\ app.plan = plan /\ plan # NoPlan
        /\ app.outer => OuterInv

PlanTypes == plan \in Plans \cup {NoPlan} /\ app \in Applications \cup {NoApplication}

PlanIInv == PlanTypes /\ JournalFresh /\ PlanInv /\ AppInv

KnownBatches ==
    /\ plan # NoPlan => plan.batch \in Batches
    /\ app # NoApplication =>
           IsApp /\ app.plan.batch \in Batches /\ app.next \in Nat

-----------------------------------------------------------------------------
(* Batches on a clone *)

LEMMA StagedType ==
    ASSUME NEW s \in CloneStates, NEW c \in Commands
    PROVE  Staged(s, c) \in CloneStates
<1>1. c.value \in Records
  BY DEF Commands, Creates, ChangesTo, Deletes, Records
<1>2. c.id \in Ids \/ c.op = "create"
  BY DEF Commands, Creates, ChangesTo, Deletes
<1> USE DEF CloneStates
<1>3. CASE ~s.ok \/ ~Active(s.entities, c)
  BY <1>3 DEF Staged
<1>4. CASE s.ok /\ Active(s.entities, c) /\ c.op = "create"
  <2>1. Staged(s, c) = [ok |-> s.ok, retired |-> s.retired, ids |-> s.ids + 1,
                        entities |-> [s.entities EXCEPT ![s.ids] = c.value]]
    BY <1>4 DEF Staged
  <2>2. [s.entities EXCEPT ![s.ids] = c.value] \in [Ids -> Records]
    BY <1>1
  <2> QED
    BY <2>1, <2>2
<1>5. CASE s.ok /\ Active(s.entities, c) /\ c.op # "create"
  <2>1. Staged(s, c) = [ok |-> s.ok, ids |-> s.ids,
                        retired |-> IF c.op = "delete" THEN s.retired \cup {c.id}
                                    ELSE s.retired,
                        entities |-> [s.entities EXCEPT ![c.id] = c.value]]
    BY <1>5 DEF Staged
  <2>2. [s.entities EXCEPT ![c.id] = c.value] \in [Ids -> Records]
    BY <1>1
  <2> QED
    BY <1>2, <1>5, <2>1, <2>2
<1> QED
  BY <1>3, <1>4, <1>5

(* The recursive definition of Runs means what it says. *)
LEMMA RunsDefined ==
    ASSUME NEW clone \in CloneStates, NEW b \in Batches
    PROVE  /\ Len(b) \in Nat \ {0} /\ \A k \in 1..Len(b) : b[k] \in Commands
           /\ Runs(clone, b) \in [0..Len(b) -> CloneStates]
           /\ Runs(clone, b)[0] = clone
           /\ \A k \in 1..Len(b) :
                  Runs(clone, b)[k] = Staged(Runs(clone, b)[k - 1], b[k])
<1> DEFINE N == Len(b)
           R == Runs(clone, b)
           g == [p \in CloneStates \X (1..N) |-> Staged(p[1], b[p[2]])]
           Def(f) == [k \in 0..N |-> IF k = 0 THEN clone
                                     ELSE Staged(f[k - 1], b[k])]
<1>1. N \in Nat \ {0} /\ \A k \in 1..N : b[k] \in Commands
  BY BatchesAssumption
<1>2. g \in [CloneStates \X (1..N) -> CloneStates]
  <2> SUFFICES ASSUME NEW p \in CloneStates \X (1..N)
               PROVE  Staged(p[1], b[p[2]]) \in CloneStates
    OBVIOUS
  <2> QED
    BY <1>1, StagedType
<1>3. PICK f \in [0..N -> CloneStates] :
          f[0] = clone /\ \A n \in 1..N : f[n] = g[<<f[n - 1], n>>]
  <2> HIDE DEF g, N
  <2>1. PICK f : Iterates(f, CloneStates, clone, N, g)
    BY <1>1, <1>2, SegmentRecursion
  <2> QED
    BY <2>1 DEF Iterates
<1>4. f = Def(f)
  <2> SUFFICES ASSUME NEW n \in 1..N PROVE f[n] = Staged(f[n - 1], b[n])
    BY <1>1, <1>3
  <2>1. f[n - 1] \in CloneStates
    BY <1>1, <1>3
  <2> QED
    BY <1>3, <2>1
<1>5. R = Def(R)
  BY <1>4 DEF Runs
<1>6. R[0] = clone /\ \A k \in 1..N : R[k] = Staged(R[k - 1], b[k])
  <2> HIDE DEF R
  <2> QED
    BY <1>1, <1>5
<1>7. \A k \in 0..N : R[k] \in CloneStates
  <2> DEFINE T == {k \in 0..N : R[k] \in CloneStates}
  <2> HIDE DEF R
  <2>1. 0 \in T
    BY <1>1, <1>6
  <2>2. ASSUME NEW n \in 0..N, n \in T, n < N PROVE n + 1 \in T
    <3>1. n + 1 \in 1..N /\ n + 1 - 1 = n
      BY <1>1, <2>2
    <3>2. R[n + 1] = Staged(R[n], b[n + 1])
      BY <1>6, <3>1
    <3> QED
      BY <1>1, <2>2, <3>1, <3>2, StagedType
  <2>3. \A n \in 0..N : n \in T
    <3> HIDE DEF T, N
    <3> QED
      BY <1>1, <2>1, <2>2, SegmentInduction
  <2> QED
    BY <2>3
<1>8. R \in [0..N -> CloneStates]
  <2> HIDE DEF R
  <2> QED
    BY <1>5, <1>7
<1> QED
  BY <1>1, <1>6, <1>8

(* A command that failed on a clone stops the batch for good. *)
LEMMA RunsOk ==
    ASSUME NEW clone \in CloneStates, NEW b \in Batches,
           Runs(clone, b)[Len(b)].ok, NEW j \in 0..Len(b)
    PROVE  Runs(clone, b)[j].ok
<1> DEFINE N == Len(b)
           R == Runs(clone, b)
           T == {k \in 0..N : k >= j => ~R[k].ok}
<1>1. /\ N \in Nat /\ \A k \in 0..N : R[k] \in CloneStates
      /\ \A k \in 1..N : R[k] = Staged(R[k - 1], b[k])
  BY RunsDefined
<1> HIDE DEF R
<1> SUFFICES ASSUME ~R[j].ok PROVE FALSE
  BY DEF R
<1>2. 0 \in T
  BY <1>1
<1>3. ASSUME NEW n \in 0..N, n \in T, n < N PROVE n + 1 \in T
  <2>1. n + 1 \in 1..N /\ n + 1 - 1 = n
    BY <1>1, <1>3
  <2>2. R[n + 1] = Staged(R[n], b[n + 1]) /\ R[n] \in CloneStates
    BY <1>1, <2>1
  <2>3. CASE n >= j
    BY <1>3, <2>1, <2>2, <2>3 DEF Staged, CloneStates
  <2>4. CASE ~(n >= j)
    BY <1>1, <2>1, <2>4
  <2> QED
    BY <2>3, <2>4
<1>4. \A n \in 0..N : n \in T
  <2> HIDE DEF T, N
  <2> QED
    BY <1>1, <1>2, <1>3, SegmentInduction
<1>5. N \in T
  BY <1>1, <1>4
<1> QED
  BY <1>1, <1>5 DEF R

LEMMA LiveFinite ==
    ASSUME NEW store
    PROVE  IsFiniteSet(Live(store))
<1>1. IsFiniteSet(Ids)
  BY FS_Interval, TransactionsAssumption DEF Ids
<1> QED
  BY <1>1, FS_Subset DEF Live

LEMMA AlikeGrown ==
    ASSUME NEW S, NEW T, IsFiniteSet(S), IsFiniteSet(T),
           Cardinality(S) = Cardinality(T), NEW x, NEW y, x \notin S, y \notin T
    PROVE  Cardinality(S \cup {x}) = Cardinality(T \cup {y})
BY FS_AddElement

LEMMA AlikeShrunk ==
    ASSUME NEW S, NEW T, IsFiniteSet(S), IsFiniteSet(T),
           Cardinality(S) = Cardinality(T), NEW x \in S, NEW y \in T
    PROVE  Cardinality(S \ {x}) = Cardinality(T \ {y})
BY FS_RemoveElement

(* The same command on two clones that are alike leaves them alike. *)
LEMMA AlikeStep ==
    ASSUME NEW s \in CloneStates, NEW t \in CloneStates, NEW c \in Commands,
           NEW ids \in Nat \ {0}, Alike(s, t, ids),
           Staged(s, c).ok, Staged(t, c).ok, c.op = "create" => s.ids \in Ids
    PROVE  Alike(Staged(s, c), Staged(t, c), ids)
<1> DEFINE s2 == Staged(s, c)
           t2 == Staged(t, c)
<1>a. s2 \in CloneStates /\ t2 \in CloneStates
  BY StagedType
<1> USE DEF CloneStates
<1>b. /\ s.ok /\ Active(s.entities, c) /\ t.ok /\ Active(t.entities, c)
  BY DEF Staged
<1>0. /\ s.entities \in [Ids -> Records] /\ t.entities \in [Ids -> Records]
      /\ s2.entities \in [Ids -> Records] /\ t2.entities \in [Ids -> Records]
      /\ s.ids \in Nat /\ t.ids \in Nat
      /\ s.retired \subseteq Ids /\ t.retired \subseteq Ids
  BY <1>a
<1>c. /\ IsFiniteSet(Live(s.entities)) /\ IsFiniteSet(Live(t.entities))
      /\ ids <= t.ids /\ t.ids <= s.ids
      /\ Cardinality(Live(s.entities)) = Cardinality(Live(t.entities))
  BY LiveFinite DEF Alike
<1>1. CASE c.op = "create"
  <2>1. c.value \in Records /\ c.value # Missing
    BY <1>1, TransactionsAssumption
       DEF Commands, Creates, ChangesTo, Deletes, Records
  <2>2. /\ s2.entities = [s.entities EXCEPT ![s.ids] = c.value]
        /\ t2.entities = [t.entities EXCEPT ![t.ids] = c.value]
        /\ s2.ids = s.ids + 1 /\ t2.ids = t.ids + 1
        /\ s2.retired = s.retired /\ t2.retired = t.retired
    BY <1>b, <1>1 DEF Staged
  <2>3. /\ s.ids \in Ids /\ t.ids \in Ids
        /\ s.entities[s.ids] = Missing /\ t.entities[t.ids] = Missing
    <3>1. s.ids \in Ids /\ t.ids \in Ids
      <4>1. t.ids >= 1 /\ t.ids <= s.ids /\ s.ids \in 1..MaxId
        BY <1>0, <1>1, <1>c DEF Ids
      <4> QED
        BY <1>0, <4>1, TransactionsAssumption DEF Ids
    <3>2. t.ids >= t.ids /\ s.ids >= s.ids
      BY <1>0
    <3> QED
      BY <3>1, <3>2 DEF Alike
  <2>4. /\ Live(s2.entities) = Live(s.entities) \cup {s.ids}
        /\ Live(t2.entities) = Live(t.entities) \cup {t.ids}
        /\ s.ids \notin Live(s.entities) /\ t.ids \notin Live(t.entities)
    BY <1>0, <2>1, <2>2, <2>3 DEF Live
  <2>5. Cardinality(Live(s2.entities)) = Cardinality(Live(t2.entities))
    BY <1>c, <2>4, AlikeGrown
  <2>6. \A i \in Ids : i < ids => i # s.ids /\ i # t.ids
    BY <1>0, <1>c DEF Ids
  <2>7. \A i \in Ids : /\ i >= s.ids + 1 => i >= s.ids /\ i # s.ids
                       /\ i >= t.ids + 1 => i >= t.ids /\ i # t.ids
    BY <1>0 DEF Ids
  <2>8. ids <= t.ids + 1 /\ t.ids + 1 <= s.ids + 1
    BY <1>0, <1>c
  <2> QED
    BY <1>0, <2>2, <2>5, <2>6, <2>7, <2>8 DEF Alike
<1>2. CASE c.op # "create"
  <2>1. /\ c.id \in Ids /\ c.value \in Records
        /\ s.entities[c.id] # Missing /\ t.entities[c.id] # Missing
        /\ c.value = Missing <=> c.op = "delete"
    BY <1>b, <1>2, TransactionsAssumption
       DEF Commands, Creates, ChangesTo, Deletes, Records, Active
  <2>2. /\ s2.entities = [s.entities EXCEPT ![c.id] = c.value]
        /\ t2.entities = [t.entities EXCEPT ![c.id] = c.value]
        /\ s2.ids = s.ids /\ t2.ids = t.ids
        /\ s2.retired = IF c.op = "delete" THEN s.retired \cup {c.id} ELSE s.retired
        /\ t2.retired = IF c.op = "delete" THEN t.retired \cup {c.id} ELSE t.retired
    BY <1>b, <1>2 DEF Staged
  <2>3. Cardinality(Live(s2.entities)) = Cardinality(Live(t2.entities))
    <3>1. CASE c.op = "delete"
      <4>1. /\ Live(s2.entities) = Live(s.entities) \ {c.id}
            /\ Live(t2.entities) = Live(t.entities) \ {c.id}
            /\ c.id \in Live(s.entities) /\ c.id \in Live(t.entities)
        BY <1>0, <2>1, <2>2, <3>1 DEF Live
      <4> QED
        BY <1>c, <4>1, AlikeShrunk
    <3>2. CASE c.op # "delete"
      <4>1. /\ Live(s2.entities) = Live(s.entities)
            /\ Live(t2.entities) = Live(t.entities)
        BY <1>0, <2>1, <2>2, <3>2 DEF Live
      <4> QED
        BY <1>c, <4>1
    <3> QED
      BY <3>1, <3>2
  <2>4. ~(c.id >= s.ids) /\ ~(c.id >= t.ids)
    BY <2>1 DEF Alike
  <2> QED
    BY <1>0, <1>c, <2>2, <2>3, <2>4 DEF Alike
<1> QED
  BY <1>1, <1>2

-----------------------------------------------------------------------------
(* Steps of the model *)

LEMMA FreshStep ==
    ASSUME TypeOK, Consistent, JournalFresh, [Next]_vars
    PROVE  JournalFresh'
<1>0. stage = "open" => revisionBefore = revision
  BY DEF Consistent, JournalConsistent
<1>1. CASE EnterOuter
  BY <1>1 DEF EnterOuter, JournalFresh
<1>2. CASE EnterNested \/ \E failed \in BOOLEAN : ExitNested(failed)
  BY <1>2 DEF EnterNested, ExitNested, JournalFresh, TypeOK
<1>3. CASE Edit
  <2>1. EditFrame
    BY <1>3 DEF Edit, AddEntity, PutEntity, RemoveEntity, DiscardEntity,
         RecordReplacement, Tag, Untag
  <2> QED
    BY <2>1 DEF EditFrame, JournalFresh
<1>4. CASE RequestExactRollback
  BY <1>4 DEF RequestExactRollback, JournalFresh
<1>5. CASE Rollback \/ ExitUnchanged \/ FinishHooks
  BY <1>5 DEF Rollback, ExitUnchanged, FinishHooks, DropJournal, JournalFresh
<1>6. CASE ExitCommitting
  BY <1>0, <1>6 DEF ExitCommitting, JournalFresh, journal
<1>7. CASE RestoreTopology \/ \E s \in Settings : SetDocumentSettings(s)
  BY <1>7 DEF RestoreTopology, SetDocumentSettings, JournalFresh, journal
<1>8. CASE HookInterruptsNotice
  BY <1>8 DEF HookInterruptsNotice, JournalFresh, journal
<1>9. CASE \/ TopologySnapshot \/ HookReturns \/ HookRaises \/ UNCHANGED vars
           \/ \E n \in Floors : ReserveIds(n)
  <2>1. UNCHANGED <<stage, journal, revision>>
    BY <1>9 DEF TopologySnapshot, HookReturns, HookRaises, vars, ReserveIds
  <2> QED
    BY <2>1 DEF JournalFresh, journal
<1> QED
  BY <1>1, <1>2, <1>3, <1>4, <1>5, <1>6, <1>7, <1>8, <1>9
     DEF Next, HookStep, HookFails, HookInterruptsCommit, ExitFailing

(* What is held changes only under a larger revision, also when a hook     *)
(* interrupts a commit and its revision is taken back.                     *)
LEMMA HeldStep ==
    ASSUME TypeOK, TypeOK', Consistent, Consistent', JournalFresh, [Next]_vars
    PROVE  \/ Held' = Held /\ HeldRevision' = HeldRevision
           \/ HeldRevision < HeldRevision'
<1> USE DEF Held, HeldRevision, Undoable
<1>0. /\ revision \in Nat /\ revisionBefore \in Nat
      /\ stage = "open" => revisionBefore = revision
      /\ stage \in {"idle", "notify"} =>
             captured = {} /\ tagsCaptured = {} /\ replaced = {}
  BY DEF Consistent, JournalConsistent, TypeOK
<1>1. CASE EnterOuter
  <2>1. stage = "idle" /\ stage' = "open" /\ revisionBefore' = revision
        /\ UNCHANGED <<document, captured, entityBefore, tagsCaptured,
                       tagsBefore, replaced>>
    BY <1>1 DEF EnterOuter
  <2>2. Before' = Draft
    BY <1>0, <2>1 DEF Before, Draft, document, TypeOK
  <2> QED
    BY <2>1, <2>2
<1>2. CASE Edit
  <2>1. Before' = Before
    BY <1>2, EditEffect DEF Consistent
  <2>2. EditFrame
    BY <1>2 DEF Edit, AddEntity, PutEntity, RemoveEntity, DiscardEntity,
         RecordReplacement, Tag, Untag
  <2> QED
    BY <2>1, <2>2 DEF EditFrame
<1>3. CASE Rollback /\ Undoable /\ UNCHANGED <<settings, snapshot>>
  <2>1. Published' = Before /\ stage' = "idle" /\ revision' = revisionBefore
    BY <1>3, RollbackEffect DEF Rollback
  <2> QED
    BY <1>3, <2>1 DEF Published
<1>4. CASE ExitUnchanged
  <2>1. stage = "open" /\ stage' = "idle" /\ ~Changed /\ revision' = revision
        /\ UNCHANGED document
    BY <1>4 DEF ExitUnchanged
  <2>2. Draft = Before /\ Draft' = Draft
    BY <2>1, UnchangedDraft DEF Draft, document
  <2> QED
    BY <1>0, <2>1, <2>2
<1>5. CASE ExitCommitting
  <2>1. stage = "open" /\ stage' = "hooks" /\ UNCHANGED <<document, journal>>
    BY <1>5 DEF ExitCommitting
  <2> QED
    BY <2>1 DEF Before, document, journal
<1>6. CASE RestoreTopology \/ \E s \in Settings : SetDocumentSettings(s)
  BY <1>0, <1>6 DEF RestoreTopology, SetDocumentSettings
<1>7. CASE FinishHooks
  <2>1. stage \in {"hooks", "notify"} /\ stage' = "idle" /\ revision' = revision
        /\ UNCHANGED document
    BY <1>7 DEF FinishHooks, Notifying
  <2>2. Draft' = Draft
    BY <2>1 DEF Draft, document
  <2>3. stage = "hooks" => revision = revisionBefore + 1
    BY DEF JournalFresh
  <2> QED
    BY <1>0, <2>1, <2>2, <2>3
<1>8. CASE HookInterruptsNotice
  BY <1>8 DEF HookInterruptsNotice, Draft, document
<1>9. CASE \/ EnterNested \/ RequestExactRollback \/ TopologySnapshot
           \/ HookReturns \/ HookRaises \/ UNCHANGED vars
           \/ \E failed \in BOOLEAN : ExitNested(failed)
           \/ \E n \in Floors : ReserveIds(n)
  <2>1. UNCHANGED <<stage, document, revision, revisionBefore, captured,
                    entityBefore, tagsCaptured, tagsBefore, replaced>>
    BY <1>9 DEF EnterNested, RequestExactRollback, TopologySnapshot,
       HookReturns, HookRaises, vars, ExitNested, ReserveIds, journal
  <2> QED
    BY <2>1 DEF Before, Draft, document
<1> QED
  BY <1>1, <1>2, <1>3, <1>4, <1>5, <1>6, <1>7, <1>8, <1>9
     DEF Next, HookStep, HookFails, HookInterruptsCommit, ExitFailing, publication

(* The allocator never falls below where it was at rest, not even after    *)
(* the exact rollback of a later transaction.                              *)
LEMMA FloorStep ==
    ASSUME TypeOK, TypeOK', Consistent, [Next]_vars, NEW n \in Nat,
           n <= nextId, Undoable => n <= allocatorBefore
    PROVE  n <= nextId' /\ (Undoable' => n <= allocatorBefore')
<1> USE DEF Undoable
<1>0. nextId \in Nat /\ nextId' \in Nat /\ allocatorBefore \in Nat
  BY DEF TypeOK
<1>1. CASE EnterOuter
  BY <1>1 DEF EnterOuter
<1>2. CASE Edit
  <2>1. nextId <= nextId'
    BY <1>2, EditEffect DEF Consistent
  <2>2. EditFrame
    BY <1>2 DEF Edit, AddEntity, PutEntity, RemoveEntity, DiscardEntity,
         RecordReplacement, Tag, Untag
  <2> QED
    BY <1>0, <2>1, <2>2 DEF EditFrame
<1>3. CASE Rollback /\ Undoable
  BY <1>3 DEF Rollback
<1>4. CASE RestoreTopology
  <2>1. nextId <= nextId'
    BY <1>0, <1>4 DEF RestoreTopology, RestoredIds
  <2> QED
    BY <1>0, <1>4, <2>1 DEF RestoreTopology
<1>5. CASE \E m \in Floors : ReserveIds(m)
  <2>1. nextId < nextId' /\ UNCHANGED <<stage, journal>>
    BY <1>5 DEF ReserveIds
  <2> QED
    BY <1>0, <2>1 DEF journal
<1>6. CASE \/ EnterNested \/ RequestExactRollback \/ TopologySnapshot
           \/ HookReturns \/ HookRaises \/ UNCHANGED vars \/ ExitCommitting
           \/ ExitUnchanged \/ FinishHooks \/ HookInterruptsNotice
           \/ \E failed \in BOOLEAN : ExitNested(failed)
           \/ \E s \in Settings : SetDocumentSettings(s)
  <2>1. /\ nextId' = nextId
        /\ Undoable' => Undoable /\ allocatorBefore' = allocatorBefore
    BY <1>6 DEF EnterNested, RequestExactRollback, TopologySnapshot,
       HookReturns, HookRaises, vars, ExitCommitting, ExitUnchanged, FinishHooks,
       HookInterruptsNotice, ExitNested, SetDocumentSettings, journal
  <2> QED
    BY <2>1
<1> QED
  BY <1>1, <1>2, <1>3, <1>4, <1>5, <1>6
     DEF Next, HookStep, HookFails, HookInterruptsCommit, ExitFailing

-----------------------------------------------------------------------------
(* Plans *)

(* Planning and applying reach the model through its owner's operations    *)
(* only.                                                                   *)
LEMMA ModelStep ==
    ASSUME KnownBatches, [PlanNext]_allVars
    PROVE  [Next]_vars
<1>1. CASE \E b \in Batches : PlanCommands(b)
  BY <1>1 DEF PlanCommands
<1>2. CASE BeginApply
  BY <1>2 DEF BeginApply, Next
<1>3. CASE ApplyCommand
  <2> DEFINE c == app.plan.batch[app.next]
  <2>1. /\ app.plan.batch \in Batches /\ app.next \in Nat
        /\ app.next > 0 /\ app.next <= Len(app.plan.batch)
    BY <1>3 DEF ApplyCommand, Running, KnownBatches
  <2>2. c \in Commands
    BY <2>1, BatchesAssumption
  <2>3. ASSUME Execute(c) PROVE Edit
    <3> HIDE DEF c
    <3>1. CASE c.op = "create"
      BY <2>2, <2>3, <3>1 DEF Execute, Edit, Commands, Creates, ChangesTo, Deletes
    <3>2. CASE c.op = "change"
      BY <2>2, <2>3, <3>2 DEF Execute, Edit, Commands, Creates, ChangesTo, Deletes
    <3>3. CASE c.op = "delete"
      BY <2>2, <2>3, <3>3 DEF Execute, Edit, Commands, Creates, ChangesTo, Deletes
    <3> QED
      BY <2>3, <3>1, <3>2, <3>3 DEF Execute
  <2>4. Execute(c) \/ ExitFailing(TRUE) \/ ExitNested(TRUE)
    BY <1>3 DEF ApplyCommand
  <2> QED
    BY <2>3, <2>4 DEF Next
<1>4. CASE EndBatch
  BY <1>4 DEF EndBatch, Next
<1>5. CASE ConcludeApply
  BY <1>5 DEF ConcludeApply
<1>6. CASE Notify
  BY <1>6 DEF Notify, Next, HookStep, HookFails, Notifying, HookReturns, HookRaises,
     HookInterruptsNotice, HookInterruptsCommit
<1>7. CASE Caller
  BY <1>7 DEF Caller, CallerStep, Next
<1>8. CASE UNCHANGED allVars
  BY <1>8 DEF allVars
<1> QED
  BY <1>1, <1>2, <1>3, <1>4, <1>5, <1>6, <1>7, <1>8 DEF PlanNext

(* The plan is made once and kept; its document stays the held one until a *)
(* larger revision comes.                                                  *)
LEMMA PlanStep ==
    ASSUME TypeOK, TypeOK', Consistent, Consistent', JournalFresh, PlanInv,
           [Next]_vars, [PlanNext]_allVars
    PROVE  PlanInv'
<1>1. [Next]_vars
  OBVIOUS
<1>2. ASSUME plan' = plan PROVE PlanInv'
  <2> SUFFICES ASSUME plan # NoPlan, plan.atRest
               PROVE  /\ plan.ids <= nextId'
                      /\ Undoable' => plan.ids <= allocatorBefore'
                      /\ plan.revision <= HeldRevision'
                      /\ plan.revision = HeldRevision' => plan.basis = Held'
    BY <1>2 DEF PlanInv
  <2>1. /\ plan.ids \in 1..(MaxId + 1) /\ plan.revision \in Nat
        /\ plan.ids <= nextId /\ (Undoable => plan.ids <= allocatorBefore)
        /\ plan.revision <= HeldRevision
        /\ plan.revision = HeldRevision => plan.basis = Held
    BY DEF PlanInv
  <2>2. plan.ids \in Nat
    BY <2>1
  <2>3. plan.ids <= nextId' /\ (Undoable' => plan.ids <= allocatorBefore')
    BY <1>1, <2>1, <2>2, FloorStep
  <2>4. \/ Held' = Held /\ HeldRevision' = HeldRevision
        \/ HeldRevision < HeldRevision'
    BY <1>1, HeldStep
  <2>5. HeldRevision \in Nat /\ HeldRevision' \in Nat
    BY DEF HeldRevision, TypeOK
  <2> QED
    BY <2>1, <2>3, <2>4, <2>5
<1>3. ASSUME NEW b \in Batches, PlanCommands(b) PROVE PlanInv'
  <2>1. /\ plan' = [revision |-> revision, batch |-> b,
                    atRest |-> stage = "idle", basis |-> Draft,
                    preview |-> Preview(b), ids |-> nextId]
        /\ Preview(b).ok /\ UNCHANGED vars
    BY <1>3 DEF PlanCommands
  <2>2. revision \in Nat /\ nextId \in 1..(MaxId + 1) /\ nextId <= nextId
    BY DEF TypeOK
  <2>3. UNCHANGED <<stage, revision, revisionBefore, nextId, allocatorBefore>>
        /\ Draft' = Draft
    BY <2>1 DEF vars, journal, document, Draft
  <2>4. Draft \in Contents /\ Allocated(Draft, nextId)
    BY ContentTypes DEF Consistent, DraftConsistent, Allocated, Draft
  <2>5. Preview(b) = Executed(Clone(Draft, nextId), b)
    BY DEF Preview
  <2>6. ASSUME stage = "idle"
        PROVE  ~Undoable' /\ HeldRevision' = revision /\ Held' = Draft
    BY <2>3, <2>6 DEF Undoable, Held, HeldRevision
  <2>7. /\ plan'.batch = b /\ plan'.revision = revision /\ plan'.ids = nextId
        /\ plan'.atRest = (stage = "idle") /\ plan'.basis = Draft
        /\ plan'.preview = Preview(b)
    BY <2>1
  <2> HIDE DEF PlanInv
  <2>8. ASSUME plan'.atRest
        PROVE  /\ plan'.ids <= nextId' /\ (Undoable' => plan'.ids <= allocatorBefore')
               /\ plan'.revision <= HeldRevision'
               /\ plan'.revision = HeldRevision' => plan'.basis = Held'
    <3>1. stage = "idle"
      BY <2>7, <2>8
    <3>2. ~Undoable' /\ HeldRevision' = revision /\ Held' = Draft
      BY <2>6, <3>1
    <3>3. plan'.revision <= HeldRevision'
      BY <2>2, <2>7, <3>2
    <3> QED
      BY <2>2, <2>3, <2>7, <3>2, <3>3
  <2>9. /\ plan'.batch \in Batches /\ plan'.revision \in Nat
        /\ plan'.basis \in Contents /\ plan'.ids \in 1..(MaxId + 1)
        /\ Allocated(plan'.basis, plan'.ids)
        /\ plan'.preview = Executed(Clone(plan'.basis, plan'.ids), plan'.batch)
        /\ plan'.preview.ok
    BY <2>1, <2>2, <2>4, <2>5, <2>7
  <2> QED
    BY <2>8, <2>9 DEF PlanInv
<1>4. plan' = plan \/ \E b \in Batches : PlanCommands(b)
  BY DEF PlanNext, BeginApply, ApplyCommand, EndBatch, ConcludeApply, Notify,
     Caller, planVars, allVars
<1> QED
  BY <1>2, <1>3, <1>4

LEMMA KnownBatchesStep ==
    ASSUME KnownBatches, [PlanNext]_allVars
    PROVE  KnownBatches'
<1>1. CASE \E b \in Batches : PlanCommands(b)
  BY <1>1 DEF PlanCommands, KnownBatches, IsApp
<1>2. CASE BeginApply
  <2>1. /\ plan # NoPlan /\ plan' = plan
        /\ app' = [plan |-> plan, next |-> 1, outer |-> stage = "idle",
                   content |-> Draft, revision |-> revision, ids |-> nextId]
    BY <1>2 DEF BeginApply
  <2>2. app'.plan = plan /\ app'.next = 1 /\ IsApp'
    BY <2>1 DEF IsApp
  <2> QED
    BY <2>1, <2>2 DEF KnownBatches
<1>3. CASE ApplyCommand \/ EndBatch
  <2>1. plan' = plan /\ app # NoApplication /\ app.next \in Nat /\ IsApp
    BY <1>3 DEF ApplyCommand, EndBatch, Running, KnownBatches
  <2>2. CASE app' = NoApplication
    BY <2>1, <2>2 DEF KnownBatches
  <2>3. CASE app' # NoApplication
    <3>1. app' = [app EXCEPT !.next = @ + 1] \/ app' = [app EXCEPT !.next = 0]
      BY <1>3, <2>3 DEF ApplyCommand, EndBatch
    <3>2. app'.plan = app.plan /\ IsApp'
      BY <2>1, <3>1 DEF IsApp
    <3>3. app'.next \in Nat
      BY <2>1, <3>1 DEF IsApp
    <3> QED
      BY <2>1, <3>2, <3>3 DEF KnownBatches
  <2> QED
    BY <2>2, <2>3
<1>4. CASE ConcludeApply \/ Notify \/ Caller \/ UNCHANGED allVars
  <2>1. plan' = plan /\ (app' = app \/ app' = NoApplication)
    BY <1>4 DEF ConcludeApply, Notify, Caller, allVars, planVars
  <2> QED
    BY <2>1 DEF KnownBatches, IsApp
<1> QED
  BY <1>1, <1>2, <1>3, <1>4 DEF PlanNext

(* The automation protocol is a client of the mutation authority: its      *)
(* behaviours are behaviours of Transactions, so that every theorem about  *)
(* that specification holds while plans are made and applied               *)
(* (plan_commands, apply_plan).                                            *)
THEOREM PlansRunOnTheModel == PlanSpec => Spec
<1>1. PlanInit => Init /\ KnownBatches
  BY DEF PlanInit, KnownBatches
<1>2. KnownBatches /\ [PlanNext]_allVars => KnownBatches' /\ [Next]_vars
  BY ModelStep, KnownBatchesStep
<1> QED
  BY <1>1, <1>2, PTL DEF PlanSpec, Spec

-----------------------------------------------------------------------------
(* The running application *)

(* apply_plan enters the model's transaction when the plan is for exactly  *)
(* what it finds there, and the clone it ran first is a copy of that.      *)
LEMMA BeginStep ==
    ASSUME TypeOK, TypeOK', Consistent, JournalFresh, PlanInv, BeginApply
    PROVE  AppInv'
<1>1. /\ plan # NoPlan /\ plan' = plan /\ ledger' = ledger
      /\ plan.revision = revision /\ Digest(plan) \notin ledger
      /\ Preview(plan.batch).ok /\ (EnterOuter \/ EnterNested)
      /\ app' = [plan |-> plan, next |-> 1, outer |-> stage = "idle",
                 content |-> Draft, revision |-> revision, ids |-> nextId]
  BY DEF BeginApply, Accepted, Preflight
<1>2. /\ app'.plan = plan /\ app'.next = 1 /\ app'.content = Draft
      /\ app'.revision = revision /\ app'.ids = nextId
      /\ app'.outer => stage = "idle"
  BY <1>1
<1>3. IsApp' /\ app'.next \in Nat /\ app'.plan = plan' /\ plan' # NoPlan
  BY <1>1, <1>2 DEF IsApp
<1>4. ASSUME stage = "idle" PROVE OuterInv'
  <2>1. EnterOuter
    BY <1>1, <1>4 DEF EnterNested
  <2>2. /\ stage' = "open" /\ depth' = 1 /\ revisionBefore' = revision
        /\ nextId' = nextId /\ ~failure' /\ ~exact' /\ tagChanges' = {}
        /\ UNCHANGED <<document, captured, entityBefore, tagsCaptured,
                       tagsBefore, replaced>>
    BY <1>4, <2>1 DEF EnterOuter, JournalFresh
  <2>3. Before' = Draft
    BY <1>4, <2>2 DEF Before, Draft, document, TypeOK, Consistent, JournalConsistent
  <2>4. plan.batch \in Batches /\ (plan.atRest => plan.basis = Draft)
    BY <1>1, <1>4 DEF PlanInv, Held, HeldRevision, Undoable
  <2>5. Draft \in Contents /\ nextId \in 1..(MaxId + 1) /\ nextId \in Nat
    BY ContentTypes DEF TypeOK
  <2> DEFINE clone == Clone(Draft, nextId)
             n == Len(plan.batch)
  <2>6. clone \in CloneStates
    BY <2>5 DEF Clone, CloneStates, Contents, ValidContent, Publishable, Acyclic
  <2>7. /\ n \in Nat \ {0} /\ Runs(clone, plan.batch)[0] = clone
        /\ Runs(clone, plan.batch)[n] \in CloneStates
    BY <2>4, <2>6, RunsDefined
  <2>8. Runs(clone, plan.batch)[n].ok
    BY <1>1, <2>7 DEF Preview, Executed, CloneStates
  <2>9. clone.ok
    BY <2>4, <2>6, <2>7, <2>8, RunsOk
  <2>10. /\ clone.entities = entities /\ clone.retired = retired
         /\ clone.ids = nextId
    BY DEF Clone, Draft
  <2>11. ASSUME plan.atRest
         PROVE  Alike(clone, Runs(Clone(plan.basis, plan.ids), plan.batch)[0],
                      plan.ids)
    <3>1. Draft \in Contents /\ plan.ids \in Nat /\ plan.ids <= nextId
      BY <1>1, <2>5, <2>11 DEF PlanInv
    <3>2. Clone(Draft, plan.ids) \in CloneStates
      BY <3>1 DEF Clone, CloneStates, Contents, ValidContent, Publishable, Acyclic
    <3>3. Runs(Clone(plan.basis, plan.ids), plan.batch)[0] = Clone(Draft, plan.ids)
      BY <2>4, <2>11, <3>2, RunsDefined
    <3>4. \A i \in Ids : entities[i] # Missing => i < plan.ids
      BY <1>1, <2>4, <2>11 DEF PlanInv, Allocated, Draft
    <3>5. \A i \in Ids : i \in Nat
      BY DEF Ids
    <3> QED
      BY <2>5, <3>1, <3>3, <3>4, <3>5 DEF Alike, Clone, Draft
  <2>12. BatchInv'
    <3>1. app'.next - 1 = 0 /\ 0 \in 0..n
      BY <1>2, <2>7
    <3>2. /\ OwnRun' = Runs(clone, plan.batch)
          /\ PlannedRun' = Runs(Clone(plan.basis, plan.ids), plan.batch)
      BY <1>1, <1>2 DEF OwnRun, PlannedRun
    <3>3. /\ clone.ok /\ entities' = clone.entities /\ retired' = clone.retired
          /\ nextId' = clone.ids
      BY <2>2, <2>9, <2>10 DEF document
    <3> HIDE DEF clone, n
    <3>4. /\ OwnRun'[app'.next - 1] = clone
          /\ PlannedRun'[app'.next - 1]
               = Runs(Clone(plan.basis, plan.ids), plan.batch)[0]
      BY <2>7, <3>1, <3>2
    <3> QED
      BY <1>1, <2>2, <2>11, <3>1, <3>3, <3>4 DEF BatchInv, Reached, n
  <2>13. /\ Undoable' => Before' = app'.content /\ revisionBefore' = app'.revision
         /\ Executed(Clone(app'.content, app'.ids), plan'.batch).ok
    BY <1>1, <1>2, <2>2, <2>3 DEF Preview
  <2> QED
    BY <1>1, <1>2, <2>4, <2>5, <2>12, <2>13 DEF OuterInv
<1> QED
  BY <1>2, <1>3, <1>4 DEF AppInv

(* A command on the live model does what it does on a clone: to the        *)
(* records, the history and the allocator, and it changes the model.       *)
LEMMA ExecuteEffect ==
    ASSUME TypeOK, TypeOK', Consistent, NEW c \in Commands, Execute(c),
           NEW s \in CloneStates, Reached(s), nextId = s.ids,
           Active(entities, c), \A i \in tagChanges : tags[i] = {}
    PROVE  /\ EditFrame /\ Before' = Before /\ Staged(s, c).ok
           /\ entities' = Staged(s, c).entities
           /\ retired' = Staged(s, c).retired /\ nextId' = Staged(s, c).ids
           /\ c.op = "create" => s.ids \in Ids
           /\ Changed' /\ \A i \in tagChanges' : tags'[i] = {}
<1>1. /\ c.op = "create" => c.value \in Values
      /\ c.op = "change" => c.id \in Ids /\ c.value \in Values
      /\ c.op = "delete" => c.id \in Ids /\ c.value = Missing
      /\ c.op \in {"create", "change", "delete"}
  BY DEF Commands, Creates, ChangesTo, Deletes
<1>2. Edit
  BY <1>1 DEF Execute, Edit
<1>3. Before' = Before
  BY <1>2, EditEffect DEF Consistent
<1>4. /\ s.ok /\ entities = s.entities /\ retired = s.retired
      /\ s.entities \in [Ids -> Records] /\ s.ids \in Nat
      /\ Active(s.entities, c) /\ Missing \notin Values
  BY TransactionsAssumption DEF Reached, CloneStates
<1>5. /\ captured' \subseteq Ids /\ entities' \in [Ids -> Records]
      /\ entities \in [Ids -> Records] /\ tags \in [Ids -> SUBSET TagValues]
      /\ tagChanges \subseteq Ids
  BY DEF TypeOK
<1>6. CASE c.op = "create"
  <2>1. /\ EditFrame /\ nextId \in Ids /\ nextId \in captured'
        /\ entities' = [entities EXCEPT ![nextId] = c.value]
        /\ nextId' = nextId + 1 /\ UNCHANGED <<tags, retired, tagChanges>>
    BY <1>6 DEF Execute, AddEntity, CaptureEntities
  <2>2. Staged(s, c) = [s EXCEPT !.entities[s.ids] = c.value, !.ids = @ + 1]
    BY <1>4, <1>6 DEF Staged
  <2>3. nextId \in Added' \cup Modified'
    BY <1>1, <1>4, <1>5, <1>6, <2>1 DEF Added, Modified
  <2> QED
    BY <1>3, <1>4, <2>1, <2>2, <2>3 DEF Changed, CloneStates
<1>7. CASE c.op = "change"
  <2>1. /\ EditFrame /\ c.id \in Ids /\ c.id \in captured'
        /\ entities' = [entities EXCEPT ![c.id] = c.value]
        /\ nextId' = nextId /\ UNCHANGED <<tags, retired, tagChanges>>
    BY <1>1, <1>7 DEF Execute, PutEntity, CaptureEntities
  <2>2. /\ Staged(s, c).entities = [s.entities EXCEPT ![c.id] = c.value]
        /\ Staged(s, c).retired = s.retired /\ Staged(s, c).ids = s.ids
        /\ Staged(s, c).ok
    BY <1>4, <1>7 DEF Staged, CloneStates
  <2>3. c.id \in Added' \cup Modified'
    BY <1>1, <1>4, <1>5, <1>7, <2>1 DEF Added, Modified
  <2> QED
    BY <1>3, <1>4, <1>7, <2>1, <2>2, <2>3 DEF Changed
<1>8. CASE c.op = "delete"
  <2>1. /\ EditFrame /\ c.id \in Ids /\ c.id \in replaced'
        /\ entities' = [entities EXCEPT ![c.id] = Missing]
        /\ retired' = retired \cup {c.id} /\ nextId' = nextId
        /\ Supersede(c.id, {})
    BY <1>1, <1>8 DEF Execute, RemoveEntity, Supersede
  <2>2. /\ Staged(s, c).entities = [s.entities EXCEPT ![c.id] = Missing]
        /\ Staged(s, c).retired = s.retired \cup {c.id}
        /\ Staged(s, c).ids = s.ids /\ Staged(s, c).ok
    BY <1>1, <1>4, <1>8 DEF Staged, CloneStates
  <2>3. \A i \in tagChanges' : tags'[i] = {}
    <3>1. CASE tags[c.id] = {}
      BY <2>1, <3>1 DEF Supersede
    <3>2. CASE tags[c.id] # {}
      <4>1. /\ tags' = [i \in Ids |-> IF i = c.id THEN {} ELSE tags[i]]
            /\ tagChanges' = tagChanges \cup {c.id}
        BY <2>1, <3>2 DEF Supersede
      <4> QED
        BY <1>5, <2>1, <4>1
    <3> QED
      BY <3>1, <3>2
  <2> QED
    BY <1>3, <1>4, <1>8, <2>1, <2>2, <2>3 DEF Changed
<1> QED
  BY <1>1, <1>6, <1>7, <1>8

(* The preflight ran every command of the batch, so none fails on the      *)
(* live model.                                                             *)
LEMMA CommandStep ==
    ASSUME TypeOK, TypeOK', Consistent, PlanInv, AppInv, ApplyCommand
    PROVE  AppInv'
<1>1. /\ app # NoApplication /\ app.next > 0 /\ app.next <= Len(app.plan.batch)
      /\ UNCHANGED <<plan, ledger>>
  BY DEF ApplyCommand, Running
<1>2. /\ IsApp /\ app.next \in Nat /\ app.plan = plan /\ plan # NoPlan
      /\ plan.batch \in Batches
  BY <1>1 DEF AppInv, PlanInv
<1> SUFFICES ASSUME app' # NoApplication PROVE AppInv'
  BY DEF AppInv
<1> DEFINE c == plan.batch[app.next]
<1>3. app' = [app EXCEPT !.next = @ + 1] /\ Execute(c) /\ Active(entities, c)
  BY <1>2 DEF ApplyCommand
<1>4. /\ app'.plan = app.plan /\ app'.next = app.next + 1 /\ app'.outer = app.outer
      /\ app'.content = app.content /\ app'.revision = app.revision
      /\ app'.ids = app.ids /\ IsApp'
  BY <1>2, <1>3 DEF IsApp
<1>5. ASSUME app.outer PROVE OuterInv'
  <2>1. OuterInv /\ BatchInv
    BY <1>1, <1>5 DEF AppInv, OuterInv
  <2> DEFINE k == app.next - 1
             n == Len(plan.batch)
             s == OwnRun[k]
             t == PlannedRun[k]
  <2>2. Clone(app.content, app.ids) \in CloneStates
    BY <2>1 DEF OuterInv, Clone, CloneStates, Contents, ValidContent,
         Publishable, Acyclic
  <2>3. /\ n \in Nat \ {0} /\ \A j \in 1..n : plan.batch[j] \in Commands
        /\ OwnRun \in [0..n -> CloneStates]
        /\ \A j \in 1..n : OwnRun[j] = Staged(OwnRun[j - 1], plan.batch[j])
    BY <1>2, <2>2, RunsDefined DEF OwnRun
  <2>4. app.next \in 1..n /\ k \in 0..n /\ app.next \in 0..n /\ app.next - 1 = k
    BY <1>1, <1>2, <2>3
  <2>5. c \in Commands /\ s \in CloneStates /\ OwnRun[app.next] = Staged(s, c)
    BY <2>3, <2>4
  <2>6. Reached(s) /\ nextId = s.ids /\ \A i \in tagChanges : tags[i] = {}
    BY <2>1 DEF BatchInv
  <2>7. /\ EditFrame /\ Before' = Before /\ Staged(s, c).ok
        /\ entities' = Staged(s, c).entities
        /\ retired' = Staged(s, c).retired /\ nextId' = Staged(s, c).ids
        /\ c.op = "create" => s.ids \in Ids
        /\ Changed' /\ \A i \in tagChanges' : tags'[i] = {}
    <3> HIDE DEF c, s
    <3> QED
      BY <1>3, <2>5, <2>6, ExecuteEffect
  <2>8. ASSUME plan.atRest
        PROVE  Alike(OwnRun[app.next], PlannedRun[app.next], plan.ids)
    <3>1. /\ plan.basis \in Contents /\ plan.ids \in Nat \ {0}
          /\ Executed(Clone(plan.basis, plan.ids), plan.batch).ok
      BY <1>2, <2>8 DEF PlanInv
    <3>2. Clone(plan.basis, plan.ids) \in CloneStates
      BY <3>1 DEF Clone, CloneStates, Contents, ValidContent, Publishable, Acyclic
    <3>3. /\ PlannedRun \in [0..n -> CloneStates]
          /\ \A j \in 1..n :
                 PlannedRun[j] = Staged(PlannedRun[j - 1], plan.batch[j])
      BY <1>2, <3>2, RunsDefined DEF PlannedRun
    <3>4. PlannedRun[n].ok
      BY <2>3, <3>1, <3>3 DEF Executed, PlannedRun, CloneStates
    <3>5. PlannedRun[app.next].ok
      BY <1>2, <2>4, <3>2, <3>4, RunsOk DEF PlannedRun
    <3>6. t \in CloneStates /\ PlannedRun[app.next] = Staged(t, c)
      BY <2>3, <2>4, <3>3
    <3>7. Alike(s, t, plan.ids)
      BY <2>1, <2>8 DEF BatchInv
    <3> HIDE DEF s, t, c
    <3> QED
      BY <2>5, <2>7, <3>1, <3>5, <3>6, <3>7, AlikeStep
  <2>9. /\ stage' = "open" /\ depth' = 1 /\ ~failure' /\ ~exact'
        /\ revisionBefore' = revisionBefore
    BY <2>1, <2>7 DEF EditFrame, BatchInv
  <2>10. OwnRun' = OwnRun /\ PlannedRun' = PlannedRun
    BY <1>1, <1>4 DEF OwnRun, PlannedRun
  <2>11. app'.next - 1 = app.next /\ app'.next > 0
    BY <1>2, <1>4
  <2>12. BatchInv'
    <3> HIDE DEF c, s, t, k, n
    <3> QED
      BY <1>1, <2>4, <2>5, <2>7, <2>8, <2>9, <2>10, <2>11 DEF BatchInv, Reached, n
  <2> QED
    BY <1>1, <1>4, <2>1, <2>7, <2>9, <2>11, <2>12
       DEF OuterInv, BatchInv, Undoable
<1> QED
  BY <1>1, <1>2, <1>4, <1>5 DEF AppInv

(* What the preflight found valid on the clone is valid here: the          *)
(* transaction commits, and its ChangeSet spans one revision.              *)
LEMMA EndStep ==
    ASSUME TypeOK, TypeOK', Consistent, PlanInv, AppInv, EndBatch
    PROVE  AppInv'
<1>1. /\ app # NoApplication /\ app.next > 0 /\ app.next > Len(app.plan.batch)
      /\ UNCHANGED <<plan, ledger>>
  BY DEF EndBatch, Running
<1>2. /\ IsApp /\ app.next \in Nat /\ app.plan = plan /\ plan # NoPlan
      /\ plan.batch \in Batches
  BY <1>1 DEF AppInv, PlanInv
<1> SUFFICES ASSUME app' # NoApplication PROVE AppInv'
  BY DEF AppInv
<1>3. /\ app' = [app EXCEPT !.next = 0] /\ ~(depth = 1 /\ ~Committable)
      /\ ExitCommitting \/ ExitUnchanged \/ ExitNested(FALSE)
  BY DEF EndBatch
<1>4. /\ app'.plan = app.plan /\ app'.next = 0 /\ app'.outer = app.outer
      /\ app'.content = app.content /\ app'.revision = app.revision
      /\ app'.ids = app.ids /\ IsApp'
  BY <1>2, <1>3 DEF IsApp
<1>5. ASSUME app.outer PROVE OuterInv'
  <2>1. OuterInv /\ BatchInv
    BY <1>1, <1>5 DEF AppInv, OuterInv
  <2> DEFINE n == Len(plan.batch)
  <2>2. Clone(app.content, app.ids) \in CloneStates
    BY <2>1 DEF OuterInv, Clone, CloneStates, Contents, ValidContent,
         Publishable, Acyclic
  <2>3. n \in Nat \ {0} /\ OwnRun \in [0..n -> CloneStates]
    BY <1>2, <2>2, RunsDefined DEF OwnRun
  <2>4. app.next - 1 = n /\ n > 0
    BY <1>1, <1>2, <2>1, <2>3 DEF BatchInv
  <2>5. /\ stage = "open" /\ depth = 1 /\ Changed
        /\ revisionBefore = app.revision /\ Before = app.content
    <3> HIDE DEF n
    <3> QED
      BY <2>1, <2>4 DEF OuterInv, BatchInv, Undoable
  <2>6. revision = revisionBefore /\ revision \in Nat
    BY <2>5 DEF Consistent, JournalConsistent, TypeOK
  <2>7. ExitCommitting
    BY <1>3, <2>5 DEF ExitUnchanged, ExitNested
  <2>8. /\ revision' = revision + 1 /\ stage' = "hooks"
        /\ lastChange'.before = revisionBefore
        /\ lastChange'.after = revision + 1
        /\ UNCHANGED <<document, nextId, journal>>
    BY <2>7 DEF ExitCommitting, ChangeSet
  <2>9. Before' = Before /\ revisionBefore' = revisionBefore
    BY <2>8 DEF Before, document, journal
  <2>10. settings' = app.content.settings
    BY <2>5, <2>8 DEF Before, document
  <2>11. OwnRun' = OwnRun /\ PlannedRun' = PlannedRun
    BY <1>1, <1>4 DEF OwnRun, PlannedRun
  <2>12. CommittedInv'
    <3>1. /\ Reached(OwnRun[n])
          /\ plan.atRest => Alike(OwnRun[n], PlannedRun[n], plan.ids)
      <4> HIDE DEF n
      <4> QED
        BY <2>1, <2>4 DEF BatchInv
    <3>2. entities' = entities /\ retired' = retired
      BY <2>8 DEF document
    <3> QED
      BY <1>1, <1>4, <2>5, <2>6, <2>8, <2>10, <2>11, <3>1, <3>2
         DEF CommittedInv, Reached
  <2> QED
    BY <1>1, <1>4, <2>1, <2>5, <2>9, <2>12 DEF OuterInv
<1> QED
  BY <1>1, <1>2, <1>4, <1>5 DEF AppInv

(* Nothing but the hooks' loop happens before the application concludes. *)
LEMMA NotifyStep ==
    ASSUME TypeOK, PlanInv, AppInv, Notify
    PROVE  AppInv'
<1> SUFFICES ASSUME app # NoApplication, app' # NoApplication PROVE AppInv'
  BY DEF AppInv, Notify, planVars
<1>1. UNCHANGED planVars /\ Notifying
  BY DEF Notify, HookReturns, HookRaises, HookInterruptsNotice, FinishHooks,
     Notifying
<1>2. ASSUME app.outer PROVE OuterInv'
  <2>1. OuterInv /\ CommittedInv /\ stage = "hooks"
    BY <1>1, <1>2 DEF AppInv, OuterInv, BatchInv, CommittedInv, Notifying
  <2>2. UNCHANGED <<document, revision, lastChange>>
        /\ (stage' = "idle" \/ (stage' = stage /\ UNCHANGED journal))
    BY <1>1, <2>1 DEF Notify, HookReturns, HookRaises, HookInterruptsNotice,
       HookInterruptsCommit, FinishHooks, planVars
  <2>3. UNCHANGED <<entities, retired, settings, revision, lastChange, plan, app,
                    ledger>>
    BY <1>1, <2>2 DEF document, planVars
  <2>4. OwnRun' = OwnRun /\ PlannedRun' = PlannedRun
    BY <2>3 DEF OwnRun, PlannedRun
  <2>5. CommittedInv'
    BY <2>1, <2>2, <2>3, <2>4 DEF CommittedInv, Reached
  <2>6. Undoable' => Before' = Before /\ revisionBefore' = revisionBefore /\ Undoable
    BY <2>2 DEF Undoable, Before, document, journal
  <2>7. ~(app.next > 0)
    BY <2>1 DEF OuterInv, BatchInv
  <2> QED
    BY <2>1, <2>3, <2>5, <2>6, <2>7 DEF OuterInv
<1> QED
  BY <1>1, <1>2 DEF AppInv, IsApp, planVars

LEMMA AppStep ==
    ASSUME TypeOK, TypeOK', Consistent, JournalFresh, PlanInv, AppInv,
           [PlanNext]_allVars
    PROVE  AppInv'
<1>1. CASE BeginApply
  BY <1>1, BeginStep
<1>2. CASE ApplyCommand
  BY <1>2, CommandStep
<1>3. CASE EndBatch
  BY <1>3, EndStep
<1>4. CASE Notify
  BY <1>4, NotifyStep
<1>5. CASE ConcludeApply \/ Caller \/ \E b \in Batches : PlanCommands(b)
  <2>1. CASE app' = NoApplication
    BY <2>1 DEF AppInv
  <2>2. CASE app' # NoApplication
    <3>1. \E b \in Batches : PlanCommands(b)
      BY <1>5, <2>2 DEF ConcludeApply, Caller, planVars
    <3> QED
      BY <2>2, <3>1 DEF PlanCommands, AppInv
  <2> QED
    BY <2>1, <2>2
<1>6. CASE UNCHANGED allVars
  <2>1. UNCHANGED <<vars, plan, app, ledger>>
    BY <1>6 DEF allVars, planVars
  <2>2. UNCHANGED <<entities, tags, retired, descends, settings, nextId, revision,
                    stage, depth, failure, exact, captured, entityBefore,
                    tagsCaptured, tagsBefore, tagChanges, replaced,
                    revisionBefore, lastChange>>
    BY <2>1 DEF vars, document, journal, publication
  <2>3. /\ OwnRun' = OwnRun /\ PlannedRun' = PlannedRun /\ Before' = Before
        /\ Changed' = Changed /\ Undoable' = Undoable
    BY <2>1, <2>2 DEF OwnRun, PlannedRun, Before, Changed, Added, Removed,
       Modified, Undoable
  <2>4. BatchInv' = BatchInv /\ CommittedInv' = CommittedInv
    BY <2>1, <2>2, <2>3 DEF BatchInv, CommittedInv, Reached
  <2>5. OuterInv' = OuterInv
    BY <2>1, <2>2, <2>3, <2>4 DEF OuterInv
  <2> QED
    BY <2>1, <2>5 DEF AppInv, IsApp
<1> QED
  BY <1>1, <1>2, <1>3, <1>4, <1>5, <1>6 DEF PlanNext

LEMMA TypesStep ==
    ASSUME TypeOK, PlanTypes, KnownBatches, [PlanNext]_allVars
    PROVE  PlanTypes'
<1>1. ASSUME NEW b \in Batches, PlanCommands(b) PROVE PlanTypes'
  <2>1. /\ plan' = [revision |-> revision, batch |-> b,
                    atRest |-> stage = "idle", basis |-> Draft,
                    preview |-> Preview(b), ids |-> nextId]
        /\ app' = app
    BY <1>1 DEF PlanCommands
  <2>2. /\ revision \in Nat /\ nextId \in Nat /\ Draft \in Contents
        /\ (stage = "idle") \in BOOLEAN
    BY ContentTypes DEF TypeOK
  <2>3. Clone(Draft, nextId) \in CloneStates
    BY <2>2 DEF Clone, CloneStates, Contents, ValidContent, Publishable, Acyclic
  <2>4. Runs(Clone(Draft, nextId), b)[Len(b)] \in CloneStates
    BY <2>3, RunsDefined
  <2>5. Preview(b) \in CloneStates
    BY <2>4 DEF Preview, Executed, CloneStates
  <2> QED
    BY <2>1, <2>2, <2>5 DEF PlanTypes, Plans
<1>2. CASE BeginApply
  <2>1. /\ plan \in Plans /\ plan' = plan
        /\ app' = [plan |-> plan, next |-> 1, outer |-> stage = "idle",
                   content |-> Draft, revision |-> revision, ids |-> nextId]
    BY <1>2 DEF BeginApply, PlanTypes
  <2>2. /\ revision \in Nat /\ nextId \in Nat /\ Draft \in Contents
        /\ (stage = "idle") \in BOOLEAN
    BY ContentTypes DEF TypeOK
  <2> QED
    BY <2>1, <2>2 DEF PlanTypes, Applications
<1>3. CASE ApplyCommand \/ EndBatch
  <2>1. /\ plan' = plan /\ app \in Applications
        /\ \/ app' = [app EXCEPT !.next = @ + 1] \/ app' = [app EXCEPT !.next = 0]
           \/ app' = NoApplication
    BY <1>3 DEF ApplyCommand, EndBatch, Running, PlanTypes
  <2> QED
    BY <2>1 DEF PlanTypes, Applications
<1>4. CASE ConcludeApply \/ Notify \/ Caller \/ UNCHANGED allVars
  <2>1. plan' = plan /\ (app' = app \/ app' = NoApplication)
    BY <1>4 DEF ConcludeApply, Notify, Caller, allVars, planVars
  <2> QED
    BY <2>1 DEF PlanTypes
<1> QED
  BY <1>1, <1>2, <1>3, <1>4 DEF PlanNext

(* The preflight decides: no command of an application that began at rest  *)
(* finds its entity missing, and its commit finds nothing to refuse.       *)
LEMMA PreflightSuffices ==
    ASSUME TypeOK, PlanIInv, app # NoApplication, app.outer, app.next > 0
    PROVE  /\ app.next <= Len(app.plan.batch)
               => Active(entities, app.plan.batch[app.next])
           /\ app.next > Len(app.plan.batch) => Committable
<1> DEFINE n == Len(plan.batch)
           k == app.next - 1
<1>1. /\ app.plan = plan /\ plan.batch \in Batches /\ app.next \in Nat
      /\ OuterInv /\ BatchInv
  BY DEF PlanIInv, AppInv, PlanInv, OuterInv
<1>2. Clone(app.content, app.ids) \in CloneStates
  BY <1>1 DEF OuterInv, Clone, CloneStates, Contents, ValidContent,
       Publishable, Acyclic
<1>3. /\ n \in Nat \ {0} /\ OwnRun \in [0..n -> CloneStates]
      /\ \A j \in 1..n : OwnRun[j] = Staged(OwnRun[j - 1], plan.batch[j])
  BY <1>1, <1>2, RunsDefined DEF OwnRun
<1>4. OwnRun[n].ok /\ \A i \in Ids : OwnRun[n].entities[i] \notin BadValues
  <2>1. /\ OwnRun[n] \in CloneStates
        /\ Executed(Clone(app.content, app.ids), plan.batch).ok
    BY <1>1, <1>3 DEF OuterInv
  <2> QED
    BY <2>1 DEF Executed, OwnRun, CloneStates
<1>5. k \in 0..n /\ entities = OwnRun[k].entities
  BY <1>1 DEF BatchInv, Reached
<1>6. ASSUME app.next <= n PROVE Active(entities, plan.batch[app.next])
  <2>1. app.next \in 1..n /\ app.next \in 0..n
    BY <1>1, <1>3, <1>5, <1>6
  <2>2. OwnRun[app.next].ok
    BY <1>1, <1>2, <1>4, <2>1, RunsOk DEF OwnRun
  <2>3. OwnRun[k] \in CloneStates /\ OwnRun[app.next] = Staged(OwnRun[k], plan.batch[app.next])
    BY <1>3, <1>5, <2>1
  <2> QED
    BY <1>5, <2>2, <2>3 DEF Staged, CloneStates
<1>7. ASSUME app.next > n PROVE Committable
  <2>1. k = n
    BY <1>1, <1>3, <1>5, <1>7
  <2>2. ~failure /\ \A i \in tagChanges : tags[i] = {}
    BY <1>1 DEF BatchInv
  <2>3. \A i \in Ids : entities[i] \notin BadValues
    BY <1>4, <1>5, <2>1
  <2> QED
    BY <2>2, <2>3 DEF Committable, Problems, TypeOK
<1> QED
  BY <1>1, <1>6, <1>7

-----------------------------------------------------------------------------
(* The theorems *)

(* With plans made and applied between all other edits the document stays  *)
(* consistent, and what a plan and a running application rest on holds:    *)
(* the strengthening behind the theorems that follow.                      *)
THEOREM PlansAlwaysSound == PlanSpec => [](TypeOK /\ Consistent /\ PlanIInv)
<1>1. PlanInit => PlanIInv
  BY DEF PlanInit, Init, PlanIInv, PlanTypes, JournalFresh, PlanInv, AppInv
<1>2. TypeOK /\ TypeOK' /\ Consistent /\ Consistent' /\ PlanIInv
        /\ [Next]_vars /\ [PlanNext]_allVars => PlanIInv'
  <2> SUFFICES ASSUME TypeOK, TypeOK', Consistent, Consistent', PlanIInv,
                      [Next]_vars, [PlanNext]_allVars
               PROVE  PlanIInv'
    OBVIOUS
  <2>1. KnownBatches
    BY DEF KnownBatches, PlanIInv, PlanInv, AppInv
  <2> QED
    BY <2>1, TypesStep, FreshStep, PlanStep, AppStep DEF PlanIInv
<1> QED
  BY <1>1, <1>2, PlansRunOnTheModel, TypeCorrect, AlwaysConsistent, PTL
     DEF PlanSpec, Spec

(* A plan that still has the model's revision is for the model's content:  *)
(* the one comparison of apply_plan is enough, whatever was edited, rolled *)
(* back, interrupted or restored since plan_commands.                      *)
THEOREM RevisionAlwaysNamesContent == PlanSpec => []RevisionNamesContent
<1>1. TypeOK /\ PlanIInv => RevisionNamesContent
  BY DEF PlanIInv, PlanInv, RevisionNamesContent, Held, HeldRevision, Undoable
<1> QED
  BY <1>1, PlansAlwaysSound, PTL

(* An applied plan published what its preview showed (apply_plan): the     *)
(* document of the plan was the document it was applied to, and the live   *)
(* model follows the clone command by command.                             *)
THEOREM PreviewAlwaysPublished == PlanSpec => PreviewIsPublished
<1> DEFINE known == 1..(app.plan.ids - 1)
<1>1. ASSUME TypeOK, PlanIInv, [PlanNext]_allVars, ledger' # ledger,
             app.outer, app.plan.atRest
      PROVE  /\ revision = app.plan.revision + 1
             /\ \A i \in known : entities[i] = app.plan.preview.entities[i]
             /\ Cardinality(Live(entities))
                 = Cardinality(Live(app.plan.preview.entities))
             /\ retired \cap known = app.plan.preview.retired \cap known
             /\ settings = app.plan.basis.settings
  <2>1. /\ ConcludeApply /\ app # NoApplication /\ app.next = 0
        /\ stage \notin {"hooks", "notify"}
    BY <1>1 DEF PlanNext, PlanCommands, BeginApply, ApplyCommand, EndBatch,
       ConcludeApply, Notify, Notifying, Caller, planVars, allVars
  <2>2. /\ app.plan = plan /\ plan # NoPlan /\ OuterInv /\ CommittedInv
        /\ plan.atRest
    BY <1>1, <2>1 DEF PlanIInv, AppInv, OuterInv
  <2>3. /\ plan.batch \in Batches /\ plan.basis \in Contents
        /\ plan.ids \in 1..(MaxId + 1)
        /\ plan.preview = Executed(Clone(plan.basis, plan.ids), plan.batch)
    BY <1>1, <2>2 DEF PlanIInv, PlanInv
  <2> DEFINE n == Len(plan.batch)
             s == OwnRun[n]
             t == PlannedRun[n]
  <2>4. Clone(plan.basis, plan.ids) \in CloneStates
    BY <2>3 DEF Clone, CloneStates, Contents, ValidContent, Publishable, Acyclic
  <2>5. t \in CloneStates
    BY <2>3, <2>4, RunsDefined DEF PlannedRun
  <2>6. plan.preview.entities = t.entities /\ plan.preview.retired = t.retired
    BY <2>3, <2>5 DEF Executed, PlannedRun, CloneStates
  <2>7. /\ entities = s.entities /\ retired = s.retired /\ Alike(s, t, plan.ids)
        /\ revision = plan.revision + 1 /\ settings = plan.basis.settings
    BY <2>2 DEF OuterInv, CommittedInv, Reached
  <2>8. \A i \in known : i \in Ids /\ i < plan.ids
    BY <2>2, <2>3, TransactionsAssumption DEF Ids
  <2> HIDE DEF s, t, known
  <2> QED
    BY <2>2, <2>6, <2>7, <2>8 DEF Alike
<1>2. TypeOK /\ PlanIInv /\ [PlanNext]_allVars
      => [ledger' # ledger /\ app.outer /\ app.plan.atRest =>
            /\ revision = app.plan.revision + 1
            /\ \A i \in known : entities[i] = app.plan.preview.entities[i]
            /\ Cardinality(Live(entities))
                = Cardinality(Live(app.plan.preview.entities))
            /\ retired \cap known = app.plan.preview.retired \cap known
            /\ settings = app.plan.basis.settings]_allVars
  BY <1>1
<1> QED
  BY <1>2, PlansAlwaysSound, PTL DEF PlanSpec, PreviewIsPublished

(* An application that starts at rest and does not succeed was interrupted *)
(* by a hook, and leaves no trace: the preflight lets no command and no    *)
(* commit of the live model fail (_preflight_application,                  *)
(* _exit_transaction).                                                     *)
THEOREM RefusalsNeverLeaveTraces == PlanSpec => RefusalsLeaveNoTrace
<1>1. ASSUME TypeOK, TypeOK', Consistent, PlanIInv, PlanIInv', [PlanNext]_allVars,
             app # NoApplication, app' = NoApplication, app.outer,
             ledger' = ledger
      PROVE  Draft' = app.content /\ revision' = app.revision /\ stage = "hooks"
  <2>1. /\ app \in Applications /\ OuterInv /\ app.next \in Nat
        /\ app.plan = plan
    BY <1>1 DEF PlanIInv, PlanTypes, AppInv
  <2>2. ~ApplyCommand /\ ~EndBatch
    <3>1. /\ [app EXCEPT !.next = @ + 1] \in Applications
          /\ [app EXCEPT !.next = 0] \in Applications
      BY <2>1 DEF Applications
    <3>2. app' # [app EXCEPT !.next = @ + 1] /\ app' # [app EXCEPT !.next = 0]
      BY <1>1, <3>1, PlanSentinelAssumption
    <3>3. ~ApplyCommand
      BY <1>1, <3>2, PreflightSuffices DEF ApplyCommand, Running
    <3>4. ~EndBatch
      BY <1>1, <3>2, PreflightSuffices DEF EndBatch, Running
    <3> QED
      BY <3>3, <3>4
  <2>3. ~ConcludeApply
    <3> SUFFICES ASSUME ConcludeApply PROVE FALSE
      OBVIOUS
    <3>1. /\ CommittedInv /\ Digest(plan) \notin ledger
      BY <2>1 DEF ConcludeApply, OuterInv
    <3>2. ledger' = ledger \cup {Digest(plan)}
      BY <2>1, <3>1 DEF ConcludeApply, CommittedInv
    <3> QED
      BY <1>1, <3>1, <3>2
  <2>4. HookInterruptsCommit
    BY <1>1, <2>2, <2>3 DEF PlanNext, PlanCommands, BeginApply, Notify, Caller,
       planVars, allVars
  <2>5. stage = "hooks" /\ Rollback /\ UNCHANGED <<settings, snapshot>>
    BY <2>4 DEF HookInterruptsCommit
  <2>6. Published' = Before /\ stage' = "idle" /\ revision' = revisionBefore
    BY <1>1, <2>5, RollbackEffect DEF Rollback
  <2>7. Before = app.content /\ revisionBefore = app.revision
    BY <2>1, <2>5 DEF OuterInv, Undoable
  <2> QED
    BY <2>5, <2>6, <2>7 DEF Published
<1>2. TypeOK /\ TypeOK' /\ Consistent /\ PlanIInv /\ PlanIInv' /\ [PlanNext]_allVars
      => [app # NoApplication /\ app' = NoApplication /\ app.outer
            /\ ledger' = ledger =>
            /\ Draft' = app.content
            /\ revision' = app.revision
            /\ stage # "hooks" => nextId' = app.ids]_allVars
  BY <1>1
<1> QED
  BY <1>2, PlansAlwaysSound, PTL DEF PlanSpec, RefusalsLeaveNoTrace

=============================================================================
