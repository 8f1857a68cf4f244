------------------------- MODULE TransactionsProofs -------------------------
(***************************************************************************)
(* What Transactions.tla guarantees for every set of payloads and tags,  *)
(* any number of identifiers, hooks and nested contexts, and any faults of *)
(* the hooks that a theorem does not exclude.                              *)
(***************************************************************************)
EXTENDS Transactions, TLAPS

LEMMA EmptyStores ==
    /\ NoRecords \in [Ids -> Records]
    /\ NoTags \in [Ids -> SUBSET TagValues]
    /\ 1 \in 1..(MaxId + 1)
BY TransactionsAssumption DEF NoRecords, NoTags, Records

LEMMA DroppedJournal ==
    ASSUME DropJournal
    PROVE  /\ depth' \in Nat /\ failure' \in BOOLEAN /\ exact' \in BOOLEAN
           /\ captured' \subseteq Ids /\ entityBefore' \in [Ids -> Records]
           /\ tagsCaptured' \subseteq Ids
           /\ tagsBefore' \in [Ids -> SUBSET TagValues]
           /\ tagChanges' \subseteq Ids /\ replaced' \subseteq Ids
           /\ revisionBefore' \in Nat /\ allocatorBefore' \in 1..(MaxId + 1)
<1>1. failure' \in BOOLEAN /\ exact' \in BOOLEAN
  BY DEF DropJournal
<1> QED
  BY <1>1, EmptyStores DEF DropJournal

LEMMA SupersedeTypes ==
    ASSUME TypeOK, NEW old \in Ids, NEW new \in SUBSET Ids, Supersede(old, new)
    PROVE  /\ tags' \in [Ids -> SUBSET TagValues]
           /\ tagsBefore' \in [Ids -> SUBSET TagValues]
           /\ tagsCaptured' \subseteq Ids
           /\ tagChanges' \subseteq Ids
           /\ retired' \subseteq Ids
           /\ descends' \subseteq Ids \X Ids
           /\ replaced' \subseteq Ids
<1> USE DEF TypeOK, Supersede, CaptureTags
<1>1. retired' \subseteq Ids /\ descends' \subseteq Ids \X Ids
      /\ replaced' \subseteq Ids
  OBVIOUS
<1>2. CASE tags[old] = {}
  BY <1>1, <1>2
<1>3. CASE tags[old] # {}
  <2>1. tags' \in [Ids -> SUBSET TagValues]
    BY <1>3
  <2>2. tagsBefore' \in [Ids -> SUBSET TagValues]
    BY <1>3
  <2>3. tagsCaptured' \subseteq Ids /\ tagChanges' \subseteq Ids
    BY <1>3
  <2> QED
    BY <1>1, <2>1, <2>2, <2>3
<1> QED
  BY <1>2, <1>3

(* The document always consists of well-formed stores, mappings, history   *)
(* and allocators, and ChangeSets name only identifiers of the document.   *)
THEOREM TypeCorrect == Spec => []TypeOK
<1>1. Init => TypeOK
  <2> SUFFICES ASSUME Init PROVE TypeOK
    OBVIOUS
  <2>1. lastChange \in Changes
    BY DEF Init, Changes
  <2>2. replicas \in [1..NHooks -> [entities : [Ids -> Records],
                                   tags : [Ids -> SUBSET TagValues]]]
    BY EmptyStores DEF Init
  <2>3. failure \in BOOLEAN /\ exact \in BOOLEAN
    BY DEF Init
  <2> QED
    BY <2>1, <2>2, <2>3, EmptyStores, TransactionsAssumption DEF Init, TypeOK
<1>2. TypeOK /\ [Next]_vars => TypeOK'
  <2> SUFFICES ASSUME TypeOK, [Next]_vars PROVE TypeOK'
    OBVIOUS
  <2> USE TransactionsAssumption DEF TypeOK
  <2>1. CASE EnterOuter
    BY <2>1 DEF EnterOuter, document, publication
  <2>2. CASE EnterNested
    BY <2>2 DEF EnterNested, document, publication
  <2>3. ASSUME NEW failed \in BOOLEAN, ExitNested(failed) PROVE TypeOK'
    BY <2>3 DEF ExitNested, document, publication
  <2>4. CASE Edit
    <3> USE DEF EditFrame, CaptureEntities, CaptureTags, publication, Records
    <3>1. ASSUME NEW v \in Values, AddEntity(v) PROVE TypeOK'
      BY <3>1 DEF AddEntity, Ids
    <3>2. ASSUME NEW i \in Ids, NEW v \in Values, PutEntity(i, v)
          PROVE TypeOK'
      BY <3>2 DEF PutEntity
    <3>3. ASSUME NEW i \in Ids, RemoveEntity(i) PROVE TypeOK'
      <4>1. Supersede(i, {})
        BY <3>3 DEF RemoveEntity
      <4> QED
        BY <3>3, <4>1, SupersedeTypes DEF RemoveEntity
    <3>4. ASSUME NEW i \in Ids, NEW new \in SUBSET Ids,
                 RecordReplacement(i, new)
          PROVE TypeOK'
      <4>1. Supersede(i, new)
        BY <3>4 DEF RecordReplacement
      <4> QED
        BY <3>4, <4>1, SupersedeTypes DEF RecordReplacement
    <3>7. ASSUME NEW i \in Ids, DiscardEntity(i) PROVE TypeOK'
      BY <3>7 DEF DiscardEntity
    <3>5. ASSUME NEW i \in Ids, NEW l \in TagValues, Tag(i, l)
          PROVE TypeOK'
      BY <3>5 DEF Tag
    <3>6. ASSUME NEW i \in Ids, NEW l \in TagValues, Untag(i, l)
          PROVE TypeOK'
      BY <3>6 DEF Untag
    <3> QED
      BY <2>4, <3>1, <3>2, <3>3, <3>4, <3>5, <3>6, <3>7 DEF Edit
  <2>5. CASE RequestExactRollback
    BY <2>5 DEF RequestExactRollback, document, publication
  <2>6. ASSUME NEW n \in Floors, ReserveIds(n) PROVE TypeOK'
    BY <2>6 DEF ReserveIds, document, journal, publication
  <2> HIDE DEF TypeOK
  <2>7. Rollback /\ UNCHANGED <<settings, snapshot, committedIds>>
        /\ lastChange' = lastChange /\ pending' \in 0..(NHooks + 1)
        /\ replicas' \in [1..NHooks -> [entities : [Ids -> Records],
                                        tags : [Ids -> SUBSET TagValues]]]
        => TypeOK'
    BY DroppedJournal DEF TypeOK, Rollback
  <2>8. ASSUME NEW error \in BOOLEAN, ExitFailing(error) PROVE TypeOK'
    BY <2>7, <2>8 DEF ExitFailing, publication, TypeOK
  <2>9. ChangeSet(revision) \in Changes /\ ChangeSet(revision + 1) \in Changes
    BY DEF ChangeSet, Changes, Added, Removed, Modified, TypeOK
  <2>10. CASE ExitUnchanged
    BY <2>9, <2>10, DroppedJournal DEF TypeOK, ExitUnchanged, document
  <2>11. CASE ExitCommitting
    BY <2>9, <2>11, TransactionsAssumption
       DEF TypeOK, ExitCommitting, document, journal, Live
  <2>12. ASSUME NEW s \in Settings, SetDocumentSettings(s) PROVE TypeOK'
    BY <2>12, TransactionsAssumption
       DEF TypeOK, SetDocumentSettings, journal, Changes
  <2>13. CASE TopologySnapshot
    BY <2>13, TransactionsAssumption
       DEF TypeOK, TopologySnapshot, document, journal, publication
  <2>14. CASE RestoreTopology
    <3>1. snapshot \in [entities : [Ids -> Records],
                        tags : [Ids -> SUBSET TagValues],
                        retired : SUBSET Ids, descends : SUBSET (Ids \X Ids),
                        ids : 1..(MaxId + 1)]
      BY <2>14 DEF RestoreTopology, TypeOK
    <3>2. RestoreChangeSet(snapshot) \in Changes
      BY <3>1 DEF RestoreChangeSet, Renewed, Changes, TypeOK, Live
    <3>3. RestoredIds(snapshot) \in 1..(MaxId + 1)
      BY <3>1 DEF RestoredIds, TypeOK
    <3> QED
      BY <2>14, <3>1, <3>2, <3>3, TransactionsAssumption
         DEF TypeOK, RestoreTopology, journal, Live
  <2>15. ASSUME NEW h \in 1..NHooks, Observe(h)
         PROVE replicas' \in [1..NHooks -> [entities : [Ids -> Records],
                                            tags : [Ids -> SUBSET TagValues]]]
    BY <2>15 DEF TypeOK, Observe
  <2>16. CASE HookReturns
    BY <2>15, <2>16, TransactionsAssumption
       DEF TypeOK, HookReturns, document, journal
  <2>17. CASE HookRaises
    BY <2>15, <2>17, TransactionsAssumption
       DEF TypeOK, HookRaises, document, journal
  <2>18. CASE HookInterruptsCommit
    BY <2>7, <2>15, <2>18, TransactionsAssumption DEF HookInterruptsCommit
  <2>19. CASE HookInterruptsNotice
    BY <2>15, <2>19, TransactionsAssumption
       DEF TypeOK, HookInterruptsNotice, document, journal
  <2>20. CASE FinishHooks
    BY <2>20, DroppedJournal, TransactionsAssumption
       DEF TypeOK, FinishHooks, document
  <2>21. CASE UNCHANGED vars
    BY <2>21 DEF TypeOK, vars, document, journal, publication
  <2> QED
    BY <2>1, <2>2, <2>3, <2>4, <2>5, <2>6, <2>8, <2>10, <2>11, <2>12, <2>13,
       <2>14, <2>16, <2>17, <2>18, <2>19, <2>20, <2>21 DEF Next, HookStep, HookFails
<1> QED
  BY <1>1, <1>2, PTL DEF Spec

-----------------------------------------------------------------------------
(* The first capture of a key keeps its previous value, so writing captured *)
(* keys does not change what a rollback would restore.                     *)
LEMMA CaptureEntitiesKeeps ==
    ASSUME TypeOK, NEW keys \in SUBSET Ids, CaptureEntities(keys),
           entities' \in [Ids -> Records],
           \A i \in Ids \ keys : entities'[i] = entities[i]
    PROVE  Before.entities' = Before.entities
BY DEF TypeOK, CaptureEntities, Before

LEMMA CaptureTagsKeeps ==
    ASSUME TypeOK, NEW keys \in SUBSET Ids, CaptureTags(keys),
           \A i \in Ids \ keys : tags'[i] = tags[i]
    PROVE  Before.tags' = Before.tags
BY DEF TypeOK, CaptureTags, Before

(* Superseding moves tags off the retired key and onto its descendants     *)
(* only, and a rollback would undo all of it.                              *)
LEMMA SupersedeEffect ==
    ASSUME TypeOK, DraftConsistent, NEW old \in Ids, NEW new \in SUBSET Ids,
           old \notin retired, Supersede(old, new)
    PROVE  /\ Before.tags' = Before.tags
           /\ Before.retired' = Before.retired
           /\ Before.descends' = Before.descends
           /\ retired' = retired \cup {old}
           /\ \A a \in descends' : a[1] \in retired'
           /\ tagsCaptured \subseteq tagChanges
                 => tagsCaptured' \subseteq tagChanges'
<1>1. Before.retired' = Before.retired /\ retired' = retired \cup {old}
  BY DEF Supersede, Before
<1>2. Before.descends' = Before.descends /\ \A a \in descends' : a[1] \in retired'
  <2>1. descends' = descends \cup ({old} \X new)
        /\ replaced' = replaced \cup {old}
    BY DEF Supersede
  <2>2. \A a \in descends : a[1] # old
    BY DEF DraftConsistent
  <2>3. \A a \in {old} \X new : a[1] = old
    OBVIOUS
  <2>4. {a \in descends' : a[1] \notin replaced'}
          = {a \in descends : a[1] \notin replaced}
    BY <2>1, <2>2, <2>3
  <2> QED
    BY <1>1, <2>1, <2>3, <2>4 DEF Before, DraftConsistent
<1>3. CASE tags[old] = {}
  BY <1>1, <1>2, <1>3 DEF Supersede, Before, TypeOK
<1>4. CASE tags[old] # {}
  <2> DEFINE heirs == {i \in new : ~(tags[old] \subseteq tags[i])}
             keys == {old} \cup heirs
  <2>1. CaptureTags(keys) /\ keys \in SUBSET Ids
    BY <1>4 DEF Supersede
  <2>2. \A i \in Ids \ keys : tags'[i] = tags[i]
    BY <1>4 DEF Supersede
  <2>3. Before.tags' = Before.tags
    BY <2>1, <2>2, CaptureTagsKeeps
  <2>4. tagsCaptured' = tagsCaptured \cup keys
        /\ tagChanges' = tagChanges \cup keys
    BY <1>4 DEF Supersede, CaptureTags
  <2> QED
    BY <1>1, <1>2, <2>3, <2>4
<1> QED
  BY <1>3, <1>4

(* Every edit leaves what a rollback would restore as it is, keeps live    *)
(* entities out of the history, and never allocates an identifier at or    *)
(* above the new high-water mark.                                          *)
LEMMA EditEffect ==
    ASSUME TypeOK, TypeOK', JournalConsistent, DraftConsistent, Edit
    PROVE  Before' = Before /\ DraftConsistent'
           /\ tagsCaptured' \subseteq tagChanges'
           /\ nextId <= nextId'
<1> USE TransactionsAssumption
<1> DEFINE Kept == /\ Before.entities' = Before.entities
                  /\ Before.tags' = Before.tags
                  /\ Before.retired' = Before.retired
                  /\ Before.descends' = Before.descends
<1>0. EditFrame /\ tagsCaptured \subseteq tagChanges
  BY DEF Edit, AddEntity, PutEntity, RemoveEntity, DiscardEntity,
         RecordReplacement, Tag, Untag, JournalConsistent
<1>1. Kept => Before' = Before
  BY <1>0 DEF EditFrame, Before
<1>2. ASSUME NEW v \in Values, AddEntity(v)
      PROVE Kept /\ DraftConsistent' /\ tagsCaptured' \subseteq tagChanges'
  <2>1. Before.entities' = Before.entities
    <3>1. {nextId} \in SUBSET Ids /\ CaptureEntities({nextId})
          /\ \A i \in Ids \ {nextId} : entities'[i] = entities[i]
      BY <1>2 DEF AddEntity, TypeOK
    <3> QED
      BY <3>1, CaptureEntitiesKeeps DEF TypeOK
  <2>2. Before.tags' = Before.tags /\ Before.retired' = Before.retired
        /\ Before.descends' = Before.descends
    BY <1>2 DEF AddEntity, Before
  <2>3. DraftConsistent'
    BY <1>2 DEF AddEntity, DraftConsistent, TypeOK, Ids
  <2> QED
    BY <1>0, <1>2, <2>1, <2>2, <2>3 DEF AddEntity
<1>3. ASSUME NEW i \in Ids, NEW v \in Values, PutEntity(i, v)
      PROVE Kept /\ DraftConsistent' /\ tagsCaptured' \subseteq tagChanges'
  <2>1. Before.entities' = Before.entities
    <3>1. {i} \in SUBSET Ids /\ CaptureEntities({i})
          /\ \A j \in Ids \ {i} : entities'[j] = entities[j]
      BY <1>3 DEF PutEntity, TypeOK
    <3> QED
      BY <3>1, CaptureEntitiesKeeps DEF TypeOK
  <2>2. Before.tags' = Before.tags /\ Before.retired' = Before.retired
        /\ Before.descends' = Before.descends
    BY <1>3 DEF PutEntity, Before
  <2>3. DraftConsistent'
    BY <1>3 DEF PutEntity, DraftConsistent, TypeOK
  <2> QED
    BY <1>0, <1>3, <2>1, <2>2, <2>3 DEF PutEntity
<1>4. ASSUME NEW i \in Ids, RemoveEntity(i)
      PROVE Kept /\ DraftConsistent' /\ tagsCaptured' \subseteq tagChanges'
  <2>1. Before.entities' = Before.entities
    <3>1. {i} \in SUBSET Ids /\ CaptureEntities({i})
          /\ \A j \in Ids \ {i} : entities'[j] = entities[j]
      BY <1>4 DEF RemoveEntity, TypeOK
    <3> QED
      BY <3>1, CaptureEntitiesKeeps DEF TypeOK
  <2>2. Supersede(i, {}) /\ i \notin retired /\ nextId' = nextId
        /\ entities[i] # Missing
        /\ entities' = [entities EXCEPT ![i] = Missing]
    BY <1>4 DEF RemoveEntity
  <2>3. /\ retired' = retired \cup {i} /\ \A a \in descends' : a[1] \in retired'
        /\ Before.tags' = Before.tags /\ Before.retired' = Before.retired
        /\ Before.descends' = Before.descends
        /\ tagsCaptured' \subseteq tagChanges'
    BY <1>0, <2>2, SupersedeEffect
  <2>4. DraftConsistent'
    BY <2>2, <2>3 DEF DraftConsistent, TypeOK
  <2> QED
    BY <2>1, <2>3, <2>4
<1>5. ASSUME NEW i \in Ids, DiscardEntity(i)
      PROVE Kept /\ DraftConsistent' /\ tagsCaptured' \subseteq tagChanges'
  <2>1. Before.entities' = Before.entities
    <3>1. {i} \in SUBSET Ids /\ CaptureEntities({i})
          /\ \A j \in Ids \ {i} : entities'[j] = entities[j]
      BY <1>5 DEF DiscardEntity, TypeOK
    <3> QED
      BY <3>1, CaptureEntitiesKeeps DEF TypeOK
  <2>2. Before.tags' = Before.tags /\ Before.retired' = Before.retired
        /\ Before.descends' = Before.descends
    BY <1>5 DEF DiscardEntity, Before
  <2>3. DraftConsistent'
    BY <1>5 DEF DiscardEntity, DraftConsistent, TypeOK
  <2> QED
    BY <1>0, <1>5, <2>1, <2>2, <2>3 DEF DiscardEntity
<1>9. ASSUME NEW i \in Ids, NEW new \in SUBSET Ids, RecordReplacement(i, new)
      PROVE Kept /\ DraftConsistent' /\ tagsCaptured' \subseteq tagChanges'
  <2>1. Supersede(i, new) /\ i \notin retired /\ nextId' = nextId
        /\ entities[i] = Missing /\ i < nextId /\ entities' = entities
    BY <1>9 DEF RecordReplacement, Replaceable
  <2>2. /\ retired' = retired \cup {i} /\ \A a \in descends' : a[1] \in retired'
        /\ Before.tags' = Before.tags /\ Before.retired' = Before.retired
        /\ Before.descends' = Before.descends
        /\ tagsCaptured' \subseteq tagChanges'
    BY <1>0, <2>1, SupersedeEffect
  <2>3. Before.entities' = Before.entities
    BY <1>9 DEF RecordReplacement, Before
  <2>4. DraftConsistent'
    BY <2>1, <2>2 DEF DraftConsistent
  <2> QED
    BY <2>2, <2>3, <2>4
<1>6. ASSUME NEW i \in Ids, NEW l \in TagValues, Tag(i, l)
      PROVE Kept /\ DraftConsistent' /\ tagsCaptured' \subseteq tagChanges'
  <2>1. Before.tags' = Before.tags
    <3>1. {i} \in SUBSET Ids /\ CaptureTags({i})
          /\ \A j \in Ids \ {i} : tags'[j] = tags[j]
      BY <1>6 DEF Tag, TypeOK
    <3> QED
      BY <3>1, CaptureTagsKeeps
  <2>2. Before.entities' = Before.entities /\ Before.retired' = Before.retired
        /\ Before.descends' = Before.descends
    BY <1>6 DEF Tag, Before
  <2>3. DraftConsistent'
    BY <1>6 DEF Tag, DraftConsistent, TypeOK
  <2> QED
    BY <1>0, <1>6, <2>1, <2>2, <2>3 DEF Tag, CaptureTags
<1>7. ASSUME NEW i \in Ids, NEW l \in TagValues, Untag(i, l)
      PROVE Kept /\ DraftConsistent' /\ tagsCaptured' \subseteq tagChanges'
  <2>1. Before.tags' = Before.tags
    <3>1. {i} \in SUBSET Ids /\ CaptureTags({i})
          /\ \A j \in Ids \ {i} : tags'[j] = tags[j]
      BY <1>7 DEF Untag, TypeOK
    <3> QED
      BY <3>1, CaptureTagsKeeps
  <2>2. Before.entities' = Before.entities /\ Before.retired' = Before.retired
        /\ Before.descends' = Before.descends
    BY <1>7 DEF Untag, Before
  <2>3. DraftConsistent'
    BY <1>7 DEF Untag, DraftConsistent, TypeOK
  <2> QED
    BY <1>0, <1>7, <2>1, <2>2, <2>3 DEF Untag, CaptureTags
<1>8. nextId <= nextId'
  <2>1. nextId' = nextId \/ nextId' = nextId + 1
    BY DEF Edit, AddEntity, PutEntity, RemoveEntity, DiscardEntity,
         RecordReplacement, Tag, Untag
  <2>2. nextId \in Nat
    BY DEF TypeOK
  <2> QED
    BY <2>1, <2>2
<1> QED
  BY <1>1, <1>2, <1>3, <1>4, <1>5, <1>6, <1>7, <1>8, <1>9 DEF Edit

(* Validating the captured records and the changed tags is enough: what  *)
(* was not touched is as valid as it was in the published document.        *)
LEMMA IncrementalValidation ==
    ASSUME TypeOK, Consistent, ~Problems
    PROVE  Publishable(Draft)
<1>1. \A i \in Ids : entities[i] \notin BadValues
  <2>1. \A i \in Ids \ captured : entities[i] = Before.entities[i]
    BY DEF Before
  <2>2. \A i \in Ids : Before.entities[i] \notin BadValues
    BY DEF Consistent, RollbackConsistent, Publishable
  <2> QED
    BY <2>1, <2>2 DEF Problems
<1> QED
  BY <1>1 DEF Draft, Publishable, Consistent, DraftConsistent

(* A rollback leaves a valid document, no journal, and an allocator above  *)
(* everything in the document, whether or not it was rewound.              *)
LEMMA RollbackEffect ==
    ASSUME TypeOK, TypeOK', Consistent, stage \in {"open", "hooks"}, Rollback,
           UNCHANGED <<settings, snapshot>>
    PROVE  Consistent' /\ Published' = Before /\ Before' = Before
<1>1. stage' = "idle" /\ captured' = {} /\ tagsCaptured' = {} /\ replaced' = {}
      /\ tagChanges' = {}
  BY DEF Rollback, DropJournal
<1>2. entities' = Before.entities /\ tags' = Before.tags
      /\ retired' = Before.retired /\ descends' = Before.descends
      /\ settings' = Before.settings
  BY DEF Rollback, Before
<1>3. Draft' = Before /\ Before' = Before
  BY <1>1, <1>2 DEF Draft, Before, TypeOK
<1>4. Published' = Before
  BY <1>1, <1>3 DEF Published
<1>5. Publishable(Before)
  BY DEF Consistent, RollbackConsistent
<1>6. DraftConsistent'
  <2>1. \A i \in Ids : Before.entities[i] # Missing \/ i \in Before.retired
                       => i < nextId'
    <3>1. CASE exact
      BY <3>1 DEF Rollback, Consistent, RollbackConsistent
    <3>2. CASE ~exact
      BY <3>2 DEF Rollback, Consistent, RollbackConsistent, TypeOK, Ids
    <3> QED
      BY <3>1, <3>2
  <2>2. \A a \in Before.descends : a[1] \in Before.retired
    BY DEF Before, Consistent, DraftConsistent
  <2> QED
    BY <1>2, <1>5, <2>1, <2>2 DEF DraftConsistent, Publishable, TypeOK
<1>7. JournalConsistent'
  BY <1>1 DEF JournalConsistent
<1>8. RollbackConsistent'
  BY <1>1, <1>3, <1>5 DEF RollbackConsistent
<1>9. SnapshotConsistent'
  BY DEF Consistent, SnapshotConsistent
<1>10. PublishedValid'
  BY <1>4, <1>5 DEF PublishedValid
<1> QED
  BY <1>3, <1>4, <1>6, <1>7, <1>8, <1>9, <1>10 DEF Consistent

(* One step keeps the draft, the rollback content, the snapshot and the    *)
(* published document consistent.                                          *)
LEMMA ConsistentStep ==
    ASSUME TypeOK, TypeOK', Consistent, [Next]_vars
    PROVE  Consistent'
<1> USE TransactionsAssumption
<1> DEFINE Same == /\ UNCHANGED <<document, nextId, snapshot>>
                  /\ UNCHANGED <<captured, entityBefore, tagsCaptured,
                                 tagsBefore, tagChanges, replaced>>
<1>0. /\ JournalConsistent /\ DraftConsistent /\ RollbackConsistent
      /\ SnapshotConsistent /\ PublishedValid
  BY DEF Consistent
<1>1. ASSUME Same PROVE Before' = Before /\ Draft' = Draft
                        /\ DraftConsistent' /\ SnapshotConsistent'
  BY <1>0, <1>1 DEF Before, Draft, document, DraftConsistent, SnapshotConsistent
<1>2. CASE EnterOuter
  <2>1. Same /\ stage = "idle" /\ stage' = "open" /\ allocatorBefore' = nextId
        /\ revision' = revision /\ revisionBefore' = revision
    BY <1>2 DEF EnterOuter
  <2>2. Before.entities = entities /\ Before.retired = retired
    BY <1>0, <2>1 DEF JournalConsistent, Before, TypeOK
  <2>3. RollbackConsistent'
    <3>1. \A i \in Ids : Before.entities[i] # Missing \/ i \in Before.retired
                         => i < nextId
      BY <1>0, <2>2 DEF DraftConsistent
    <3>2. nextId' = nextId /\ nextId \in Nat
      BY <2>1 DEF TypeOK
    <3>3. Publishable(Before)
      BY <1>0 DEF RollbackConsistent
    <3> QED
      BY <1>1, <2>1, <3>1, <3>2, <3>3 DEF RollbackConsistent
  <2>4. PublishedValid'
    BY <1>0, <1>1, <2>1 DEF PublishedValid, Published, RollbackConsistent
  <2>5. JournalConsistent'
    BY <1>0, <2>1 DEF JournalConsistent
  <2> QED
    BY <1>1, <2>1, <2>3, <2>4, <2>5 DEF Consistent
<1>3. ASSUME stage' = stage, allocatorBefore' = allocatorBefore,
             revision' = revision, revisionBefore' = revisionBefore, Same
      PROVE  Consistent'
  BY <1>0, <1>1, <1>3
     DEF Consistent, JournalConsistent, RollbackConsistent, PublishedValid,
         Published
<1>4. CASE EnterNested
  BY <1>3, <1>4 DEF EnterNested
<1>5. ASSUME NEW failed \in BOOLEAN, ExitNested(failed) PROVE Consistent'
  BY <1>3, <1>5 DEF ExitNested
<1>6. CASE RequestExactRollback
  BY <1>3, <1>6 DEF RequestExactRollback
<1>7. CASE Edit
  <2>1. Before' = Before /\ DraftConsistent' /\ nextId <= nextId'
        /\ tagsCaptured' \subseteq tagChanges'
    BY <1>0, <1>7, EditEffect
  <2>2. EditFrame
    BY <1>7 DEF Edit, AddEntity, PutEntity, RemoveEntity, DiscardEntity,
         RecordReplacement, Tag, Untag
  <2>3. stage = "open" /\ stage' = "open" /\ allocatorBefore' = allocatorBefore
        /\ revision' = revision /\ revisionBefore' = revisionBefore
        /\ snapshot' = snapshot
    BY <2>2 DEF EditFrame
  <2>4. RollbackConsistent'
    <3>1. allocatorBefore <= nextId'
      BY <1>0, <2>1, <2>3 DEF RollbackConsistent, TypeOK
    <3> QED
      BY <1>0, <2>1, <2>3, <3>1 DEF RollbackConsistent
  <2>5. PublishedValid'
    BY <1>0, <2>1, <2>3 DEF PublishedValid, Published, RollbackConsistent
  <2>6. JournalConsistent' /\ SnapshotConsistent'
    BY <1>0, <2>1, <2>3 DEF JournalConsistent, SnapshotConsistent
  <2> QED
    BY <2>1, <2>4, <2>5, <2>6 DEF Consistent
<1>8. ASSUME NEW n \in Floors, ReserveIds(n) PROVE Consistent'
  <2>1. nextId < nextId' /\ nextId \in Nat /\ nextId' \in Nat
        /\ UNCHANGED <<document, stage, journal, snapshot, revision>>
    BY <1>8 DEF ReserveIds, TypeOK
  <2>2. Before' = Before /\ Draft' = Draft
    BY <2>1 DEF Before, Draft, document, journal
  <2>3. DraftConsistent'
    BY <1>0, <2>1 DEF DraftConsistent, document, TypeOK, Ids
  <2>4. RollbackConsistent'
    BY <1>0, <2>1, <2>2 DEF RollbackConsistent, journal, TypeOK
  <2> QED
    BY <1>0, <2>1, <2>2, <2>3, <2>4
       DEF Consistent, JournalConsistent, SnapshotConsistent, PublishedValid,
           Published, journal
<1>9. ASSUME NEW error \in BOOLEAN, ExitFailing(error) PROVE Consistent'
  BY <1>9, RollbackEffect DEF ExitFailing
<1>10. ASSUME stage' # "open", Publishable(Draft), Before' = Draft,
              Draft' = Draft, UNCHANGED <<document, nextId, snapshot>>,
              captured' = {}, tagsCaptured' = {}, replaced' = {},
              stage' = "idle"
       PROVE  Consistent'
  <2>1. RollbackConsistent' /\ PublishedValid' /\ JournalConsistent'
    BY <1>10 DEF RollbackConsistent, PublishedValid, Published,
                 JournalConsistent
  <2>2. DraftConsistent' /\ SnapshotConsistent'
    BY <1>0, <1>10 DEF DraftConsistent, SnapshotConsistent, document
  <2> QED
    BY <2>1, <2>2 DEF Consistent
<1>11. ASSUME UNCHANGED document, DropJournal PROVE Before' = Draft /\ Draft' = Draft
  BY <1>11 DEF Before, Draft, document, DropJournal, TypeOK
<1>12. CASE ExitUnchanged
  <2>1. Publishable(Draft)
    BY <1>12, IncrementalValidation DEF ExitUnchanged, Committable
  <2> QED
    BY <1>10, <1>11, <1>12, <2>1 DEF ExitUnchanged, DropJournal
<1>13. CASE ExitCommitting
  <2>1. Publishable(Draft)
    BY <1>13, IncrementalValidation DEF ExitCommitting, Committable
  <2>2. Same /\ stage = "open" /\ stage' = "hooks"
        /\ allocatorBefore' = allocatorBefore
    BY <1>13 DEF ExitCommitting, journal
  <2>3. RollbackConsistent' /\ PublishedValid' /\ JournalConsistent'
    BY <1>0, <1>1, <2>1, <2>2
       DEF RollbackConsistent, PublishedValid, Published, JournalConsistent
  <2> QED
    BY <1>1, <2>2, <2>3 DEF Consistent
<1>14. ASSUME NEW s \in Settings, SetDocumentSettings(s) PROVE Consistent'
  <2>1. UNCHANGED <<entities, tags, retired, descends, nextId, journal,
                    snapshot>>
        /\ stage = "idle" /\ stage' = "notify"
    BY <1>14 DEF SetDocumentSettings
  <2>2. Publishable(Before') /\ Publishable(Draft')
    BY <1>0, <2>1 DEF RollbackConsistent, PublishedValid, Published,
                      Publishable, Before, Draft, journal
  <2> QED
    BY <1>0, <2>1, <2>2
       DEF Consistent, JournalConsistent, DraftConsistent, RollbackConsistent,
           SnapshotConsistent, PublishedValid, Published, journal
<1>15. CASE TopologySnapshot
  <2>1. UNCHANGED <<document, nextId, revision, stage, journal>>
        /\ snapshot' = [entities |-> entities, tags |-> tags,
                        retired |-> retired, descends |-> descends,
                        ids |-> nextId]
    BY <1>15 DEF TopologySnapshot
  <2>2. SnapshotConsistent'
    BY <1>0, <2>1 DEF SnapshotConsistent, DraftConsistent
  <2>3. Before' = Before /\ Draft' = Draft
    BY <2>1 DEF Before, Draft, document, journal
  <2> QED
    BY <1>0, <2>1, <2>2, <2>3
       DEF Consistent, JournalConsistent, DraftConsistent, RollbackConsistent,
           PublishedValid, Published, document, journal
<1>16. CASE RestoreTopology
  <2>1. /\ stage = "idle" /\ stage' = "notify" /\ snapshot # NoSnapshot
        /\ ValidContent(snapshot) /\ entities' = snapshot.entities
        /\ tags' = snapshot.tags /\ retired' = snapshot.retired
        /\ descends' = snapshot.descends
        /\ nextId' = RestoredIds(snapshot)
        /\ UNCHANGED <<settings, journal, snapshot>>
    BY <1>16 DEF RestoreTopology
  <2>2. captured' = {} /\ tagsCaptured' = {} /\ replaced' = {}
    BY <1>0, <2>1 DEF JournalConsistent, journal
  <2>3. Publishable(Draft')
    BY <2>1 DEF ValidContent, Publishable, Draft
  <2>4. Before' = Draft'
    BY <2>2 DEF Before, Draft, TypeOK
  <2>5. DraftConsistent'
    <3>1. snapshot.ids <= nextId' /\ snapshot.ids \in Nat /\ nextId' \in Nat
          /\ snapshot.retired \subseteq Ids
      BY <2>1 DEF RestoredIds, TypeOK
    <3>2. \A i \in Ids : snapshot.entities[i] # Missing
                         \/ i \in snapshot.retired => i < nextId'
      BY <1>0, <2>1, <3>1 DEF SnapshotConsistent, Ids
    <3> QED
      BY <1>0, <2>1, <3>1, <3>2
         DEF DraftConsistent, SnapshotConsistent, ValidContent, Publishable
  <2> QED
    BY <1>0, <2>1, <2>2, <2>3, <2>4, <2>5
       DEF Consistent, JournalConsistent, RollbackConsistent,
           SnapshotConsistent, PublishedValid, Published, journal
<1>17. ASSUME UNCHANGED <<document, nextId, revision, stage, journal, snapshot>>
       PROVE  Consistent'
  BY <1>3, <1>17 DEF journal
<1>18. CASE HookReturns \/ HookRaises \/ UNCHANGED vars
  BY <1>17, <1>18 DEF HookReturns, HookRaises, vars
<1>19. CASE HookInterruptsCommit
  BY <1>19, RollbackEffect DEF HookInterruptsCommit
<1>20. CASE HookInterruptsNotice
  <2>1. stage = "notify" /\ stage' = "idle"
        /\ UNCHANGED <<document, nextId, journal, snapshot>>
    BY <1>20 DEF HookInterruptsNotice
  <2>2. captured' = {} /\ tagsCaptured' = {} /\ replaced' = {}
    BY <1>0, <2>1 DEF JournalConsistent, journal
  <2>3. Publishable(Draft)
    BY <1>0, <2>1 DEF PublishedValid, Published
  <2>4. Before' = Draft /\ Draft' = Draft
    BY <2>1, <2>2 DEF Before, Draft, document, TypeOK
  <2>5. JournalConsistent'
    BY <1>0, <2>1 DEF JournalConsistent, journal
  <2> QED
    BY <1>10, <2>1, <2>2, <2>3, <2>4
<1>21. CASE FinishHooks
  <2>1. Publishable(Draft)
    BY <1>0, <1>21 DEF FinishHooks, Notifying, PublishedValid, Published
  <2> QED
    BY <1>10, <1>11, <1>21, <2>1 DEF FinishHooks, DropJournal
<1> QED
  BY <1>2, <1>4, <1>5, <1>6, <1>7, <1>8, <1>9, <1>12, <1>13, <1>14, <1>15,
     <1>16, <1>18, <1>19, <1>20, <1>21 DEF Next, HookStep, HookFails

(* The draft, the content a rollback would restore, a kept snapshot and    *)
(* the published document are consistent in every reachable state.         *)
THEOREM AlwaysConsistent == Spec => []Consistent
<1>1. Init => Consistent
  <2> SUFFICES ASSUME Init PROVE Consistent
    OBVIOUS
  <2>1. Publishable(Before) /\ Publishable(Draft)
    BY TransactionsAssumption
       DEF Init, Publishable, Before, Draft, NoRecords, NoTags
  <2> QED
    BY <2>1 DEF Init, Consistent, JournalConsistent, DraftConsistent,
                RollbackConsistent, SnapshotConsistent, PublishedValid,
                Published, NoRecords, NoTags
<1>2. TypeOK /\ TypeOK' /\ Consistent /\ [Next]_vars => Consistent'
  BY ConsistentStep
<1> QED
  BY <1>1, <1>2, TypeCorrect, PTL DEF Spec

(* Incremental validation is enough: whatever a transaction touched, and   *)
(* whatever its hooks raised, the published document has no rejected       *)
(* record and no live entity in its history.                               *)
THEOREM PublishedAlwaysValid == Spec => []PublishedValid
<1>1. Consistent => PublishedValid
  BY DEF Consistent
<1> QED
  BY <1>1, AlwaysConsistent, PTL

-----------------------------------------------------------------------------
(* Identifiers, when no hook raises outside Exception *)

LEMMA IdentifiersStep ==
    ASSUME "base" \notin HookFaults, TypeOK, TypeOK', Consistent, Consistent',
           IdentifiersConsistent, [Next]_vars
    PROVE  IdentifiersConsistent'
<1> USE TransactionsAssumption
<1>0. Published = IF stage = "open" THEN Before ELSE Draft
  BY DEF Published
<1>1. ASSUME UNCHANGED <<stage, Before, Draft, committedIds, allocatorBefore>>,
             nextId <= nextId'
      PROVE  IdentifiersConsistent'
  <2>1. Published' = Published
    BY <1>1 DEF Published
  <2>2. \A i \in committedIds : i < nextId'
    <3>1. nextId <= nextId' /\ nextId \in Nat /\ nextId' \in Nat
      BY <1>1 DEF TypeOK
    <3> QED
      BY <3>1 DEF IdentifiersConsistent, TypeOK, Ids
  <2> QED
    BY <1>1, <2>1, <2>2 DEF IdentifiersConsistent
<1>2. CASE EnterOuter
  <2>1. stage = "idle" /\ stage' = "open" /\ allocatorBefore' = nextId
        /\ UNCHANGED <<document, captured, nextId, committedIds>>
    BY <1>2 DEF EnterOuter
  <2>2. captured = {}
    BY <2>1 DEF Consistent, JournalConsistent
  <2>3. Published'.entities = Published.entities
    BY <2>1, <2>2 DEF Published, Before, Draft, document, TypeOK
  <2> QED
    BY <2>1, <2>3 DEF IdentifiersConsistent
<1>3. CASE EnterNested \/ (\E failed \in BOOLEAN : ExitNested(failed))
           \/ RequestExactRollback \/ TopologySnapshot \/ HookReturns
           \/ HookRaises \/ UNCHANGED vars
  <2>1. UNCHANGED <<document, nextId, stage, captured, entityBefore,
                    tagsCaptured, tagsBefore, replaced, committedIds,
                    allocatorBefore>>
    BY <1>3 DEF EnterNested, ExitNested, RequestExactRollback,
                TopologySnapshot, HookReturns, HookRaises, vars, journal
  <2> QED
    BY <1>1, <2>1 DEF Before, Draft, document, TypeOK
<1>4. CASE Edit
  <2>1. Before' = Before /\ nextId <= nextId'
    BY <1>4, EditEffect DEF Consistent
  <2>2. EditFrame
    BY <1>4 DEF Edit, AddEntity, PutEntity, RemoveEntity, DiscardEntity,
         RecordReplacement, Tag, Untag
  <2>3. stage = "open" /\ stage' = "open" /\ committedIds' = committedIds
        /\ allocatorBefore' = allocatorBefore
    BY <2>2 DEF EditFrame
  <2>4. \A i \in committedIds : i < nextId'
    BY <2>1 DEF IdentifiersConsistent, TypeOK, Ids
  <2> QED
    BY <2>1, <2>3, <2>4 DEF IdentifiersConsistent, Published
<1>5. ASSUME NEW n \in Floors, ReserveIds(n)
      PROVE IdentifiersConsistent'
  BY <1>1, <1>5 DEF ReserveIds, Before, Draft, document, journal, TypeOK
<1>6. ASSUME NEW error \in BOOLEAN, ExitFailing(error)
      PROVE IdentifiersConsistent'
  <2>1. stage = "open" /\ Published' = Before /\ Published = Before
        /\ committedIds' = committedIds /\ stage' = "idle"
    BY <1>6, RollbackEffect DEF ExitFailing, Rollback, Published
  <2>2. nextId' = IF exact THEN allocatorBefore ELSE nextId
    BY <1>6 DEF ExitFailing, Rollback
  <2> QED
    BY <2>1, <2>2 DEF IdentifiersConsistent
<1>7. CASE ExitUnchanged
  <2>1. captured' = {} /\ stage = "open" /\ stage' = "idle" /\ ~Changed
        /\ UNCHANGED <<document, nextId, committedIds>>
    BY <1>7 DEF ExitUnchanged, DropJournal
  <2>2. \A i \in captured : entities[i] = entityBefore[i]
    BY <2>1 DEF Changed, Added, Removed, Modified
  <2>3. Published'.entities = Published.entities
    BY <2>1, <2>2 DEF Published, Before, Draft, document, TypeOK
  <2> QED
    BY <2>1, <2>3 DEF IdentifiersConsistent
<1>8. CASE ExitCommitting
  <2>1. stage' = "hooks" /\ UNCHANGED <<document, nextId>>
        /\ committedIds' = committedIds \cup Live(entities)
    BY <1>8 DEF ExitCommitting
  <2>2. Published'.entities = entities
    BY <2>1 DEF Published, Draft, document
  <2> QED
    BY <2>1, <2>2 DEF IdentifiersConsistent, Consistent, DraftConsistent, Live
<1>9. ASSUME NEW s \in Settings, SetDocumentSettings(s)
      PROVE IdentifiersConsistent'
  <2>1. stage = "idle" /\ stage' = "notify"
        /\ UNCHANGED <<entities, nextId, committedIds>>
    BY <1>9 DEF SetDocumentSettings
  <2> QED
    BY <2>1 DEF IdentifiersConsistent, Published, Draft
<1>10. CASE RestoreTopology
  <2>1. stage' = "notify" /\ entities' = snapshot.entities
        /\ committedIds' = committedIds \cup Live(snapshot.entities)
        /\ nextId' = RestoredIds(snapshot) /\ snapshot # NoSnapshot
    BY <1>10 DEF RestoreTopology
  <2>2. nextId <= nextId' /\ nextId \in Nat /\ nextId' \in Nat
    BY <2>1 DEF RestoredIds, TypeOK
  <2>3. \A i \in Live(snapshot.entities) : i < nextId'
    BY <2>1 DEF Consistent, DraftConsistent, Live
  <2>4. \A i \in committedIds : i < nextId'
    BY <2>2 DEF IdentifiersConsistent, TypeOK, Ids
  <2> QED
    BY <2>1, <2>3, <2>4 DEF IdentifiersConsistent, Published, Draft, Live
<1>11. CASE HookInterruptsCommit \/ HookInterruptsNotice
  BY <1>11 DEF HookInterruptsCommit, HookInterruptsNotice
<1>12. CASE FinishHooks
  <2>1. stage # "open" /\ stage' = "idle"
        /\ UNCHANGED <<document, nextId, committedIds>>
    BY <1>12 DEF FinishHooks, Notifying
  <2> QED
    BY <2>1 DEF IdentifiersConsistent, Published, Draft, document
<1> QED
  BY <1>2, <1>3, <1>4, <1>5, <1>6, <1>7, <1>8, <1>9, <1>10, <1>11, <1>12
     DEF Next, HookStep, HookFails

(* "Retired committed IDs are never reassigned": the allocator stays above *)
(* every identifier ever published, through rollback, exact rollback,      *)
(* commit and undo, as long as no hook raises KeyboardInterrupt or the     *)
(* like.                                                                   *)
THEOREM CommittedIdentifiersNeverReused ==
    ASSUME "base" \notin HookFaults
    PROVE  Spec => []CommittedIdsNeverReused
<1>1. Init => IdentifiersConsistent
  BY DEF Init, IdentifiersConsistent, Published, Draft, NoRecords
<1>2. TypeOK /\ TypeOK' /\ Consistent /\ Consistent'
      /\ IdentifiersConsistent /\ [Next]_vars => IdentifiersConsistent'
  BY IdentifiersStep
<1>3. IdentifiersConsistent => CommittedIdsNeverReused
  BY DEF IdentifiersConsistent, CommittedIdsNeverReused
<1> QED
  BY <1>1, <1>2, <1>3, TypeCorrect, AlwaysConsistent, PTL DEF Spec

-----------------------------------------------------------------------------
(* The replacement history stays acyclic, so that following it from a      *)
(* stale reference always ends.  It grows arc by arc over many             *)
(* transactions and shrinks by rollback; the guard of record_replacement   *)
(* looks only at the arcs it is about to add.                              *)

LEMMA ReachesMore ==
    ASSUME NEW arcs, NEW more, arcs \subseteq more, NEW x, NEW y,
           Reaches(arcs, x, y)
    PROVE  Reaches(more, x, y)
BY DEF Reaches

LEMMA AcyclicSubset ==
    ASSUME NEW arcs, NEW more, arcs \subseteq more, Acyclic(more)
    PROVE  Acyclic(arcs)
BY ReachesMore DEF Acyclic

(* A cycle through a new arc would need a descendant that already reaches  *)
(* old, and so would a cycle through an old arc and a new one.             *)
LEMMA AcyclicExtended ==
    ASSUME NEW arcs \in SUBSET (Ids \X Ids), Acyclic(arcs),
           NEW old \in Ids, NEW new \in SUBSET Ids,
           \A i \in new : ~Reaches(arcs, i, old)
    PROVE  Acyclic(arcs \cup ({old} \X new))
<1> DEFINE grown == arcs \cup ({old} \X new)
           Closed(S) == \A a \in arcs : a[1] \in S => a[2] \in S
           Reached == {x \in Ids : \E i \in new : Reaches(arcs, i, x)}
<1>1. SUFFICES ASSUME NEW a \in grown PROVE ~Reaches(grown, a[2], a[1])
  BY DEF Acyclic
<1>2. \A S \in SUBSET Ids : Closed(S) /\ (old \in S => new \subseteq S)
        => \A b \in grown : b[1] \in S => b[2] \in S
  OBVIOUS
<1>3. new \subseteq Reached /\ old \notin Reached /\ Closed(Reached)
  <2>1. new \subseteq Reached
    BY DEF Reaches
  <2>2. ASSUME NEW b \in arcs, b[1] \in Reached PROVE b[2] \in Reached
    <3>1. PICK i \in new : Reaches(arcs, i, b[1])
      BY <2>2
    <3>2. Reaches(arcs, i, b[2])
      BY <3>1 DEF Reaches
    <3> QED
      BY <3>2
  <2> QED
    BY <2>1, <2>2
<1>4. CASE a[1] = old /\ a[2] \in new
  <2>1. Closed(Reached) /\ a[2] \in Reached /\ a[1] \notin Reached
        /\ Reached \in SUBSET Ids
    BY <1>3, <1>4
  <2>2. \A b \in grown : b[1] \in Reached => b[2] \in Reached
    BY <1>2, <1>3, <2>1
  <2> QED
    BY <2>1, <2>2 DEF Reaches
<1>5. CASE a \in arcs
  <2>1. PICK S \in SUBSET Ids : a[2] \in S /\ Closed(S) /\ a[1] \notin S
    BY <1>5 DEF Acyclic, Reaches
  <2>2. CASE Reaches(arcs, a[2], old)
    <3>1. a[1] \notin Reached
      <4> SUFFICES ASSUME a[1] \in Reached PROVE FALSE
        OBVIOUS
      <4>1. PICK i \in new : Reaches(arcs, i, a[1])
        OBVIOUS
      <4>2. Reaches(arcs, i, old)
        BY <1>5, <2>2, <4>1 DEF Reaches
      <4> QED
        BY <4>2
    <3>2. S \cup Reached \in SUBSET Ids /\ Closed(S \cup Reached)
          /\ new \subseteq S \cup Reached
      BY <1>3, <2>1
    <3>3. \A b \in grown : b[1] \in S \cup Reached => b[2] \in S \cup Reached
      BY <1>2, <3>2
    <3> QED
      BY <2>1, <3>1, <3>2, <3>3 DEF Reaches
  <2>3. CASE ~Reaches(arcs, a[2], old)
    <3>1. PICK T \in SUBSET Ids : a[2] \in T /\ Closed(T) /\ old \notin T
      BY <2>3 DEF Reaches
    <3>2. S \cap T \in SUBSET Ids /\ Closed(S \cap T) /\ old \notin S \cap T
      BY <2>1, <3>1
    <3>3. \A b \in grown : b[1] \in S \cap T => b[2] \in S \cap T
      BY <1>2, <3>2
    <3> QED
      BY <2>1, <3>1, <3>2, <3>3 DEF Reaches
  <2> QED
    BY <2>2, <2>3
<1> QED
  BY <1>4, <1>5

LEMMA LineageStep ==
    ASSUME TypeOK, LineageAcyclic, [Next]_vars
    PROVE  LineageAcyclic'
<1>1. CASE descends' = descends
  BY <1>1 DEF LineageAcyclic
<1>2. ASSUME NEW i \in Ids, NEW new \in SUBSET Ids, Supersede(i, new),
             \A j \in new : ~Reaches(descends, j, i)
      PROVE  LineageAcyclic'
  <2>1. descends' = descends \cup ({i} \X new)
    BY <1>2 DEF Supersede
  <2>2. descends \in SUBSET (Ids \X Ids)
    BY DEF TypeOK
  <2> QED
    BY <1>2, <2>1, <2>2, AcyclicExtended DEF LineageAcyclic
<1>3. CASE Rollback
  <2>1. descends' \subseteq descends
    BY <1>3 DEF Rollback
  <2> QED
    BY <2>1, AcyclicSubset DEF LineageAcyclic
<1>4. CASE RestoreTopology
  BY <1>4 DEF RestoreTopology, ValidContent, LineageAcyclic
<1>5. CASE Edit
  <2>1. ASSUME NEW i \in Ids, RemoveEntity(i) PROVE LineageAcyclic'
    <3>1. Supersede(i, {})
      BY <2>1 DEF RemoveEntity
    <3> QED
      BY <1>2, <3>1
  <2>2. ASSUME NEW i \in Ids, NEW new \in SUBSET Ids, RecordReplacement(i, new)
        PROVE LineageAcyclic'
    BY <1>2, <2>2 DEF RecordReplacement, Replaceable
  <2> QED
    BY <1>1, <1>5, <2>1, <2>2
       DEF Edit, AddEntity, PutEntity, DiscardEntity, Tag, Untag
<1> QED
  BY <1>1, <1>3, <1>4, <1>5
     DEF Next, HookStep, HookFails, EnterOuter, EnterNested, ExitNested, ExitFailing,
         RequestExactRollback, ReserveIds, ExitUnchanged, ExitCommitting,
         SetDocumentSettings, TopologySnapshot, HookReturns, HookRaises,
         HookInterruptsCommit, HookInterruptsNotice, FinishHooks, vars, document

(* No sequence of edits, rollbacks and restored snapshots makes an entity  *)
(* its own descendant.                                                     *)
THEOREM LineageStaysAcyclic == Spec => []LineageAcyclic
<1>1. Init => LineageAcyclic
  BY DEF Init, LineageAcyclic, Acyclic
<1>2. TypeOK /\ LineageAcyclic /\ [Next]_vars => LineageAcyclic'
  BY LineageStep
<1> QED
  BY <1>1, <1>2, TypeCorrect, PTL DEF Spec

=============================================================================
