---------------------------- MODULE Transactions ----------------------------
(***************************************************************************)
(* The mutation authority of a GeometryModel: the undo journal behind      *)
(* GeometryModel.transaction(), nested contexts, rollback, incremental     *)
(* validation at commit, the ChangeSet, the change hooks that observe it,  *)
(* the identifier allocator, and the two edits that publish without a      *)
(* journal (set_document_settings and restore_topology).                   *)
(*                                                                         *)
(* Entities of every kind share one key space Ids; a record's payload is   *)
(* one of Values.  Of the mappings keyed by reference the tags are here;   *)
(* groups are journalled the same way under the name of the group.         *)
(***************************************************************************)
EXTENDS Naturals, FiniteSets

CONSTANTS
    Values,      \* payloads an entity record can have
    BadValues,   \* payloads the commit validation rejects
    TagValues,   \* the values an entity can be tagged with
    Settings,    \* values of the document settings
    Missing,     \* the code's _MISSING: no record under this key
    NoSnapshot,  \* no topology snapshot has been taken
    NoDraft,     \* no transaction is open
    NHooks,      \* number of subscribed change hooks
    HookFaults,  \* what a hook may raise: subset of {"exception", "base"}
    MaxId,       \* bound: identifiers are 1..MaxId
    MaxDepth,    \* bound: nesting of transaction contexts
    MaxRevision, \* bound: no new edit starts at this revision
    SnapshotAt,  \* bound: the revisions at which a snapshot is taken
    Floors       \* bound: what reserve_id_state raises the allocator to

ASSUME TransactionsAssumption ==
    /\ BadValues \subseteq Values
    /\ Missing \notin Values
    /\ Settings # {}
    /\ NHooks \in Nat
    /\ HookFaults \subseteq {"exception", "base"}
    /\ MaxId \in Nat \ {0}
    /\ MaxDepth \in Nat \ {0}
    /\ MaxRevision \in Nat
    /\ SnapshotAt \subseteq Nat
    /\ Floors \subseteq 1..(MaxId + 1)

Ids == 1..MaxId
Records == Values \cup {Missing}

VARIABLES
    entities,        \* [Ids -> Records]: the private stores
    tags,            \* [Ids -> SUBSET TagValues]: _tags
    retired,         \* keys of _replacement_history: superseded or deleted
    descends,        \* its arcs: <<old, new>> when new took the place of old
    settings,        \* tolerance, units, origin, ... of the document
    nextId,          \* _next_id: the allocator's high-water mark
    revision,        \* _revision
    stage,           \* "idle", "open" (journal), "hooks" (inside
                     \* _commit_transaction), "notify" (after a direct edit)
    depth,           \* journal.depth
    failure,         \* journal.failure is not None
    exact,           \* journal.exact_allocator_rollback
    captured,        \* keys of journal.entity_before
    entityBefore,    \* journal.entity_before, Missing outside captured
    tagsCaptured,    \* keys of journal.mapping_before
    tagsBefore,      \* journal.mapping_before, {} outside tagsCaptured
    tagChanges,      \* journal.tag_changes
    replaced,        \* _replacements[journal.replacement_log_start:]
    revisionBefore,  \* journal.revision_before
    allocatorBefore, \* journal.allocator_state_before
    lastChange,      \* _last_change_set
    pending,         \* position of the hook loop, 0 when not notifying
    snapshot,        \* a topology_snapshot() kept by the caller
    replicas,        \* history: what each hook knows by following ChangeSets
    committedIds     \* history: every identifier of a published entity

document == <<entities, tags, retired, descends, settings>>
journal == <<depth, failure, exact, captured, entityBefore, tagsCaptured,
             tagsBefore, tagChanges, replaced, revisionBefore, allocatorBefore>>
publication == <<lastChange, pending, replicas>>
vars == <<document, nextId, revision, stage, journal, publication, snapshot,
          committedIds>>

Contents == [entities : [Ids -> Records], tags : [Ids -> SUBSET TagValues],
             retired : SUBSET Ids, descends : SUBSET (Ids \X Ids),
             settings : Settings]

ASSUME SentinelAssumption == NoDraft \notin Contents

(* y is in every set that holds x and the descendants of its members. *)
Reaches(arcs, x, y) ==
    \A S \in SUBSET Ids :
        x \in S /\ (\A a \in arcs : a[1] \in S => a[2] \in S) => y \in S

Acyclic(arcs) == \A a \in arcs : ~Reaches(arcs, a[2], a[1])

(* What the validation of every commit is there to keep. *)
Publishable(c) ==
    /\ \A i \in Ids : c.entities[i] \notin BadValues
    /\ \A i \in c.retired : c.entities[i] = Missing

(* validate_topology on a whole content: also every tagged entity and      *)
(* every descendant is live or has a history of its own.                   *)
ValidContent(c) ==
    /\ Publishable(c)
    /\ \A i \in Ids : c.tags[i] # {} => c.entities[i] # Missing \/ i \in c.retired
    /\ \A a \in c.descends : c.entities[a[2]] # Missing \/ a[2] \in c.retired
    /\ Acyclic(c.descends)

Live(store) == {i \in Ids : store[i] # Missing}

Changes == [before : Nat, after : Nat, added : SUBSET Ids,
            removed : SUBSET Ids, modified : SUBSET Ids,
            tagChanges : SUBSET Ids, replacements : SUBSET Ids]

NoRecords == [i \in Ids |-> Missing]
NoTags == [i \in Ids |-> {}]

Init ==
    /\ entities = NoRecords
    /\ tags = NoTags
    /\ retired = {}
    /\ descends = {}
    /\ settings \in Settings
    /\ nextId = 1
    /\ revision = 0
    /\ stage = "idle"
    /\ depth = 0
    /\ failure = FALSE
    /\ exact = FALSE
    /\ captured = {}
    /\ entityBefore = NoRecords
    /\ tagsCaptured = {}
    /\ tagsBefore = NoTags
    /\ tagChanges = {}
    /\ replaced = {}
    /\ revisionBefore = 0
    /\ allocatorBefore = 1
    /\ lastChange = [before |-> 0, after |-> 0, added |-> {}, removed |-> {},
                     modified |-> {}, tagChanges |-> {}, replacements |-> {}]
    /\ pending = 0
    /\ snapshot = NoSnapshot
    /\ replicas = [h \in 1..NHooks |->
                      [entities |-> NoRecords, tags |-> NoTags]]
    /\ committedIds = {}

-----------------------------------------------------------------------------
(* Entering and leaving nested contexts *)

(* The journal object is dropped: _exit_transaction ends. *)
DropJournal ==
    /\ depth' = 0
    /\ failure' = FALSE
    /\ exact' = FALSE
    /\ captured' = {}
    /\ entityBefore' = NoRecords
    /\ tagsCaptured' = {}
    /\ tagsBefore' = NoTags
    /\ tagChanges' = {}
    /\ replaced' = {}
    /\ revisionBefore' = 0
    /\ allocatorBefore' = 1

(* transaction().__enter__ with no journal; hooks are read-only observers. *)
EnterOuter ==
    /\ stage = "idle"
    /\ revision < MaxRevision
    /\ stage' = "open"
    /\ depth' = 1
    /\ revisionBefore' = revision
    /\ allocatorBefore' = nextId
    /\ UNCHANGED <<document, nextId, revision, failure, exact, captured,
                   entityBefore, tagsCaptured, tagsBefore, tagChanges,
                   replaced, publication, snapshot, committedIds>>

EnterNested ==
    /\ stage = "open"
    /\ depth < MaxDepth
    /\ depth' = depth + 1
    /\ UNCHANGED <<document, nextId, revision, stage, failure, exact,
                   captured, entityBefore, tagsCaptured, tagsBefore,
                   tagChanges, replaced, revisionBefore, allocatorBefore,
                   publication, snapshot, committedIds>>

(* A nested edit may fail; its caller may catch the exception and go on. *)
ExitNested(failed) ==
    /\ stage = "open"
    /\ depth > 1
    /\ depth' = depth - 1
    /\ failure' = (failure \/ failed)
    /\ UNCHANGED <<document, nextId, revision, stage, exact, captured,
                   entityBefore, tagsCaptured, tagsBefore, tagChanges,
                   replaced, revisionBefore, allocatorBefore, publication,
                   snapshot, committedIds>>

-----------------------------------------------------------------------------
(* Owner writes: the first write of a key keeps its previous value *)

CaptureEntities(keys) ==
    /\ captured' = captured \cup keys
    /\ entityBefore' = [i \in Ids |-> IF i \in keys \ captured
                                      THEN entities[i] ELSE entityBefore[i]]

CaptureTags(keys) ==
    /\ tagsCaptured' = tagsCaptured \cup keys
    /\ tagsBefore' = [i \in Ids |-> IF i \in keys \ tagsCaptured
                                      THEN tags[i] ELSE tagsBefore[i]]

EditFrame ==
    /\ stage = "open"
    /\ UNCHANGED <<settings, revision, stage, depth, failure, exact,
                   revisionBefore, allocatorBefore, publication, snapshot,
                   committedIds>>

(* add_point, add_line, ...: _allocate, which refuses an identifier in     *)
(* use, then _put_entity.                                                  *)
AddEntity(v) ==
    /\ EditFrame
    /\ nextId \in Ids
    /\ entities[nextId] = Missing
    /\ CaptureEntities({nextId})
    /\ entities' = [entities EXCEPT ![nextId] = v]
    /\ nextId' = nextId + 1
    /\ UNCHANGED <<tags, retired, descends, tagsCaptured, tagsBefore,
                   tagChanges, replaced>>

(* move_point, set_face_corners, ...: _put_entity over a live record. *)
PutEntity(i, v) ==
    /\ EditFrame
    /\ entities[i] # Missing
    /\ CaptureEntities({i})
    /\ entities' = [entities EXCEPT ![i] = v]
    /\ UNCHANGED <<tags, retired, descends, nextId, tagsCaptured, tagsBefore,
                   tagChanges, replaced>>

(* Log and remember that new takes the place of old.  The tags of old move *)
(* to the descendants that lack some of them; an untagged entity leaves    *)
(* the mapping alone.                                                      *)
Supersede(old, new) ==
    LET heirs == {i \in new : ~(tags[old] \subseteq tags[i])}
    IN  /\ retired' = retired \cup {old}
        /\ descends' = descends \cup ({old} \X new)
        /\ replaced' = replaced \cup {old}
        /\ IF tags[old] = {}
           THEN UNCHANGED <<tags, tagsCaptured, tagsBefore, tagChanges>>
           ELSE /\ CaptureTags({old} \cup heirs)
                /\ tags' = [i \in Ids |-> IF i = old THEN {}
                                          ELSE IF i \in heirs
                                               THEN tags[i] \cup tags[old]
                                               ELSE tags[i]]
                /\ tagChanges' = tagChanges \cup {old} \cup heirs

(* remove_vertex, remove_edge, remove_face: _delete_entity, then the       *)
(* deletion is recorded as a replacement by nothing.                       *)
RemoveEntity(i) ==
    /\ EditFrame
    /\ entities[i] # Missing
    /\ i \notin retired
    /\ CaptureEntities({i})
    /\ entities' = [entities EXCEPT ![i] = Missing]
    /\ Supersede(i, {})
    /\ UNCHANGED <<nextId>>

(* remove_vertex, remove_edge, remove_face with record=False: the caller   *)
(* is expected to record a replacement later in the same transaction.      *)
DiscardEntity(i) ==
    /\ EditFrame
    /\ entities[i] # Missing
    /\ CaptureEntities({i})
    /\ entities' = [entities EXCEPT ![i] = Missing]
    /\ UNCHANGED <<tags, retired, descends, nextId, tagsCaptured, tagsBefore,
                   tagChanges, replaced>>

(* Mutant of Replaceable: asks for surviving descendants, not for an       *)
(* acyclic history.                                                        *)
ReplaceableAnyhow(old, new) ==
    /\ old < nextId
    /\ entities[old] = Missing
    /\ old \notin new \cup retired
    /\ \A i \in new : entities[i] # Missing \/ i \in retired

(* What record_replacement refuses: to supersede an identifier never       *)
(* allocated, a surviving entity or one already superseded; descendants    *)
(* that are neither live nor superseded themselves; a cycle.               *)
Replaceable(old, new) ==
    /\ old < nextId
    /\ entities[old] = Missing
    /\ old \notin new \cup retired
    /\ \A i \in new : entities[i] # Missing \/ i \in retired
    /\ \A i \in new : ~Reaches(descends, i, old)

RecordReplacement(old, new) ==
    /\ EditFrame
    /\ Replaceable(old, new)
    /\ Supersede(old, new)
    /\ UNCHANGED <<entities, nextId, captured, entityBefore>>

(* On a live entity only. *)
Tag(i, l) ==
    /\ EditFrame
    /\ entities[i] # Missing
    /\ CaptureTags({i})
    /\ tags' = [tags EXCEPT ![i] = @ \cup {l}]
    /\ tagChanges' = tagChanges \cup {i}
    /\ UNCHANGED <<entities, retired, descends, nextId, captured,
                   entityBefore, replaced>>

(* untag returns early when there is nothing to remove. *)
Untag(i, l) ==
    /\ EditFrame
    /\ tags[i] # {}
    /\ CaptureTags({i})
    /\ tags' = [tags EXCEPT ![i] = @ \ {l}]
    /\ tagChanges' = tagChanges \cup {i}
    /\ UNCHANGED <<entities, retired, descends, nextId, captured,
                   entityBefore, replaced>>

(* split_edge(remap_attachments=True) and apply_intersections inside a     *)
(* caller's transaction ask for the allocators to rewind on failure.       *)
RequestExactRollback ==
    /\ stage = "open"
    /\ exact' = TRUE
    /\ UNCHANGED <<document, nextId, revision, stage, depth, failure,
                   captured, entityBefore, tagsCaptured, tagsBefore,
                   tagChanges, replaced, revisionBefore, allocatorBefore,
                   publication, snapshot, committedIds>>

(* Mutant of ReserveIds: takes the floor for the highest used identifier. *)
ReservePast(n) ==
    /\ nextId < n
    /\ nextId' = n + 1
    /\ UNCHANGED <<document, revision, stage, journal, publication, snapshot,
                   committedIds>>

(* reserve_id_state: raises a floor at any time, journal or not. *)
ReserveIds(n) ==
    /\ nextId < n
    /\ nextId' = n
    /\ UNCHANGED <<document, revision, stage, journal, publication, snapshot,
                   committedIds>>

-----------------------------------------------------------------------------
(* Rollback and commit *)

(* Mutant of Rollback: forgets the journalled mappings. *)
RollbackOfRecords ==
    /\ entities' = [i \in Ids |-> IF i \in captured
                                  THEN entityBefore[i] ELSE entities[i]]
    /\ tags' = tags
    /\ retired' = retired \ replaced
    /\ descends' = {a \in descends : a[1] \notin replaced}
    /\ nextId' = IF exact THEN allocatorBefore ELSE nextId
    /\ revision' = revisionBefore
    /\ stage' = "idle"
    /\ DropJournal

(* Mutant of Rollback: truncates the log, not the history. *)
RollbackKeepsHistory ==
    /\ entities' = [i \in Ids |-> IF i \in captured
                                  THEN entityBefore[i] ELSE entities[i]]
    /\ tags' = [i \in Ids |-> IF i \in tagsCaptured
                                THEN tagsBefore[i] ELSE tags[i]]
    /\ retired' = retired
    /\ descends' = descends
    /\ nextId' = IF exact THEN allocatorBefore ELSE nextId
    /\ revision' = revisionBefore
    /\ stage' = "idle"
    /\ DropJournal

(* _rollback_transaction: put the before-images back, keep the allocator   *)
(* unless exactness was requested, restore the revision.                   *)
Rollback ==
    /\ entities' = [i \in Ids |-> IF i \in captured
                                  THEN entityBefore[i] ELSE entities[i]]
    /\ tags' = [i \in Ids |-> IF i \in tagsCaptured
                                THEN tagsBefore[i] ELSE tags[i]]
    /\ retired' = retired \ replaced
    /\ descends' = {a \in descends : a[1] \notin replaced}
    /\ nextId' = IF exact THEN allocatorBefore ELSE nextId
    /\ revision' = revisionBefore
    /\ stage' = "idle"
    /\ DropJournal

(* Mutant of Problems: validates pure additions only. *)
ProblemsOfAdditions ==
    \E i \in captured : entityBefore[i] = Missing /\ entities[i] \in BadValues

(* _validate_incremental looks at captured keys and changed tags only; a   *)
(* tag on a superseded entity counts as dangling here.                     *)
Problems ==
    \/ \E i \in captured : entities[i] \in BadValues
    \/ \E i \in tagChanges : tags[i] # {} /\ entities[i] = Missing

(* Mutant of Committable: forgets a nested failure its caller caught. *)
CommittableAnyway == ~Problems

(* The exit test of the outermost context, without an error of its own. *)
Committable == ~failure /\ ~Problems

(* The outermost exit with an error, or after a nested edit failed, or     *)
(* with a document the validation rejects.                                 *)
ExitFailing(error) ==
    /\ stage = "open"
    /\ depth = 1
    /\ error \/ ~Committable
    /\ Rollback
    /\ UNCHANGED <<settings, publication, snapshot, committedIds>>

(* Mutant of Added: reports what the transaction created and then deleted. *)
EverAdded == {i \in captured : entityBefore[i] = Missing}

Added == {i \in captured : entityBefore[i] = Missing /\ entities[i] # Missing}
Removed == {i \in captured : entityBefore[i] # Missing /\ entities[i] = Missing}
Modified == {i \in captured : entityBefore[i] # Missing /\ entities[i] # Missing}

Changed == Added \cup Removed \cup Modified \cup tagChanges \cup replaced # {}

(* Mutant of ChangeSet: reports the revision before the commit as current. *)
ChangeSetTooEarly(after) ==
    [before |-> revisionBefore, after |-> revisionBefore, added |-> Added,
     removed |-> Removed, modified |-> Modified,
     tagChanges |-> tagChanges, replacements |-> replaced]

ChangeSet(after) ==
    [before |-> revisionBefore, after |-> after, added |-> Added,
     removed |-> Removed, modified |-> Modified,
     tagChanges |-> tagChanges, replacements |-> replaced]

(* _commit_transaction when nothing changed: no revision, no hooks. *)
ExitUnchanged ==
    /\ stage = "open"
    /\ depth = 1
    /\ Committable
    /\ ~Changed
    /\ lastChange' = ChangeSet(revision)
    /\ stage' = "idle"
    /\ DropJournal
    /\ UNCHANGED <<document, nextId, revision, pending, replicas, snapshot,
                   committedIds>>

(* _commit_transaction up to the hook loop.  The journal is detached from  *)
(* the model but _exit_transaction still holds it.                         *)
ExitCommitting ==
    /\ stage = "open"
    /\ depth = 1
    /\ Committable
    /\ Changed
    /\ revision' = revision + 1
    /\ lastChange' = ChangeSet(revision + 1)
    /\ stage' = "hooks"
    /\ pending' = 1
    /\ committedIds' = committedIds \cup Live(entities)
    /\ UNCHANGED <<document, nextId, journal, replicas, snapshot>>

-----------------------------------------------------------------------------
(* Edits that publish without a journal *)

SetDocumentSettings(s) ==
    /\ stage = "idle"
    /\ revision < MaxRevision
    /\ s # settings
    /\ settings' = s
    /\ revision' = revision + 1
    /\ lastChange' = [before |-> revision, after |-> revision + 1,
                      added |-> {}, removed |-> {}, modified |-> {},
                      tagChanges |-> {}, replacements |-> {}]
    /\ stage' = "notify"
    /\ pending' = 1
    /\ UNCHANGED <<entities, tags, retired, descends, nextId, journal,
                   replicas, snapshot, committedIds>>

(* topology_snapshot is not refused inside a transaction. *)
TopologySnapshot ==
    /\ revision \in SnapshotAt
    /\ snapshot' = [entities |-> entities, tags |-> tags, retired |-> retired,
                    descends |-> descends, ids |-> nextId]
    /\ UNCHANGED <<document, nextId, revision, stage, journal, publication,
                   committedIds>>

Descendants(arcs, i) == {a[2] : a \in {b \in arcs : b[1] = i}}

(* The entries of the restored history that are new or different; entries  *)
(* that disappear are not reported.                                        *)
Renewed(s) ==
    {i \in s.retired : i \notin retired
          \/ Descendants(s.descends, i) # Descendants(descends, i)}

(* Mutant of RestoreChangeSet: compares the records only. *)
RestoreRecordChanges(s) ==
    LET old == Live(entities)
        new == Live(s.entities)
    IN  [before |-> revision, after |-> revision + 1,
         added |-> new \ old, removed |-> old \ new,
         modified |-> {i \in old \cap new : entities[i] # s.entities[i]},
         tagChanges |-> {}, replacements |-> Renewed(s)]

(* The ChangeSet of restore_topology compares the two whole documents. *)
RestoreChangeSet(s) ==
    LET old == Live(entities)
        new == Live(s.entities)
    IN  [before |-> revision, after |-> revision + 1,
         added |-> new \ old, removed |-> old \ new,
         modified |-> {i \in old \cap new : entities[i] # s.entities[i]},
         tagChanges |-> {i \in Ids : tags[i] # s.tags[i]},
         replacements |-> Renewed(s)]

(* Mutants of RestoredIds: one rewinds the allocator to the snapshot, the  *)
(* other trusts it to be above every identifier a snapshot can hold, which *)
(* an exact rollback after the snapshot makes untrue.                      *)
RewoundIds(s) == s.ids

KeptIds(s) == nextId

(* Allocators only ever move up, also for identifiers of the snapshot. *)
RestoredIds(s) == IF nextId < s.ids THEN s.ids ELSE nextId

(* restore_topology: validate a detached candidate, then replace the       *)
(* document.                                                               *)
RestoreTopology ==
    /\ stage = "idle"
    /\ revision < MaxRevision
    /\ snapshot # NoSnapshot
    /\ ValidContent(snapshot)
    /\ <<snapshot.entities, snapshot.tags, snapshot.retired, snapshot.descends>>
         # <<entities, tags, retired, descends>>
    /\ entities' = snapshot.entities
    /\ tags' = snapshot.tags
    /\ retired' = snapshot.retired
    /\ descends' = snapshot.descends
    /\ nextId' = RestoredIds(snapshot)
    /\ revision' = revision + 1
    /\ lastChange' = RestoreChangeSet(snapshot)
    /\ stage' = "notify"
    /\ pending' = 1
    /\ committedIds' = committedIds \cup Live(snapshot.entities)
    /\ UNCHANGED <<settings, journal, replicas, snapshot>>

-----------------------------------------------------------------------------
(* Change hooks: called in order, each with the published ChangeSet *)

Notifying == stage \in {"hooks", "notify"}

(* A consumer refreshes exactly the keys the ChangeSet names. *)
Observe(h) ==
    LET c == lastChange
        touched == c.added \cup c.removed \cup c.modified
    IN  replicas' = [replicas EXCEPT ![h] =
          [entities |-> [i \in Ids |-> IF i \in touched THEN entities[i]
                                       ELSE replicas[h].entities[i]],
           tags |-> [i \in Ids |-> IF i \in c.tagChanges THEN tags[i]
                                     ELSE replicas[h].tags[i]]]]

HookReturns ==
    /\ Notifying
    /\ pending \in 1..NHooks
    /\ Observe(pending)
    /\ pending' = pending + 1
    /\ UNCHANGED <<document, nextId, revision, stage, journal, lastChange,
                   snapshot, committedIds>>

(* Mutants of HookRaises: the exception ends the loop, or escapes from it  *)
(* with _notifying_hooks still set.                                        *)
HookRaisesEndsLoop ==
    /\ "exception" \in HookFaults
    /\ Notifying
    /\ pending \in 1..NHooks
    /\ Observe(pending)
    /\ pending' = NHooks + 1
    /\ UNCHANGED <<document, nextId, revision, stage, journal, lastChange,
                   snapshot, committedIds>>

HookRaisesEscapes ==
    /\ "exception" \in HookFaults
    /\ Notifying
    /\ pending \in 1..NHooks
    /\ Observe(pending)
    /\ pending' = 0
    /\ UNCHANGED <<document, nextId, revision, stage, journal, lastChange,
                   snapshot, committedIds>>

(* `except Exception: continue`: the next hook runs all the same. *)
HookRaises ==
    /\ "exception" \in HookFaults
    /\ Notifying
    /\ pending \in 1..NHooks
    /\ Observe(pending)
    /\ pending' = pending + 1
    /\ UNCHANGED <<document, nextId, revision, stage, journal, lastChange,
                   snapshot, committedIds>>

(* KeyboardInterrupt or SystemExit is not an Exception.  Inside            *)
(* _commit_transaction it reaches `except BaseException` in                *)
(* _exit_transaction, which rolls the journal back.                        *)
HookInterruptsCommit ==
    /\ "base" \in HookFaults
    /\ stage = "hooks"
    /\ pending \in 1..NHooks
    /\ Observe(pending)
    /\ pending' = 0
    /\ Rollback
    /\ UNCHANGED <<settings, lastChange, snapshot, committedIds>>

HookInterruptsNotice ==
    /\ "base" \in HookFaults
    /\ stage = "notify"
    /\ pending \in 1..NHooks
    /\ Observe(pending)
    /\ pending' = 0
    /\ stage' = "idle"
    /\ UNCHANGED <<document, nextId, revision, journal, lastChange, snapshot,
                   committedIds>>

(* The loop is over: _notifying_hooks is cleared, the journal is dropped. *)
FinishHooks ==
    /\ Notifying
    /\ pending = NHooks + 1
    /\ pending' = 0
    /\ stage' = "idle"
    /\ DropJournal
    /\ UNCHANGED <<document, nextId, revision, lastChange, replicas, snapshot,
                   committedIds>>

HookFails ==
    /\ Notifying
    /\ HookRaises \/ HookInterruptsCommit \/ HookInterruptsNotice

HookStep == HookReturns \/ HookFails \/ FinishHooks

Edit ==
    \/ \E v \in Values : AddEntity(v)
    \/ \E i \in Ids, v \in Values : PutEntity(i, v)
    \/ \E i \in Ids : RemoveEntity(i)
    \/ \E i \in Ids : DiscardEntity(i)
    \/ \E i \in Ids, new \in SUBSET Ids : RecordReplacement(i, new)
    \/ \E i \in Ids, l \in TagValues : Tag(i, l)
    \/ \E i \in Ids, l \in TagValues : Untag(i, l)

Next ==
    \/ EnterOuter
    \/ EnterNested
    \/ \E failed \in BOOLEAN : ExitNested(failed)
    \/ Edit
    \/ RequestExactRollback
    \/ \E n \in Floors : ReserveIds(n)
    \/ \E error \in BOOLEAN : ExitFailing(error)
    \/ ExitUnchanged
    \/ ExitCommitting
    \/ \E s \in Settings : SetDocumentSettings(s)
    \/ TopologySnapshot
    \/ RestoreTopology
    \/ HookStep

Spec == Init /\ [][Next]_vars

(* Observers are called one after the other until the loop ends; user code *)
(* is under no obligation to start or finish an edit.                      *)
FairSpec == Spec /\ WF_vars(HookStep)

-----------------------------------------------------------------------------
(* Properties *)

TypeOK ==
    /\ entities \in [Ids -> Records]
    /\ tags \in [Ids -> SUBSET TagValues]
    /\ retired \subseteq Ids
    /\ descends \subseteq Ids \X Ids
    /\ settings \in Settings
    /\ nextId \in 1..(MaxId + 1)
    /\ revision \in Nat
    /\ stage \in {"idle", "open", "hooks", "notify"}
    /\ depth \in Nat
    /\ failure \in BOOLEAN
    /\ exact \in BOOLEAN
    /\ captured \subseteq Ids
    /\ entityBefore \in [Ids -> Records]
    /\ tagsCaptured \subseteq Ids
    /\ tagsBefore \in [Ids -> SUBSET TagValues]
    /\ tagChanges \subseteq Ids
    /\ replaced \subseteq Ids
    /\ revisionBefore \in Nat
    /\ allocatorBefore \in 1..(MaxId + 1)
    /\ lastChange \in Changes
    /\ pending \in 0..(NHooks + 1)
    /\ snapshot \in {NoSnapshot}
            \cup [entities : [Ids -> Records], tags : [Ids -> SUBSET TagValues],
                  retired : SUBSET Ids, descends : SUBSET (Ids \X Ids),
                  ids : 1..(MaxId + 1)]
    /\ replicas \in [1..NHooks -> [entities : [Ids -> Records],
                                   tags : [Ids -> SUBSET TagValues]]]
    /\ committedIds \subseteq Ids

(* The content a transaction works on, and the content a rollback would    *)
(* leave behind: the stores with the before-images laid over them.         *)
Draft == [entities |-> entities, tags |-> tags, retired |-> retired,
          descends |-> descends, settings |-> settings]

Before == [entities |-> [i \in Ids |-> IF i \in captured
                                      THEN entityBefore[i] ELSE entities[i]],
           tags |-> [i \in Ids |-> IF i \in tagsCaptured
                                    THEN tagsBefore[i] ELSE tags[i]],
           retired |-> retired \ replaced,
           descends |-> {a \in descends : a[1] \notin replaced},
           settings |-> settings]

(* What has been published: an open transaction does not count. *)
Published == IF stage = "open" THEN Before ELSE Draft

(* The undo journal implements the abstract document: edits are invisible  *)
(* until a commit, which replaces the whole content by a valid one under a *)
(* new revision; every failure leaves content and revision as they were.   *)
Doc == INSTANCE Document WITH
         Contents <- Contents,
         ValidContents <- {c \in Contents : Publishable(c)},
         InitialContents <- {c \in Contents : Publishable(c)},
         doc <- Published,
         draft <- IF stage = "open" THEN Draft ELSE NoDraft

DocumentSpec == Doc!Spec

(* Validating only what the journal captured keeps the whole published     *)
(* document free of rejected payloads and of live entities in its          *)
(* replacement history.                                                    *)
PublishedValid == Publishable(Published)

(* "Every public edit ... must publish a valid committed state"            *)
(* (_exit_transaction): what a transaction publishes passes the full       *)
(* validation that restore_topology would put it through.                  *)
CommitsAreValid == ValidContent(Published)

(* Following replacements always ends: neither edits spread over several   *)
(* transactions, nor rollbacks, nor restored snapshots make an entity its  *)
(* own descendant.                                                         *)
LineageAcyclic == Acyclic(descends)

(* A hook that follows the model through ChangeSets alone has the model's  *)
(* exact content whenever the model is at rest, whatever was captured,     *)
(* reverted, replaced, retagged or restored  in between.                  *)
ReplicasFollow ==
    stage = "idle" => \A h \in 1..NHooks :
        replicas[h] = [entities |-> entities, tags |-> tags]

(* Each ChangeSet starts at the revision where the previous one ended.     *)
ChangeSetsChain ==
    [][lastChange' # lastChange => lastChange'.before = lastChange.after]_vars

(* A publication classifies every key by its published state before and    *)
(* after: net-zero edits inside the transaction leave no trace.            *)
ChangeSetClassifies ==
    [][pending = 0 /\ pending' = 1 =>
         LET old == Live(Published.entities)
             new == Live(entities')
         IN  /\ lastChange'.added = new \ old
             /\ lastChange'.removed = old \ new
             /\ lastChange'.modified \subseteq old \cap new]_vars

(* Once a nested edit has failed, catching its exception does not help:    *)
(* the outer transaction publishes nothing.                                *)
FailedEditNeverCommits ==
    [][stage = "open" /\ failure =>
         Published' = Published /\ revision' = revision]_vars

(* "Retired committed IDs are never reassigned"                            *)
(* (docs/REFERENCE_AND_IDENTITY_MODEL.md): the allocator stays above every *)
(* identifier that was ever published, through rollback, exact rollback    *)
(* and undo.                                                               *)
CommittedIdsNeverReused == \A i \in committedIds : i < nextId

(* "Hook exceptions cannot roll back a published commit"                   *)
(* (docs/TRANSACTIONS_AND_CHANGESETS.md).                                  *)
HooksCannotRollBack ==
    [][stage = "hooks" => document' = document /\ revision' = revision]_vars

(* Whatever a hook raises, the model stops notifying and accepts edits     *)
(* again: _notifying_hooks never stays set.                                *)
EditingResumes == Notifying ~> stage = "idle"

-----------------------------------------------------------------------------
(* The inductive invariants behind the theorems of TransactionsProofs *)

(* Nothing is left of a journal once its transaction has ended. *)
JournalConsistent ==
    /\ stage \in {"idle", "notify"} =>
         captured = {} /\ tagsCaptured = {} /\ replaced = {}
    /\ tagsCaptured \subseteq tagChanges
    /\ stage = "open" => revisionBefore = revision

(* A draft can hold rejected payloads and dangling tags, but no live       *)
(* entity in the history, and the allocator is above all of them.          *)
DraftConsistent ==
    /\ \A i \in Ids : entities[i] # Missing => i < nextId
    /\ \A i \in retired : entities[i] = Missing /\ i < nextId
    /\ \A a \in descends : a[1] \in retired

(* The content a rollback would restore is valid, and so is the allocator  *)
(* state that an exact rollback would restore with it.                     *)
RollbackConsistent ==
    /\ Publishable(Before)
    /\ stage \in {"open", "hooks"} =>
         /\ allocatorBefore <= nextId
         /\ \A i \in Ids : Before.entities[i] # Missing \/ i \in Before.retired
                            => i < allocatorBefore

SnapshotConsistent ==
    snapshot # NoSnapshot =>
        /\ \A i \in Ids : snapshot.entities[i] # Missing
                           \/ i \in snapshot.retired => i < snapshot.ids
        /\ \A a \in snapshot.descends : a[1] \in snapshot.retired

(* Whatever mixture of edits, nested failures, rollbacks, commits, hooks   *)
(* and restored snapshots came before: the draft and the content a         *)
(* rollback would restore are each consistent with the replacement history *)
(* and the allocators.                                                     *)
Consistent ==
    /\ JournalConsistent
    /\ DraftConsistent
    /\ RollbackConsistent
    /\ SnapshotConsistent
    /\ PublishedValid

(* The allocator is above every identifier ever published, and would be    *)
(* after an exact rollback of the open transaction.                        *)
IdentifiersConsistent ==
    /\ \A i \in Ids : Published.entities[i] # Missing => i \in committedIds
    /\ \A i \in committedIds :
         i < nextId /\ (stage = "open" => i < allocatorBefore)

=============================================================================
