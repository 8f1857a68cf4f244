# TLA+ models of ANYgeometry

ANYgeometry is a Python geometry kernel: a `GeometryModel` owns vertices,
edges and faces with stable identifiers, a structural layer over them (parts,
sheets, members, attachments, junctions), a replayable feature history, and
the geometric algorithms that edit and query it.  The geometry itself is
numeric; what this project models is the machinery around it: the undo journal,
commit and rollback, identifiers and replacement lineage, change hooks, what the
model derives from its points and keeps between calls, the tree behind spatial
queries, the replay of the feature history, and the processes that plan
intersections in parallel.

Paths below are relative to the repository root; `model.py` is
`src/anygeometry/model.py`.

## 1. Inventory

| Component | State | Operations | Hard part |
|---|---|---|---|
| Mutation authority (`model.py`, `transactions.py`) | entity stores, groups, tags, `_revision`, allocators, `_TransactionJournal`, `_last_change_set`, `_notifying_hooks` | `transaction()`, every `@_transactional` edit, `set_document_settings`, `topology_snapshot`, `restore_topology`, `add_change_hook` | nesting without savepoints, first-write capture, incremental validation, rollback, hooks that raise |
| Identity and lineage (`model.py`, `identity.py`) | `_next_id`, `_replacement_history`, `_replacements` | `_allocate`, `record_replacement`, `record_replacements_atomic`, `resolve_ref`, `resolve_handle`, `reserve_id_state` | identifiers across rollback and undo; cycles; tags and groups that follow a replacement |
| Derived state (`model.py`) | `_spatial_index`, `_edge_length_cache`, `_arc_cache`, `_trim_loops_cache`, `bounds_before`, `spatial_updates` | `spatial_candidates`, `edge_length`, `face_trim_loops_uv`, `move_point`, `transform` | a moved point changes edges and faces whose records are not written |
| AABB tree (`spatial.py`) | nodes with fat boxes | insert, remove, update, query, nearest | balance, padding and cached boxes over long sequences |
| Incidence (`model.py`) | `_vertex_edges`, `_edge_faces`, ... | `_attach_entity`, `_detach_entity` | exact inverse of the stores at every step |
| Feature history (`features.py`) | records, baseline, dirty prefix | add, edit, remove, regenerate | replay on a copy, failure in the middle, publication under the owner's revision |
| Structural layer (`structural.py`, `model.py`) | parts, sheets, face uses, coedges, members, attachments | create, reown, delete | ownership that follows replaced faces |
| Editing (`editing.py`, `operations.py`, `overlaps.py`) | none of its own | compound edits | several owner writes, one transaction |
| Automation (`automation/`) | ledger of applied plans | plan, preflight, apply | plans that meet another document under the same revision, failure half-way |
| Planner sessions (`_planning_session.py`, `_planning_host.py`, `_planning_executor.py`, `_planning_child.py`, `_planning_process.py`) | stages, deadlines, write-once files, process trees | submit, wait, dispatch, admit, finish, close | child death, clocks in any order, cancellation, failed termination |
| Preparation epochs (`preparation_epochs.py`, `cancellation.py`, `_material_validation_cache.py`) | weak maps of permits, drafts, scopes | issue, consume, finish, discard | order of calls by different callers |
| Intersections, arrangements, certificates, NURBS, hydrostatics | immutable inputs and results | pure computations | numeric: not for a model checker |
| Serialization, generators, strict audit, native code, tools | none of the document's | read or build through the public edits | - |

How they meet: every edit, whoever makes it, goes through the owner writes of
`model.py` inside one journal; readers and caches look at the same stores,
also while an edit is provisional; consumers are told of a commit once, by a
`ChangeSet` passed to hooks that may not edit; undo and feature replay work on
snapshots and publish with `restore_topology`.

What makes them correct, in a sentence each:

- *Mutation authority*: readers see one valid document that is replaced as a
  whole; a failure leaves no trace; an observer of ChangeSets misses nothing.
- *Identity*: a published identifier never names another entity; following
  replacements ends, at entities that are live or deleted for good.
- *Derived state*: a query or a cache never answers from another geometry than
  the current one.
- *AABB tree*: a query answers from the current bounds whatever the history of
  the tree; its answers do not depend on its shape.
- *Feature history*: what is replayed equals what a full regeneration builds.
- *Automation*: a plan meets the document it was made for and does what its
  preview showed, or nothing.
- *Sessions*: values come from a session that came to its end, no process
  outlives the answer, and there always is an answer.

## 2. Modules

| Module | Models |
|---|---|
| `Document` | what a document promises its readers: `Begin`, `Edit`, `Abort`, `Commit`, `Replace` |
| `Transactions` | the journal, hooks, snapshots, lineage and allocator; refines `Document` |
| `MCTransactions` | instances of `Transactions` for TLC |
| `DerivedState` | spatial tree, edge-length and trim caches, changed-region bookkeeping |
| `MCDerivedState` | instances of `DerivedState` for TLC |
| `TransactionsProofs` | type correctness, the inductive invariants, published validity, identifiers, lineage |
| `RefinementProofs` | `Transactions` implements `Document`; a nested failure is final; what a consumer of ChangeSets may rely on |
| `DerivedProofs` | queries and caches are never stale, changed regions are reported |
| `Materialization` | points, lines and lineage as a value that regeneration works on |
| `FeatureHistory` | the records, their edits, incremental and full regeneration |
| `MCFeatureHistory` | instances of `FeatureHistory` for TLC |
| `FeatureProofs` | what regeneration does to geometry, identifiers, outputs and references |
| `PlanApply` | `plan_commands` and `apply_plan` on the journal of `Transactions` |
| `MCPlanApply` | instances of `PlanApply` for TLC |
| `PlanApplyProofs` | plan, preview and application agree |
| `NaturalRecursion` | induction and recursion over `0..N`, for the proofs about batches and replays |
| `PlannerSession` | host, planner and workers of one parallel planning attempt |
| `PlannerProofs` | the safety of `PlannerSession` |
| `SpatialTree` | the AABB tree with rotations, padding, queries and nearest |
| `MCSpatialTree` | instances of `SpatialTree` for TLC |
| `SpatialProofs` | the tree stays sound and tight, and its searches are exact |

`Transactions` refines `Document`.  `PlanApply` extends `Transactions`: its
applications are made of the same actions as the caller's edits, and run between
them.  `FeatureHistory` is built on the values of
`Materialization`.  `DerivedState` uses the index as a map from key to bounds;
`SpatialTree` shows that the tree answers like that map (`QueriesExact` in both).

### Transactions

Entities of every kind share one key space `Ids`, and a record is one opaque
value; `BadValues` are the records the commit validation rejects.  Variables
keep the code's names where there is one (`entityBefore`, `nextId`, `exact`,
`lastChange`); the four places a model can be in are `stage`: `"idle"`,
`"open"` (a journal exists), `"hooks"` (inside `_commit_transaction`'s loop,
with the journal still in the hands of `_exit_transaction`) and `"notify"`
(the same loop after an edit without a journal).

- Contexts: `EnterOuter`, `EnterNested`, `ExitNested(failed)`.  A nested
  context that fails sets `failure`; its caller may catch the exception and
  carry on, which is why edits stay enabled.
- Edits: `AddEntity` (allocate and put), `PutEntity`, `RemoveEntity` (delete
  and record), `DiscardEntity` (`record=False`), `RecordReplacement` with the
  refusals of `_record_replacement` and the tags that move to the descendants,
  `Tag`, `Untag`.  Each captures what it writes first.
- `RequestExactRollback` and `ReserveIds` for the allocator.
- `ExitFailing` rolls back; `ExitUnchanged` and `ExitCommitting` are the two
  halves of `_commit_transaction`.
- `SetDocumentSettings`, `TopologySnapshot`, `RestoreTopology`: the snapshot may
  be taken at any moment, the others only when nothing is open.
- Hooks: `HookReturns`, `HookRaises` (an `Exception`, swallowed),
  `HookInterruptsCommit` and `HookInterruptsNotice` (a `KeyboardInterrupt` or
  `SystemExit`, which the loop does not catch), `FinishHooks`.

`replicas` and `committedIds` are history variables: what each hook
would know by applying ChangeSets alone, and which identifiers have been
published.  A hook that raises is taken to have read its ChangeSet
first: the model is about the loop, not about faults of the consumer.

`Published` is the content the document promises to everybody but the editor:
the stores with the before-images laid over them.  `DocumentSpec` is
`Document!Spec` under the mapping `doc <- Published`, `draft <-` the stores.

### DerivedState

Vertices have positions, edges hang off vertices, faces off edges; the bounds of
a key are the positions of its vertices, so two bounds are equal exactly when
nothing under the key moved.  `MovePoint` and `Transform` follow the order of
the code: which bounds are recorded before the points move and which afterwards.
`BuildTree`, `EdgeLength` and `FaceTrimLoops` are reads that leave something behind and
can happen at any stage the code allows, the open transaction included.  The
undo of records is reduced to one value (`published`), since it is the subject
of `Transactions`, and so is nesting.

There are three ways out of a transaction that changed something: `ExitFailing`;
`ExitCommitting` and then `FinishHooks`; and `ExitCommitting` and then
`InterruptHooks`, a `BaseException` that leaves the hook loop and makes
`_exit_transaction` roll the commit back (lines 828-830).  By then the commit has
edited the spatial tree in place, raised the revision and shown both to hooks.
`Rollback` restores the *pointer* to the tree, and that is the same object, so a
tree older than the transaction keeps the undone bounds; the revision returns
to the one before, and an entry of the trim cache read in a hook waits for its
revision to come round again.  `stray` and `late` are history variables, read by
no guard: the keys whose bounds such a tree has wrong, until a later commit reconciles
them or the tree is dropped, and the faces with an entry of an undone revision.

### PlanApply

A plan is the revision it was made at and a batch of commands: create, change
or delete an entity.  `PlanCommands` previews the batch on a clone (`Preview`), at
rest, inside an open transaction or inside a hook, for all three are possible.
The clone after each command is a recursive function (`Runs`) over the batch, and
`Executed` its last value; preview and preflight are the same function.
`BeginApply` makes the checks of `apply_plan`, runs the preflight and enters the
transaction, a nested one when the caller has one open; `ApplyCommand` performs one
command through the owner writes of `Transactions`; `EndBatch` leaves the
transaction; hooks run; `ConcludeApply` compares the last ChangeSet with the
revisions and marks the plan.  What a hook raises past `except Exception` rolls the
commit back and ends the application (`Notify`).  The preview and the state at the
start of an application are kept as history for the properties.

### Materialization and FeatureHistory

A feature record is one of three kinds, one for each way a kind is scheduled: a
`point` adds without inputs, a `line` adds from two inputs, a `transform`
changes its input in place and returns it.  That mutation in place is what makes
incremental replay hard: what an earlier feature made is no longer what it would
make again.

- Edits (`AppendFeature`, `Remove`, `SetSuppressed`, `Rename`,
  `UpdateParameters`, `UpdateInputs`, `Move`) go through `ApplyMutation`, which
  accepts valid histories only, and set the states and marks the code sets.
- `Regenerate` is one call: it finds the earliest dirty record, walks back
  (`IncrementalStart`) to the producers of what materialised transforms modify,
  and replays from there on the live geometry (`RegenerateIncremental`) or, when
  a record is marked or the walk reaches the start, from the baseline
  (`RegenerateFully`).  The two loops, the comparison with the old outputs
  (`KeepsBinding`), the roles that bind old entities to new ones, the shared
  conflict, what is retired and what discarded, and the batch of lineage follow
  the order of the code, with its refusals.
- `Materialization` holds what these work on: a geometry with its lineage and
  counter as one value, because regeneration edits clones.

`suspects` is a history variable.  Two paths lead the code away from what the
definitions alone would make:

- `"mark"`: a removal marks a remaining record, and a later edit of that record
  clears the mark (or no record remains).  The run `replay_claim` shows it.
- `"prefix"`: a suffix is replayed on live geometry that a modifier of the suffix
  has already moved in place.  The walk back reaches the producer of what a
  modifier modifies, but a transform moves the whole closure: with points P1 and P2, a line
  between them and a transform of the line, an edit of the line replays line and
  transform on points that are already moved, and they are moved once more,
  each time.  If P2 is suppressed instead, line and transform are blocked and P1
  stays where the transform had put it.  The walk also skips a modifier that is
  not materialised (lines 1881-1886) and with it the producer behind it.
  The run `prefix_claim` shows it.

`IntendedUnlessSuspect` shows that there is no third.  The second takes four
features to appear in its ordinary form, and does not depend on any removal.

What the model shows of the code besides:

- removing the only feature leaves no record to mark: its geometry stays for
  good, in the baseline too if that is captured later;
- a feature updated and regenerated has lineage from its old output; if it is
  then removed, the full replay no longer makes the descendant,
  `record_replacements_atomic` refuses the batch, and every later regeneration
  fails with "cannot preserve feature lineage" (line 2504);
- without a captured baseline, a full replay after the first materialisation
  takes the live geometry for its baseline, and from then on refuses with
  "surviving entity";
- pointing a materialised line at other points is always refused;
- suppressing a materialised transform whose input stays is refused ("shared").

The last four refuse and change nothing; `RefusalsExplained` says that nothing
else is refused.

### PlannerSession

The host (`_qualified_plan`, `_SessionBridge`, `OwnedSession`), one planner process
and `NumWorkers` workers are three state machines that see each other through
files written once and through whether a process is alive.  A file is a counter
(`commands`, `replies`, `wcommands`, `admitted`, `wreplies`) or a final status
(`presult`, `wresult`); a stage's packet content is not modelled, only that its
check may fail.

- Host: `BeginSession` is the check of clock and caller before the first stage,
  `StartPlanner` the construction of `OwnedPlanner` with the time that is left *by
  then*; if none is, the constructor refuses its argument (`NoTimeToStart`), which
  counts as a refusal and not as a deadline.  Then `SubmitStage` and `ReadReply` per
  stage, `Finish`, `JoinPlanner`, and
  `Close` retires the process tree whatever the verdict, and only then `Accept`,
  `DeclineStands` and `Replayed` decide.
- Planner: `SpawnWorker`, `TakeCommand`, `Dispatch`/`Admit` in batches of
  `StartupConcurrency`, `Collect`, `JoinWorker`; whatever happens it goes through
  `Retire` and `Report`.
- Worker: `TakeWork`, `StartGate`, `RunTasks`.
- Faults: a refused packet, a failed check, a process killed from outside at
  any moment, a termination that fails (`CloseFails`, `RetireFails`).  `MaxFaults`
  bounds their number.
- Clocks: each process has its own, started at an unknown moment, so any may
  run out before any other (`Expire`, `ExpireWorker`); `Revoke` is the caller's
  cancellation or overall deadline, at any moment.

### SpatialTree

The tree is a value: a root and nodes with parent, left and right child, height,
padded box and least key, the caches the code keeps.  `InsertLeaf`, `DetachLeaf`,
`RefitFrom` and `Rotate` are the code's, in its order; `Query` and `Nearest` are its
searches.  The code's loops are recursive functions over the number of rounds,
with a round that does nothing once the loop is over: `RefitFrom` has one more than
the height of the tree, `Nearest` one for each node; that these are enough is part
of what is proved.
Boxes have one axis, because every box operation acts on each axis alike, and
the leaf to insert beside is any leaf: the code descends by a cost, so what
holds here holds for any cost.  Initially the tree is built (`BuildBalanced`) over any
content; the code sorts every part by its widest axis before it splits it, and the
model lets the leaves end up in any order.  The search of `nearest` is given exact
distances that may exceed the bound by a detour (`Detours`), as those of a curved
entity do.

## 3. Runs

| Run | Configuration | Question | Result |
|---|---|---|---|
| `core` | 2 identifiers, 2 accepted records and a rejected one, 1 tag, 2 settings, nesting 2, 2 hooks | is the journal an atomic document with faithful ChangeSets? | holds (795 thousand states) |
| `undo` | a snapshot taken at revision 1, restored up to revision 3, 1 tag, 1 hook | do identifiers, lineage and observers survive undo? | holds (2.3 million) |
| `plans` | 2 batches, one plan, 2 identifiers, 2 settings, nesting 2, 2 revisions, one hook that may raise anything, fair hooks | do plan and application agree, whatever the caller does in between, and does editing go on after an interrupted hook? | holds (1.2 million) |
| `derived` | 2 vertices, an edge, a face, 2 positions, 3 revisions, hooks that may be interrupted | are spatial queries and caches exact, but for what an interrupted commit leaves? | holds (1.2 million) |
| `features` | 2 positions, 1 matrix, up to 4 features, 5 edits, fewer than 6 identifiers at the start of a regeneration | is incremental regeneration equal to a replay from nothing, and are references kept? | holds (1.2 million) |
| `session` | 2 workers started one at a time, 1 fault, all clocks and a cancellation | does the attempt end, alone, and with whole results only? | holds (883 thousand) |
| `spatial` | 4 keys, 4 boxes, 4 regions, 2 points, detours 0 and 1, padding 1 | does the tree stay sound and answer like the map it stands for? | holds (39 thousand) |
| `hook_claim` | a hook raising a `BaseException` | "Hook exceptions cannot roll back a published commit" | violated |
| `validity_claim` | removal without a record | "Every public edit ... must publish a valid committed state" | violated |
| `face_boxes` | move of a point under a four-cornered face | the old region of a face is not lost | violated |
| `replay_claim` | the instance of `features` with 3 features | "feature-history structure changed; full replay required" | violated |
| `prefix_claim` | the same instance as `features` | "Atomically replay the history from its base materialization" | violated |

What the properties say:

- `PublishedValid`: validating what the journal captured is enough to keep the
  whole document free of rejected records and of live entities in the history.
- `ReplicasFollow`: a hook that knows only the ChangeSets has the exact content
  whenever the model is at rest.
- `ChangeSetClassifies`, `ChangeSetsChain`: keys are classified by the published
  contents before and after, and each ChangeSet starts where the last ended.
- `FailedEditNeverCommits`: a caught nested failure still dooms the transaction.
- `CommittedIdsNeverReused`, `LineageAcyclic`: as their names say, across
  rollbacks, exact rollbacks and restored snapshots.
- `EditingResumes`: the notification always ends.
- `RevisionNamesContent`: a plan made at rest finds its own document again at
  its revision, though rollbacks and interrupted hooks bring revisions back.
- `PreviewIsPublished`, `RefusalsLeaveNoTrace`: an application begun at rest
  publishes what the preview of a plan made at rest showed, in one revision, or
  leaves document, revision and allocator alone.
- `QueriesExact`, `LengthsFresh`, `TrimsFresh`: an index or cache entry that
  would be used describes the geometry as it is now, including inside a
  transaction, after a rollback and after a net-zero commit.  After an interrupted
  commit the tree and the trims keep this promise for every key but the `stray` and
  every face but the `late` ones; the lengths keep it without exception, because
  every edge that moved was captured.
- `ChangedRegionReported`: the ChangeSet names every entity whose bounds differ
  between the two published documents, written or not.
- `OutputsAreIntended`: after a successful regeneration, states and outputs are
  those of a replay from nothing, up to identifiers.  `IntendedUnlessSuspect`
  claims it off the two known paths.
- `NoOrphans`: the published geometry is what the outputs stand on, no more.
- `RefusalsExplained`: which histories regeneration can refuse at all.
- `NoIdReuse`, `OnlyChangedOutputsMove`, `OldOutputsLead`: an identifier never
  comes back for another entity, changes only when the output does, and leads
  to the new output when it was replaced.  An entity that appears has a new
  identifier, with one exception, which came up in the proof: a full replay
  starts from the baseline, so an entity of the baseline that was retired since
  comes back under the identifier it has there.
- `RetiredBeforeOutcome`, `AcceptedIsComplete`, `Lockstep`, `StartupBounded`,
  `ReplayNeedsFault`, `CancellationWins`: no process lives when the host goes on;
  parallel values are those of a complete session; nobody runs ahead or answers
  twice; no more workers start at once than admitted; clocks alone cause a
  serial replay only before the planner is started; a cancellation before
  retirement wins.
- `HostDecides`, `EverythingEnds`: there is an answer though planner and workers
  hang, and no process stays though termination fails.
- `TreeSound`, `LeavesStayTight`, `QueriesExact`, `NearestExact`: what `validate`
  asserts, after every mutation; bounded padding; both searches equal to their
  definition over the plain map.

The five violated runs are disagreements between the code and its own words;
`PROJECT.json` quotes them.  In short: a `BaseException` in a hook undoes a commit that earlier
hooks have seen, leaving `last_change_set` behind; `_validate_incremental` never
looks at the replacement history, so a removal with `record=False` can commit a
document that `restore_topology` refuses; `_capture_entity` overwrites the
old bounds `move_point` had recorded for a face; an edit of the record a
removal has marked takes away the mark, so that geometry keeps the effect of a
feature that is gone; and a transform of a line moves the points of the line
again with every edit of the line.

Others have no run; properties are stated so that they stop exactly where the
code does.

- *Queries after an interrupted commit* (`QueriesExact`, the keys in `stray`).  The
  comment at `model.py` 1383-1386 says "The maintained tree is not edited before
  commit; restoring its original pointer also discards a tree that may have been
  lazily materialized", and `docs/TRANSACTIONS_AND_CHANGESETS.md` 17-18 "Rollback
  invalidates any provisional cache or spatial state that could have been observed
  inside the transaction".  With a tree built before it, a transaction moves a
  point and commits (1532-1550 edit the tree), a hook raises a
  `KeyboardInterrupt`, and the rollback keeps the edited tree: queries search the
  undone bounds, at rest and for good.  Without the exception TLC finds this in
  five steps.
- *Trims after an interrupted commit* (`TrimsFresh`, the faces in `late`).  The comment
  at 7857-7859 says "A committed revision identifies the whole document state".  A
  hook reads trims at revision r+1, is interrupted, and the model goes on at r; the
  next commit is r+1 again, and the entry is served although points have moved,
  since moving a point does not always write the `Face`.
- *A deadline that is not terminal* (`ReplayNeedsFault`, the second disjunct).
  `PlannerDeadline` is documented as "Consumed owned deadline is terminal, not a
  fresh serial budget" (`_planning_executor.py` 26).  If the time runs out between
  `check_boundary` (`_planning_host.py` 229) and the computation of the planner's
  timeout (241), `OwnedPlanner` raises `QualificationDecline` (264-265) and
  `_qualified_plan` replays serially, asking the caller only.
- *Identifiers*.  `README.md` line 130 of the code says that IDs "are never
  reused, including after rollback", but an exact rollback gives identifiers back
  that `_allocate` has returned and nobody has published; `CommittedIdsNeverReused`
  speaks of the published ones.
- *Plans inside a transaction*. This was met while modelling `apply_plan`, and
  the properties speak of applications begun at rest. Inside a caller's open
  transaction no ChangeSet is published, and `last_change_set` is an older one.
  Mostly that ends in `INTERNAL_ERROR`, with the batch already in the caller's
  draft, to be committed if the caller catches the error. Where the older
  ChangeSet is an empty one of the same revision (a new model, or a transaction
  that changed nothing), the comparison passes: the digest enters the ledger,
  `ApplyResult` then refuses a revision that has not advanced, and if the caller
  rolls back, the plan counts as applied although nothing of it was published.

### Bounds, and why they are enough

- `MaxId = 2`: a replacement needs an old and a new entity; a cycle, a
  propagated tag and an unresolved descendant need two.  The theorems cover any
  number.
- `MaxDepth = 2`: a nested context that fails inside one that goes on; deeper
  nesting only counts.
- `MaxRevision`: no edit *starts* at the bound.  3 allows an edit, one that
  builds on it, and one that undoes or contradicts them.
- `SnapshotAt`, `Floors`: the revisions at which a snapshot is taken and what
  `reserve_id_state` raises the allocator to; both only thin out when something
  that is always possible is tried.
- `NHooks = 2`: one hook before and one after the hook that raises.  The undo run
  uses one because hooks are its observer, not its subject.
- `derived`: one edge with both end points and one face on it.  Moving either
  point disturbs the edge and the face without writing them, which is the
  hazard; two positions make moves that cancel out.  Three revisions let an
  interrupted commit be followed by others, of which one has its revision number.
- Accepted records, settings and positions are only compared with one another, so they are
  symmetric.  The run with a liveness property uses no symmetry.

- `plans`: one batch whose second command may meet a missing entity, and one
  that only changes; the one plan can be made at any moment and tried at any
  later one.  Settings are only compared, so behaviours start from one of the
  two (`OneStart`).
- `features`: four features are the least that make a transform of a line, and
  leave a point of that line before the replayed suffix; three make every pair of
  consumer and producer and a chain of two transforms.  Five edits with
  regenerations between any two make append, regenerate, change and change
  again.  Two positions are enough to be
  equal or not; `MaxId` allows two materialisations after the first.  Positions
  are symmetric.  Three features with six edits, and all valid histories of five
  features with one edit more, hold too.
- `session`: two workers with `StartupConcurrency = 1` have two batches, the
  interesting case; one fault at any point of a session with both stages.  The
  theorems cover any number of each.
- `spatial`: four keys are the least that tilt a tree by two levels; the boxes
  are two neighbours whose padding overlaps, a far one, and one over all, so that
  updates are absorbed, forced out by growth, and forced out by shrinking.  Not every
  case of a rotation occurs with four keys, and `RelativeMargin` is 0; the
  theorems cover any number of keys, any boxes and any padding, and with them
  every rotation.

Deadlock is not checked in the runs of `Transactions`, `PlanApply`, `DerivedState`
and `FeatureHistory`: at its bound the model stops, as a program that makes no more
edits may.  It is checked for `PlannerSession`, which may stop only when the caller
has its answer (`Over`), and for `SpatialTree`.

### Fairness

`FairSpec` and `PlanSpec` ask for weak fairness of the hook loop only (`HookStep`,
`Notify`).  Hooks are called one
after the other in the thread that commits, so between two hooks nothing but
the loop itself can run next; it is assumed that a hook returns or raises.
Users are not obliged to edit, to finish a transaction or to take snapshots.

`PlannerSession` asks for weak fairness of the host's own steps and of its clock:
the host polls in a loop, and monotonic time passes.  Planner and workers owe
nothing, so `HostDecides` includes children that hang.  `EverythingEnds` is about
processes the host could not terminate; there fairness of any step at all is
stated in the property.

## 4. Proofs

The theorems hold for every value of the constants that satisfies the
assumptions of the modules, which TLC evaluates in the runs:

- `TransactionsAssumption`, `SentinelAssumption`: numbers are numbers, rejected
  records are records, there is a setting, `Missing` is no record and `NoDraft`
  no content.
- `DerivedStateAssumption`: keys of different kinds differ, every edge has a set
  of end points and every face a set of edges.  Any mesh will do.
- `BatchesAssumption`, `PlanSentinelAssumption`: a batch is a non-empty sequence
  of commands (`automation/types.py` refuses an empty one).
- `FeatureHistoryAssumption`: positions, moves and "no parameter" are told apart.
- `SpatialAssumption`: there is a key, boxes, regions and points are made of
  integers, and margins and detours are not negative.
- `ConstantsAssumption`: at least one worker, and a startup concurrency between
  one and the number of workers.

Some theorems assume besides that no hook raises a `BaseException` (`"base" \notin
HookFaults`): with one, a commit is undone after hooks have seen it, and the run
`hook_claim` shows the consequence.

| Theorem | States | Assumes |
|---|---|---|
| `TypeCorrect` | `Spec => []TypeOK` | - |
| `AlwaysConsistent` | `Spec => []Consistent` | - |
| `PublishedAlwaysValid` | `Spec => []PublishedValid` | - |
| `CommittedIdentifiersNeverReused` | `Spec => []CommittedIdsNeverReused` | no BaseException |
| `LineageStaysAcyclic` | `Spec => []LineageAcyclic` | - |
| `JournalImplementsDocument` | `Spec => DocumentSpec` | no BaseException |
| `FailureIsFinal` | `Spec => FailedEditNeverCommits` | - |
| `ReplicasAlwaysFollow` | `Spec => []ReplicasFollow` | no BaseException |
| `ChangeSetsAlwaysChain` | `Spec => ChangeSetsChain` | no BaseException |
| `ChangeSetsClassify` | `Spec => ChangeSetClassifies` | - |
| `ExceptionsCannotRollBack` | `Spec => HooksCannotRollBack` | no BaseException |
| `PlansRunOnTheModel` | `PlanSpec => Spec` | - |
| `PlansAlwaysSound` | `PlanSpec => [](TypeOK /\ Consistent /\ PlanIInv)` | - |
| `RevisionAlwaysNamesContent` | `PlanSpec => []RevisionNamesContent` | - |
| `PreviewAlwaysPublished` | `PlanSpec => PreviewIsPublished` | - |
| `RefusalsNeverLeaveTraces` | `PlanSpec => RefusalsLeaveNoTrace` | - |
| `QueriesNeverStale` | `Spec => []QueriesExact` | - (stray keys excepted) |
| `LengthsNeverStale` | `Spec => []LengthsFresh` | - |
| `TrimsNeverStale` | `Spec => []TrimsFresh` | - (late entries excepted) |
| `ChangedRegionsAlwaysReported` | `Spec => ChangedRegionReported` | - |
| `HistoryAlwaysSound` | `Spec => []TypeOK` | - |
| `NothingOutlivesItsFeature` | `Spec => []NoOrphans` | - |
| `IdentifiersNeverReused` | `Spec => NoIdReuse` | - |
| `UnchangedOutputsStay` | `Spec => OnlyChangedOutputsMove` | - |
| `OldReferencesLeadOn` | `Spec => OldOutputsLead` | - |
| `RefusalsAlwaysExplained` | `Spec => []RefusalsExplained` | - |
| `AdditiveHistoriesReplayExactly` | `Spec /\ []~Modified => []OutputsAreIntended` | no transform in the records |
| `ProcessesRetired` | `Spec => []RetiredBeforeOutcome` | - |
| `ParallelAnswersComplete` | `Spec => []AcceptedIsComplete` | - |
| `SessionInLockstep` | `Spec => []Lockstep` | - |
| `ClocksNeverReplay` | `Spec => []ReplayNeedsFault` | - (before the planner's start excepted) |
| `CancellationAlwaysWins` | `Spec => []CancellationWins` | - |
| `StartupAlwaysBounded` | `Spec => []StartupBounded` | - |
| `TreeAlwaysSound` | `Spec => []TreeSound` | - |
| `LeavesAlwaysTight` | `Spec => []LeavesStayTight` | - |
| `QueriesAlwaysExact` | `Spec => []QueriesExact` | - |
| `NearestAlwaysExact` | `Spec => []NearestExact` | - |

### The journal

`PublishedValid` is not inductive: a commit publishes the *draft*, and the code
validates only what was captured.  `Consistent` adds what makes that enough.
`DraftConsistent`: a draft may hold rejected records, but no live entity is in
the history and the allocator is above everything.  `RollbackConsistent`: the
content a rollback would restore (`Before`) is publishable and below the
allocator state an exact rollback would restore with it.  `JournalConsistent`:
nothing of a journal survives its transaction, and every captured tag is among
the changed ones.  `SnapshotConsistent` the same for a snapshot, which may hold
a draft.  `EditEffect` shows that no edit changes `Before`;
`IncrementalValidation` that a key outside the journal has its `Before` value,
so that a draft without problems is publishable; `RollbackEffect` that a
rollback leaves exactly `Before`.

The refinement then reads: edits leave `Published` alone and change the draft; a
rollback drops the draft; a commit publishes it, valid by
`IncrementalValidation`; settings edits and restored snapshots are `Replace`;
hooks stutter.  With a BaseException a commit is undone after publication, which
`Document` has no step for.

`LineageAcyclic` is inductive with `TypeOK` alone.  The argument is
`AcyclicExtended`: arcs from `old` to entities that do not reach `old` close no
cycle; rollbacks take arcs away (`AcyclicSubset`), and a restored snapshot has
passed the same test on the whole history.

`ReplicasFollow` speaks of the model at rest, and says nothing of the hook loop
that gets there.  `ReplicaInv` does: while hook `pending` is next, the hooks before
it have the new content, and the others are *one ChangeSet behind* (`CatchesUp`):
they agree with the document wherever the ChangeSet names nothing.  A
publication begins with every hook behind, which is where
`IncrementalValidation` is needed again: what the ChangeSet does not name has its
old value.

### Plans

`PlansRunOnTheModel` is shown first: an application makes no step the model does
not have, so the invariants above hold while plans are made and applied.

`RevisionNamesContent` is about a model at rest, but a plan must survive what
happens in between: a transaction that changed the document and is rolled back,
a commit undone by a hook's BaseException.  `PlanInv` therefore speaks of what is
left when the journal, if there is one, is rolled back (`Held`,
`HeldRevision`): the plan's revision is not above it, and if they are equal, the
contents are.  It needs the allocator too, for the same plan run at the same
document later may hand out other identifiers.

`AppInv` follows an application: after `k` commands the live draft is what the
preflight had after `k` (`OwnRun[k]`), and that is what the preview had
(`PlannedRun[k]`), up to the identifiers of entities made since (`Alike`).  Both
runs are functions defined recursively over the batch; that they obey their
equations is `SegmentRecursion`, and that they stay alike is an induction over the
commands (`SegmentInduction`), both from `NaturalRecursion`.

### Derived state

Everything follows from one comparison, between the document as it is (`Current`)
and the document a rollback returns to (`published`), which may happen until the
last hook has run.  `JournalInv`: a key the
journal does not name has the same region in both.  Each cache is right about
one of them or both: a tree about the current region of every key not named and
not stray,
and until the commit one that is older than the journal about the published region of
all that are not stray (`TreeInv`); lengths about the current one, and what a rollback would put back
about the published one (`LengthInv`); a trim entry of this revision about the document that
has this revision (`Resting`: published while a transaction is open, current
otherwise), and while hooks run one of the revision before about the published one
(`TrimInv`).  The last is what an interrupted commit makes current again; the entries
it leaves of a revision still to come are the `late` ones.
`Undisturbed` is the geometric fact: moving
some vertices changes the regions of these and of what hangs off them, and no
other.

### Features

The step is a whole regeneration: a loop over all records whose body makes,
compares, retires and renames.  So there are two kinds of invariant.

`FInv` holds between steps: records depend on earlier records only
(`WellOrdered`); the geometry is one `restore_topology` accepts (`Sound`,
`ValidHistory`), every output is live in it (`Rooted`), no two points or lines have
the same output and each has one of its kind (`Owns`), and nothing else lives unless a
mark was lost (`NoOrphans`); the baseline, if captured, is an earlier state of the geometry
(`BaselineKept`).  The last part is what a full replay needs: what it restores
must not contradict what was retired since.  TLC checked `FInv` before it was
proved.

`Incremental` and `Full` hold between the rounds of the two replays, for the
working copy after `k` records: the copy only grows, each output is live in it,
what was made is an output or will be discarded, and an old output is kept or
its closure will be retired.  A third, `Led`, says where the lineage batch
leads each old output.  `IncrementalProgress`, `FullProgresses` and `TransitionsEnd` carry
them to the last record by induction over the records, and `IncrementEffect` and
`FullEffect` show what the conclusion makes of them: what is dropped is not an
output, and no more lives than the outputs stand on.

Edits of the definition do not touch the geometry, so `NoOrphans` needs that they
leave every output with some record or leave a mark (`EditKeeps`).  A mark sends
the next regeneration to the full replay, which rebuilds everything.  The two
ways around that, a mark that is lost and a removal of all records, are the
`"mark"` the property excludes.

`AdditiveHistoriesReplayExactly` compares two replays of the same records.
`Exact` says of one record, its output and the geometry that they are as the
definition has them, given the outputs of the records it stands on: suppressed,
blocked, or live with the right content (`Content`).  It never mentions an identifier, so records
that are `Exact` in two geometries have equal states and contents there
(`ExactAlike`).  Both rounds keep it: `ExactTo(s.records, s.work, k)` is a part of
`Full`, and of `Incremental` where no output is forced to be new.  Between steps,
`EInv` says that a clean record that stands on clean records is `Exact`
(`CleanExact`); an edit makes what it touches dirty and touches nothing else
(`EditLeavesExact`), and the incremental replay starts at or before the first dirty
record, hence behind a prefix that is `Exact` (`PrefixExact`).  The replay
from nothing with which `OutputsAreIntended` compares succeeds, because
wherever an executor would refuse, no geometry could be `Exact`
(`FullReplaySucceeds`).  No suspect path needs to be excluded: a lost mark leaves
orphans but no wrong output, and the prefix is only moved by transforms.  TLC
checked `EInv` with four features and five edits before it was proved.

`RefusalsAlwaysExplained` goes the other way: the others say what holds once the
checks at the end of a regeneration have passed, this one that they pass.  A
history is `Calm` when no record is a transform and every line stands between the
current outputs of the points it names; then each output is one record's alone
(`Owns`), and its end points are outputs themselves.  `Tidy` is what the incremental
replay of a calm history keeps besides `Incremental`: it retires nothing but old
outputs, discards nothing but copies and what stays anyway, and binds roles of copies only, each to the old
output it is a copy of, so that no two bindings disagree.  From there one check after
the other: what leaves is nobody's output (`LeftForGood`), so no shared conflict
(`NoneShared`); the transitions lead from exactly the outputs that are left, each to
the new output of its record (`TransitionsExactly`); what is removed has nothing
standing on it, and every new lineage entry leads from what is gone to what
stays (`IncrementRecords`).  After a full replay from an empty baseline nothing of
the old geometry is live, and all of it leads on or is deleted (`RestartRecords`).
That the lineage has no cycle is `LeadsNowhereBack`: old entries are as they were,
and new ones lead to live entities only.  For the lineage error the property
assumes besides that all geometry comes from the features
(`Live(geometry) = Owned`): an orphan left by a lost mark would be neither kept nor
led on.

### Planner sessions

The six theorems about `PlannerSession` rest on one inductive invariant, `IInv`.
What the host concludes from one result file is about processes it never sees,
so the invariant carries the evidence along: `CommandsInv` bounds the commands by
the accepted stages; `DispatchInv` says, for each place the planner can be in,
which workers have been spawned, told or collected; `WorkerInv` what a worker's
counters say of where it is; `VerdictInv` that a planner about to report
`passed` has joined every worker, and that `declined` is reported only after a
fault; `HostInv` that the host's verdict rests on those, that it declines without a
fault only when its time ran out and no planner was started, and that
the processes are gone once it has closed.  `HostInductive`, `PlannerInductive`
and `WorkerInductive` are the three parts of the step, one case per action.

`StartupBounded` is about a cardinality, and needs a reason why it is bounded:
`StartupInv` says that all workers told to go on and not yet admitted belong to one
batch, and a batch has no more than `StartupConcurrency` members.

### The tree

`TreeInv` is the inductive invariant of `SpatialTree`: links and records of the
right shape (`Linked`), every branch as its children say (`Fits`) and within one
level of balance (`Sound`), one leaf more than branches, leaves named by the keys
and fitted to their boxes (`Fitted`).  The count of branches is what makes a number
for a new branch always available.  The two searches rest on it, `Nearest` without
knowing anything of rotations.

The hard step is a mutation, for in the middle of `RefitFrom` the tree is *not* sound.
`Repairing` says in which way: all branches fit but the one the loop is at, and that
one is as a branch can be of which one subtree has grown or shrunk by a level:
its caches are old and it may lean by two levels (`Nearly`).  A round mends it,
with a rotation where it has to, and hands the fault to the parent; the cases of that
rotation are the longest proof of the project.  Heights decrease downwards, so that the loop is at the root after as
many rounds as the tree is high.  Insertions and removals leave a tree of that kind
(`PrunedRepair` for the removal), and every mutation is one or both of them.  A bulk
build is an induction over the length of the part built.  Induction up and down
the tree is by height (`BottomUp`, `UpToRoot`).

For `NearestExact`, `Above(k)` is the set of nodes on the way from the root to the key
`k`.  Between two rounds each key is either beaten by the best hit or has a node
above it in the queue (`Covered`), whose bound is not more than the exact distance
of the key (`BoundBelow`): so nothing is lost when the search stops at the first
entry that is too far.  That it stops in time is a count: after `i` rounds, `i` nodes
are done with, all those above them too, and none of them in the queue
(`Passed`).

### Only model-checked

- `EditingResumes`, `HostDecides` and `EverythingEnds`: liveness under fairness is
  outside the prover's reach.
- `IntendedUnlessSuspect` of `FeatureHistory` for histories with transforms; without
  them it is part of `AdditiveHistoriesReplayExactly`.  With them the content of an output is not a
  matter of its own record any more: it depends on which later modifiers have
  already been over it on the live geometry, which `Exact` cannot say.

The prover has no induction over data as such, because the library's induction
theorems take an operator as parameter.  `NaturalRecursion` states what is needed
for initial segments of the naturals with sets and functions instead: a set
that holds `0` and is closed under successor holds the segment, and a step
function can be iterated along it.

## 5. Plan

Done: `Document`, `Transactions`, `PlanApply`, `DerivedState`, `Materialization`, `FeatureHistory`,
`PlannerSession`, `SpatialTree`, and the proofs listed.  Left, most important
first:

1. Proofs: `IntendedUnlessSuspect` of `FeatureHistory` for histories with
   transforms.
2. `Lineage`: `resolve_handle` (live, replaced, deleted, unknown) across exact
   rollback, labels after a failed batch, replacements that a restored snapshot
   takes back.
3. `PreparationEpoch` and `Structural`.
4. Composition of `FeatureHistory` with `Transactions` through the publication of
   a regeneration under the owner's revision.

## 6. Not modelled

*Transactions*: groups (journalled as tags are, under their names), structural
namespaces, direct field writes discovered by `_capture_direct_mutations`,
`restore_design`, feature publications.

*DerivedState*: the arc-frame cache, which is captured and restored with the
edge lengths, and edges whose curve carries its own geometry.

*PlanApply*: selections, units and the geometry of the commands, the digest's
tamper check, batches without effect (`NO_EFFECT` blocks them), two threads at the
ledger.

*FeatureHistory*: inputs given as raw entity references, unknown and frozen
kinds (`adopt_frozen`, `validate_materialization`), checksums, transfer of
structural owners and the retry of a full replay it needs, reuse of detached
materialisations, geometry the user edits directly, features with several
outputs (split, loft, faces).  A dependency of its own is drawn for points only;
`remove` always cascades; two points coincide when position and moves are equal.

*PlannerSession*: the content and digests of packets, `prepare_plan` and package
stages, the bridge for a single stage, the production controller, memory budgets
with their failure replies, the `cancel.flag` file and the `cancelled` status of
children, a failed cleanup inside the constructor of `OwnedPlanner` (it raises, as
`CloseFails` does), the `failed` latch (after a failure the host submits nothing), the
comparison of the source document before and after.

*SpatialTree*: three axes, filters by kind, `query_regions` and `overlap_pairs`
(combinations of queries), diagnostic counters, distance evaluators that raise.

Components with no module: incidence indexes, the structural layer and
preparation epochs are on the plan.  Editing operations, generators and
serialization only build or read documents through the edits modelled here.
Intersections, arrangements, certificates, NURBS, hydrostatics and the native
kernels compute numbers and exact algebra on immutable inputs: coordinates,
tolerances and polynomials are outside a model checker's reach, and they make up
most of the code.  The components with their status are listed in `PROJECT.json`.

## 7. Running

    tlc -config TransactionsCore.cfg MCTransactions
    tlc -config PlanApply.cfg MCPlanApply
    tlc -config DerivedState.cfg MCDerivedState
    tlc -config FeatureHistory.cfg MCFeatureHistory
    tlc -config PlannerSession.cfg PlannerSession
    tlc -config SpatialTree.cfg MCSpatialTree
    tlapm TransactionsProofs.tla
    tlapm RefinementProofs.tla
    tlapm DerivedProofs.tla
    tlapm NaturalRecursion.tla
    tlapm PlanApplyProofs.tla
    tlapm FeatureProofs.tla
    tlapm PlannerProofs.tla
    tlapm SpatialProofs.tla

Operators introduced by "Mutant of" comments are plausible faults in the
definition that follows them; `PROJECT.json` says which property each of them
breaks.
