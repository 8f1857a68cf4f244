--------------------------- MODULE RefinementProofs ---------------------------
(***************************************************************************)
(* The undo journal of Transactions.tla implements Document.tla: what the  *)
(* owner does in place, key by key, looks to a reader like one published   *)
(* content replaced by the next.                                           *)
(*                                                                         *)
(* From the same invariants, what a consumer of ChangeSets may rely on:    *)
(* the ChangeSets alone reproduce the document, they chain, and they       *)
(* classify every key by its published state before and after.             *)
(***************************************************************************)
EXTENDS TransactionsProofs

DraftOrNone == IF stage = "open" THEN Draft ELSE NoDraft

LEMMA ContentTypes ==
    ASSUME TypeOK
    PROVE  Draft \in Contents /\ Before \in Contents /\ Draft # NoDraft
<1>1. Draft \in Contents
  BY DEF Draft, Contents, TypeOK
<1>2. Before \in Contents
  BY DEF Before, Contents, TypeOK
<1> QED
  BY <1>1, <1>2, SentinelAssumption

(* A commit that found nothing changed publishes what was published. *)
LEMMA UnchangedDraft ==
    ASSUME TypeOK, Consistent, ~Changed
    PROVE  Draft = Before
<1>1. tagsCaptured = {} /\ replaced = {}
  BY DEF Changed, Consistent, JournalConsistent
<1>2. \A i \in captured : entities[i] = entityBefore[i]
  BY DEF Changed, Added, Removed, Modified
<1> QED
  BY <1>1, <1>2 DEF Draft, Before, TypeOK

(* Each step of the journal is a step of the document, or none. *)
LEMMA RefinementStep ==
    ASSUME "base" \notin HookFaults, TypeOK, TypeOK', Consistent, Consistent',
           [Next]_vars
    PROVE  [Doc!Next]_<<Published, DraftOrNone, revision>>
<1> USE TransactionsAssumption
<1> DEFINE Quiet == /\ Published' = Published /\ DraftOrNone' = DraftOrNone
                   /\ revision' = revision
<1>0. /\ Draft \in Contents /\ Draft' \in Contents /\ Draft # NoDraft
      /\ Draft' # NoDraft /\ Published' \in Contents
      /\ Publishable(Published) /\ Publishable(Published')
  <2>1. Draft' \in Contents /\ Before' \in Contents
    BY DEF Draft, Before, Contents, TypeOK
  <2> QED
    BY <2>1, ContentTypes, SentinelAssumption
       DEF Consistent, PublishedValid, Published
<1>1. CASE EnterOuter
  <2>1. stage = "idle" /\ stage' = "open" /\ revision' = revision
        /\ UNCHANGED <<document, captured, entityBefore, tagsCaptured,
                       tagsBefore, replaced>>
    BY <1>1 DEF EnterOuter
  <2>2. captured = {} /\ tagsCaptured = {} /\ replaced = {}
    BY <2>1 DEF Consistent, JournalConsistent
  <2>3. Before' = Draft /\ Draft' = Draft
    BY <2>1, <2>2 DEF Before, Draft, document, TypeOK
  <2> QED
    BY <2>1, <2>3 DEF Doc!Next, Doc!Begin, DraftOrNone, Published
<1>2. CASE EnterNested \/ (\E failed \in BOOLEAN : ExitNested(failed))
           \/ RequestExactRollback \/ TopologySnapshot \/ HookReturns
           \/ HookRaises \/ UNCHANGED vars
           \/ (\E n \in Floors : ReserveIds(n))
  <2>1. UNCHANGED <<document, stage, captured, entityBefore, revision,
                    tagsCaptured, tagsBefore, replaced>>
    BY <1>2 DEF EnterNested, ExitNested, RequestExactRollback, ReserveIds,
                TopologySnapshot, HookReturns, HookRaises, vars, journal
  <2> QED
    BY <2>1 DEF DraftOrNone, Published, Before, Draft, document
<1>3. CASE Edit
  <2>1. Before' = Before
    BY <1>3, EditEffect DEF Consistent
  <2>2. stage = "open" /\ stage' = "open" /\ revision' = revision
    BY <1>3 DEF Edit, AddEntity, PutEntity, RemoveEntity, DiscardEntity,
                RecordReplacement, Tag, Untag, EditFrame
  <2> QED
    BY <1>0, <2>1, <2>2 DEF Doc!Next, Doc!Edit, DraftOrNone, Published
<1>4. ASSUME NEW error \in BOOLEAN, ExitFailing(error)
      PROVE  Doc!Next
  <2>1. stage = "open" /\ stage' = "idle" /\ Published' = Before
    BY <1>4, RollbackEffect DEF ExitFailing, Rollback
  <2>2. revision' = revision
    BY <1>4, <2>1 DEF ExitFailing, Rollback, Consistent, JournalConsistent
  <2> QED
    BY <1>0, <2>1, <2>2 DEF Doc!Next, Doc!Abort, DraftOrNone, Published
<1>5. CASE ExitUnchanged
  <2>1. stage = "open" /\ stage' = "idle" /\ ~Changed
        /\ revision' = revision /\ UNCHANGED document
    BY <1>5 DEF ExitUnchanged
  <2>2. Published' = Published
    BY <2>1, UnchangedDraft DEF Published, Draft, document
  <2> QED
    BY <1>0, <2>1, <2>2 DEF Doc!Next, Doc!Abort, DraftOrNone
<1>6. CASE ExitCommitting
  <2>1. stage = "open" /\ stage' = "hooks" /\ revision' = revision + 1
        /\ UNCHANGED document
    BY <1>6 DEF ExitCommitting
  <2>2. Published' = Draft /\ Publishable(Draft)
    BY <1>0, <2>1 DEF Published, Draft, document
  <2> QED
    BY <1>0, <2>1, <2>2 DEF Doc!Next, Doc!Commit, DraftOrNone
<1>7. CASE RestoreTopology \/ \E s \in Settings : SetDocumentSettings(s)
  <2>1. stage = "idle" /\ stage' = "notify" /\ revision' = revision + 1
    BY <1>7 DEF RestoreTopology, SetDocumentSettings
  <2> QED
    BY <1>0, <2>1 DEF Doc!Next, Doc!Replace, DraftOrNone
<1>8. CASE HookInterruptsCommit \/ HookInterruptsNotice
  BY <1>8 DEF HookInterruptsCommit, HookInterruptsNotice
<1>9. CASE FinishHooks
  <2>1. stage # "open" /\ stage' = "idle" /\ revision' = revision
        /\ UNCHANGED document
    BY <1>9 DEF FinishHooks, Notifying
  <2> QED
    BY <2>1 DEF Published, Draft, document, DraftOrNone
<1> QED
  BY <1>1, <1>2, <1>3, <1>4, <1>5, <1>6, <1>7, <1>8, <1>9 DEF Next, HookStep, HookFails

(* Edits stay invisible until a commit replaces the whole content by a     *)
(* valid one under a new revision, and every failure leaves content and    *)
(* revision as they were, for any nesting, number of identifiers and mix   *)
(* of edits, as long as no hook raises KeyboardInterrupt or the like.      *)
THEOREM JournalImplementsDocument ==
    ASSUME "base" \notin HookFaults
    PROVE  Spec => DocumentSpec
<1>1. Init /\ TypeOK /\ Consistent => Doc!Init
  <2> SUFFICES ASSUME Init, TypeOK, Consistent PROVE Doc!Init
    OBVIOUS
  <2>1. Published \in Contents /\ Publishable(Published)
    BY ContentTypes DEF Published, Consistent, PublishedValid
  <2> QED
    BY <2>1 DEF Doc!Init, Init
<1>2. TypeOK /\ TypeOK' /\ Consistent /\ Consistent' /\ [Next]_vars
      => [Doc!Next]_<<Published, DraftOrNone, revision>>
  BY RefinementStep
<1>3. [Doc!Next]_<<Published, DraftOrNone, revision>> => [Doc!Next]_(Doc!vars)
  BY DEF Doc!vars, DraftOrNone
<1> QED
  BY <1>1, <1>2, <1>3, TypeCorrect, AlwaysConsistent, PTL
     DEF Spec, DocumentSpec, Doc!Spec

(* Once a nested edit has failed, catching its exception does not help:    *)
(* until the outermost context ends, and when it ends, the published       *)
(* content and its revision stay what they were.                           *)
THEOREM FailureIsFinal == Spec => FailedEditNeverCommits
<1>1. TypeOK /\ TypeOK' /\ Consistent /\ [Next]_vars
      => [stage = "open" /\ failure =>
            Published' = Published /\ revision' = revision]_vars
  <2> SUFFICES ASSUME TypeOK, TypeOK', Consistent, [Next]_vars,
                      stage = "open", failure
               PROVE  Published' = Published /\ revision' = revision
    OBVIOUS
  <2>1. CASE EnterNested \/ (\E failed \in BOOLEAN : ExitNested(failed))
             \/ RequestExactRollback \/ TopologySnapshot \/ UNCHANGED vars
             \/ (\E n \in Floors : ReserveIds(n))
    <3>1. UNCHANGED <<document, stage, captured, entityBefore, revision,
                      tagsCaptured, tagsBefore, replaced>>
      BY <2>1 DEF EnterNested, ExitNested, RequestExactRollback, ReserveIds,
                  TopologySnapshot, vars, journal
    <3> QED
      BY <3>1 DEF Published, Before, Draft, document
  <2>2. CASE Edit
    <3>1. Before' = Before
      BY <2>2, EditEffect DEF Consistent
    <3>2. stage' = "open" /\ revision' = revision
      BY <2>2 DEF Edit, AddEntity, PutEntity, RemoveEntity, DiscardEntity,
                  RecordReplacement, Tag, Untag, EditFrame
    <3> QED
      BY <3>1, <3>2 DEF Published
  <2>3. ASSUME NEW error \in BOOLEAN, ExitFailing(error)
        PROVE  Published' = Published /\ revision' = revision
    <3>1. Published' = Before
      BY <2>3, RollbackEffect DEF ExitFailing
    <3>2. revision' = revision
      BY <2>3 DEF ExitFailing, Rollback, Consistent, JournalConsistent
    <3> QED
      BY <3>1, <3>2 DEF Published
  <2>4. ~ExitUnchanged /\ ~ExitCommitting
    BY DEF ExitUnchanged, ExitCommitting, Committable
  <2>5. ~EnterOuter /\ ~RestoreTopology /\ ~HookStep
        /\ ~ \E s \in Settings : SetDocumentSettings(s)
    BY DEF EnterOuter, RestoreTopology, SetDocumentSettings, HookStep, HookFails,
           HookReturns, HookRaises, HookInterruptsCommit,
           HookInterruptsNotice, FinishHooks, Notifying
  <2> QED
    BY <2>1, <2>2, <2>3, <2>4, <2>5 DEF Next
<1> QED
  BY <1>1, TypeCorrect, AlwaysConsistent, PTL DEF Spec, FailedEditNeverCommits

-----------------------------------------------------------------------------
(* ChangeSets.  All of it is for hooks that raise nothing outside          *)
(* Exception, except the classification, which needs no such assumption.   *)

Touched == lastChange.added \cup lastChange.removed \cup lastChange.modified

(* What one hook call would bring up to date agrees with the document      *)
(* wherever the published ChangeSet names nothing.                         *)
CatchesUp(r) ==
    \A i \in Ids :
        /\ i \notin Touched => r.entities[i] = entities[i]
        /\ i \notin lastChange.tagChanges => r.tags[i] = tags[i]

Copy(c) == [entities |-> c.entities, tags |-> c.tags]

(* Between publications every replica is the published content.  During    *)
(* one, the replicas before the loop position are the new content, and the *)
(* others are one ChangeSet behind it.                                     *)
ReplicaInv ==
    /\ pending = 0 <=> ~Notifying
    /\ ~Notifying => \A h \in 1..NHooks : replicas[h] = Copy(Published)
    /\ Notifying => \A h \in 1..NHooks :
           IF h < pending THEN replicas[h] = Copy(Draft)
                          ELSE CatchesUp(replicas[h])

(* A copy of what is published before a step that begins to notify is one  *)
(* ChangeSet behind when the ChangeSet names every key that differs.       *)
LEMMA BeginsToNotify ==
    ASSUME TypeOK, ReplicaInv, ~Notifying, Notifying', pending' = 1,
           replicas' = replicas,
           \A i \in Ids :
               /\ i \notin Touched' => Published.entities[i] = entities'[i]
               /\ i \notin lastChange'.tagChanges => Published.tags[i] = tags'[i]
    PROVE  ReplicaInv'
<1>1. \A h \in 1..NHooks : ~(h < 1)
  OBVIOUS
<1>2. \A h \in 1..NHooks : CatchesUp(replicas[h])'
  <2> SUFFICES ASSUME NEW h \in 1..NHooks PROVE CatchesUp(replicas[h])'
    OBVIOUS
  <2>1. replicas'[h] = Copy(Published)
    BY DEF ReplicaInv
  <2> QED
    BY <2>1 DEF CatchesUp, Copy
<1> QED
  BY <1>1, <1>2 DEF ReplicaInv

(* Steps that leave every replica a copy of what is published. *)
LEMMA StaysAtRest ==
    ASSUME ReplicaInv, ~Notifying, ~Notifying', pending' = pending,
           replicas' = replicas, Copy(Published)' = Copy(Published)
    PROVE  ReplicaInv'
BY DEF ReplicaInv

(* The hook loop moves on: the hook just called knows the new content.     *)
LEMMA HookCatchesUp ==
    ASSUME TypeOK, ReplicaInv, Notifying, Notifying', pending \in 1..NHooks,
           Observe(pending), pending' = pending + 1,
           UNCHANGED <<document, lastChange>>
    PROVE  ReplicaInv'
<1>1. replicas'[pending] = Copy(Draft)
  <2> DEFINE r == replicas[pending]
             e == [i \in Ids |-> IF i \in Touched THEN entities[i]
                                 ELSE r.entities[i]]
             g == [i \in Ids |-> IF i \in lastChange.tagChanges THEN tags[i]
                                 ELSE r.tags[i]]
  <2>1. replicas' = [replicas EXCEPT ![pending] = [entities |-> e, tags |-> g]]
    BY DEF Observe, Touched
  <2>2. CatchesUp(r)
    BY DEF ReplicaInv, TypeOK
  <2>3. e = entities /\ g = tags
    BY <2>2 DEF CatchesUp, TypeOK
  <2> QED
    BY <2>1, <2>3 DEF TypeOK, Copy, Draft
<1>2. \A h \in 1..NHooks : h # pending => replicas'[h] = replicas[h]
  BY DEF Observe, TypeOK
<1>3. Draft' = Draft /\ Touched' = Touched
  BY DEF Draft, Touched, document
<1>4. \A h \in 1..NHooks : h < pending + 1 <=> h < pending \/ h = pending
  BY DEF TypeOK
<1>5. \A h \in 1..NHooks : h < pending + 1 => replicas'[h] = Copy(Draft)'
  BY <1>1, <1>2, <1>3, <1>4 DEF ReplicaInv, Copy
<1>6. ASSUME NEW h \in 1..NHooks, ~(h < pending + 1)
      PROVE  CatchesUp(replicas[h])'
  <2>1. CatchesUp(replicas[h]) /\ replicas'[h] = replicas[h]
    BY <1>2, <1>4, <1>6 DEF ReplicaInv
  <2> QED
    BY <1>3, <2>1 DEF CatchesUp, document
<1> QED
  BY <1>5, <1>6 DEF ReplicaInv

LEMMA ReplicaStep ==
    ASSUME "base" \notin HookFaults, TypeOK, TypeOK', Consistent, Consistent',
           ReplicaInv, [Next]_vars
    PROVE  ReplicaInv'
<1> USE TransactionsAssumption
<1>0. JournalConsistent
  BY DEF Consistent
<1>1. CASE EnterOuter
  <2>1. stage = "idle" /\ stage' = "open" /\ pending' = pending
        /\ replicas' = replicas
        /\ UNCHANGED <<document, captured, entityBefore, tagsCaptured, tagsBefore>>
    BY <1>1 DEF EnterOuter, publication
  <2>2. captured = {} /\ tagsCaptured = {}
    BY <1>0, <2>1 DEF JournalConsistent
  <2>3. Copy(Published)' = Copy(Published)
    BY <2>1, <2>2 DEF Copy, Published, Before, Draft, document, TypeOK
  <2> QED
    BY <2>1, <2>3, StaysAtRest DEF Notifying
<1>2. CASE EnterNested \/ (\E failed \in BOOLEAN : ExitNested(failed))
           \/ RequestExactRollback \/ TopologySnapshot
           \/ (\E n \in Floors : ReserveIds(n)) \/ UNCHANGED vars
  <2>1. /\ UNCHANGED <<stage, pending, replicas, document, lastChange, captured,
                       entityBefore, tagsCaptured, tagsBefore, replaced>>
    BY <1>2 DEF EnterNested, ExitNested, RequestExactRollback, TopologySnapshot,
                ReserveIds, vars, journal, publication
  <2>2. Published' = Published /\ Draft' = Draft /\ Touched' = Touched
    BY <2>1 DEF Published, Before, Draft, Touched, document
  <2> QED
    BY <2>1, <2>2 DEF ReplicaInv, Notifying, CatchesUp, Copy, document
<1>3. CASE Edit
  <2>1. Before' = Before
    BY <1>0, <1>3, EditEffect DEF Consistent
  <2>2. EditFrame
    BY <1>3 DEF Edit, AddEntity, PutEntity, RemoveEntity, DiscardEntity,
         RecordReplacement, Tag, Untag
  <2>3. stage = "open" /\ stage' = "open" /\ pending' = pending
        /\ replicas' = replicas
    BY <2>2 DEF EditFrame, publication
  <2>4. Copy(Published)' = Copy(Published)
    BY <2>1, <2>3 DEF Published, Copy
  <2> QED
    BY <2>3, <2>4, StaysAtRest DEF Notifying
<1>4. ASSUME NEW error \in BOOLEAN, ExitFailing(error) PROVE ReplicaInv'
  <2>1. stage = "open" /\ stage' = "idle" /\ pending' = pending
        /\ replicas' = replicas
    BY <1>4 DEF ExitFailing, Rollback, publication
  <2>2. Published' = Before /\ Published = Before
    BY <1>4, <2>1, RollbackEffect DEF ExitFailing, Published
  <2>3. Copy(Published)' = Copy(Published)
    BY <2>2 DEF Copy
  <2> QED
    BY <2>1, <2>3, StaysAtRest DEF Notifying
<1>5. CASE ExitUnchanged
  <2>1. stage = "open" /\ stage' = "idle" /\ pending' = pending
        /\ replicas' = replicas /\ ~Changed /\ UNCHANGED document
    BY <1>5 DEF ExitUnchanged
  <2>2. Draft = Before /\ Draft' = Draft
    BY <2>1, UnchangedDraft DEF Draft, document
  <2>3. Copy(Published)' = Copy(Published)
    BY <2>1, <2>2 DEF Copy, Published
  <2> QED
    BY <2>1, <2>3, StaysAtRest DEF Notifying
<1>6. CASE ExitCommitting
  <2>1. stage = "open" /\ stage' = "hooks" /\ pending' = 1
        /\ replicas' = replicas /\ UNCHANGED document
        /\ lastChange' = ChangeSet(revision + 1)
    BY <1>6 DEF ExitCommitting
  <2>2. Touched' = Added \cup Removed \cup Modified
        /\ lastChange'.tagChanges = tagChanges
    BY <2>1 DEF Touched, ChangeSet
  <2>3. \A i \in Ids : i \notin Added \cup Removed \cup Modified
            => Before.entities[i] = entities[i]
    BY DEF Added, Removed, Modified, Before, TypeOK
  <2>4. \A i \in Ids : i \notin tagChanges => Before.tags[i] = tags[i]
    BY <1>0 DEF JournalConsistent, Before
  <2>5. Published = Before
    BY <2>1 DEF Published
  <2> QED
    BY <2>1, <2>2, <2>3, <2>4, <2>5, BeginsToNotify DEF Notifying, document
<1>7. ASSUME NEW s \in Settings, SetDocumentSettings(s) PROVE ReplicaInv'
  <2>1. stage = "idle" /\ stage' = "notify" /\ pending' = 1
        /\ replicas' = replicas /\ UNCHANGED <<entities, tags>>
    BY <1>7 DEF SetDocumentSettings
  <2>2. Published.entities = entities /\ Published.tags = tags
    BY <2>1 DEF Published, Draft
  <2> QED
    BY <2>1, <2>2, BeginsToNotify DEF Notifying
<1>8. CASE RestoreTopology
  <2>1. stage = "idle" /\ stage' = "notify" /\ pending' = 1
        /\ replicas' = replicas /\ snapshot # NoSnapshot
        /\ entities' = snapshot.entities /\ tags' = snapshot.tags
        /\ lastChange' = RestoreChangeSet(snapshot)
    BY <1>8 DEF RestoreTopology
  <2>2. Published.entities = entities /\ Published.tags = tags
    BY <2>1 DEF Published, Draft
  <2>3. \A i \in Ids : i \notin Touched' => entities[i] = snapshot.entities[i]
    BY <2>1 DEF Touched, RestoreChangeSet, Live
  <2>4. \A i \in Ids : i \notin lastChange'.tagChanges
            => tags[i] = snapshot.tags[i]
    BY <2>1 DEF RestoreChangeSet
  <2> QED
    BY <2>1, <2>2, <2>3, <2>4, BeginsToNotify DEF Notifying
<1>9. CASE HookReturns \/ HookRaises
  BY <1>9, HookCatchesUp DEF HookReturns, HookRaises, Notifying
<1>10. CASE FinishHooks
  <2>1. Notifying /\ pending = NHooks + 1 /\ pending' = 0 /\ stage' = "idle"
        /\ replicas' = replicas /\ UNCHANGED document
    BY <1>10 DEF FinishHooks
  <2>2. \A h \in 1..NHooks : replicas[h] = Copy(Draft)
    BY <2>1 DEF ReplicaInv
  <2>3. Published' = Draft
    BY <2>1 DEF Published, Draft, document
  <2> QED
    BY <2>1, <2>2, <2>3 DEF ReplicaInv, Notifying, Copy
<1>11. CASE HookInterruptsCommit \/ HookInterruptsNotice
  BY <1>11 DEF HookInterruptsCommit, HookInterruptsNotice
<1> QED
  BY <1>1, <1>2, <1>3, <1>4, <1>5, <1>6, <1>7, <1>8, <1>9, <1>10, <1>11
     DEF Next, HookStep, HookFails

(* A hook that applies every ChangeSet it is given, and reads nothing      *)
(* else, has the model's exact records and tags whenever the model is at   *)
(* rest.                                                                   *)
THEOREM ReplicasAlwaysFollow ==
    ASSUME "base" \notin HookFaults
    PROVE  Spec => []ReplicasFollow
<1>1. Init => ReplicaInv
  BY DEF Init, ReplicaInv, Notifying, Copy, Published, Draft
<1>2. TypeOK /\ TypeOK' /\ Consistent /\ Consistent' /\ ReplicaInv /\ [Next]_vars
      => ReplicaInv'
  BY ReplicaStep
<1>3. ReplicaInv => ReplicasFollow
  BY DEF ReplicaInv, ReplicasFollow, Notifying, Copy, Published, Draft
<1> QED
  BY <1>1, <1>2, <1>3, TypeCorrect, AlwaysConsistent, PTL DEF Spec

-----------------------------------------------------------------------------
(* The revision a consumer last heard of is the revision of the document.  *)
ChangeSetCurrent == lastChange.after = revision

LEMMA ChainStep ==
    ASSUME "base" \notin HookFaults, Consistent, ChangeSetCurrent, [Next]_vars
    PROVE  /\ ChangeSetCurrent'
           /\ lastChange' # lastChange => lastChange'.before = lastChange.after
<1>0. stage = "open" => revisionBefore = revision
  BY DEF Consistent, JournalConsistent
<1>1. CASE ExitUnchanged
  BY <1>0, <1>1 DEF ExitUnchanged, ChangeSet, ChangeSetCurrent
<1>2. CASE ExitCommitting
  BY <1>0, <1>2 DEF ExitCommitting, ChangeSet, ChangeSetCurrent
<1>3. ASSUME NEW s \in Settings, SetDocumentSettings(s)
      PROVE  /\ ChangeSetCurrent'
             /\ lastChange' # lastChange => lastChange'.before = lastChange.after
  BY <1>3 DEF SetDocumentSettings, ChangeSetCurrent
<1>4. CASE RestoreTopology
  BY <1>4 DEF RestoreTopology, RestoreChangeSet, ChangeSetCurrent
<1>5. ASSUME lastChange' = lastChange, revision' = revision
      PROVE  /\ ChangeSetCurrent'
             /\ lastChange' # lastChange => lastChange'.before = lastChange.after
  BY <1>5 DEF ChangeSetCurrent
<1>6. ASSUME NEW error \in BOOLEAN, ExitFailing(error)
      PROVE  lastChange' = lastChange /\ revision' = revision
  BY <1>0, <1>6 DEF ExitFailing, Rollback, publication
<1>7. CASE \/ EnterOuter \/ EnterNested \/ Edit \/ RequestExactRollback
           \/ TopologySnapshot \/ HookReturns \/ HookRaises \/ FinishHooks
           \/ \E failed \in BOOLEAN : ExitNested(failed)
           \/ \E n \in Floors : ReserveIds(n)
           \/ UNCHANGED vars
  <2>1. lastChange' = lastChange /\ revision' = revision
    BY <1>7 DEF EnterOuter, EnterNested, ExitNested, Edit, AddEntity, PutEntity,
       RemoveEntity, DiscardEntity, RecordReplacement, Tag, Untag, EditFrame,
       RequestExactRollback, ReserveIds, TopologySnapshot, HookReturns,
       HookRaises, FinishHooks, vars, publication
  <2> QED
    BY <1>5, <2>1
<1>8. CASE HookInterruptsCommit \/ HookInterruptsNotice
  BY <1>8 DEF HookInterruptsCommit, HookInterruptsNotice
<1> QED
  BY <1>1, <1>2, <1>3, <1>4, <1>5, <1>6, <1>7, <1>8 DEF Next, HookStep, HookFails

(* Each ChangeSet starts at the revision where the previous one ended,     *)
(* through commits, refused transactions, settings and restored snapshots: *)
(* a consumer that compares the two never takes a gap for a successor.     *)
THEOREM ChangeSetsAlwaysChain ==
    ASSUME "base" \notin HookFaults
    PROVE  Spec => ChangeSetsChain
<1>1. Init => ChangeSetCurrent
  BY DEF Init, ChangeSetCurrent
<1>2. Consistent /\ ChangeSetCurrent /\ [Next]_vars => ChangeSetCurrent'
  BY ChainStep
<1>3. Consistent /\ ChangeSetCurrent /\ [Next]_vars =>
          [lastChange' # lastChange => lastChange'.before = lastChange.after]_vars
  BY ChainStep
<1> QED
  BY <1>1, <1>2, <1>3, AlwaysConsistent, PTL DEF Spec, ChangeSetsChain

-----------------------------------------------------------------------------
Classifies ==
    LET old == Live(Published.entities)
        new == Live(entities')
    IN  /\ lastChange'.added = new \ old
        /\ lastChange'.removed = old \ new
        /\ lastChange'.modified \subseteq old \cap new

LEMMA ClassifyStep ==
    ASSUME TypeOK, TypeOK', Consistent, Next, pending = 0, pending' = 1
    PROVE  Classifies
<1> USE TransactionsAssumption
<1>1. CASE ExitCommitting
  <2>1. stage = "open" /\ entities' = entities
        /\ lastChange' = ChangeSet(revision + 1)
    BY <1>1 DEF ExitCommitting, document
  <2>2. Published = Before
    BY <2>1 DEF Published
  <2>3. \A i \in Ids \ captured : Before.entities[i] = entities[i]
    BY DEF Before
  <2>4. \A i \in captured : Before.entities[i] = entityBefore[i] /\ i \in Ids
    BY DEF Before, TypeOK
  <2>5. Added = Live(entities) \ Live(Before.entities)
    BY <2>3, <2>4 DEF Added, Live
  <2>6. Removed = Live(Before.entities) \ Live(entities)
    BY <2>3, <2>4 DEF Removed, Live
  <2>7. Modified \subseteq Live(Before.entities) \cap Live(entities)
    BY <2>4 DEF Modified, Live
  <2> QED
    BY <2>1, <2>2, <2>5, <2>6, <2>7 DEF Classifies, ChangeSet
<1>2. ASSUME NEW s \in Settings, SetDocumentSettings(s) PROVE Classifies
  BY <1>2 DEF SetDocumentSettings, Classifies, Published, Draft, Live
<1>3. CASE RestoreTopology
  <2>1. stage = "idle" /\ entities' = snapshot.entities
        /\ lastChange' = RestoreChangeSet(snapshot)
    BY <1>3 DEF RestoreTopology
  <2>2. Published.entities = entities
    BY <2>1 DEF Published, Draft
  <2> QED
    BY <2>1, <2>2 DEF Classifies, RestoreChangeSet
<1>4. CASE HookStep
  BY <1>4 DEF HookStep, HookReturns, HookFails, HookRaises, HookInterruptsCommit,
     HookInterruptsNotice, FinishHooks
<1>5. CASE \/ EnterOuter \/ EnterNested \/ Edit \/ RequestExactRollback
           \/ ExitUnchanged \/ TopologySnapshot
           \/ \E failed \in BOOLEAN : ExitNested(failed)
           \/ \E n \in Floors : ReserveIds(n)
           \/ \E error \in BOOLEAN : ExitFailing(error)
  <2>1. pending' = pending
    BY <1>5 DEF EnterOuter, EnterNested, ExitNested, Edit, AddEntity, PutEntity,
       RemoveEntity, DiscardEntity, RecordReplacement, Tag, Untag, EditFrame,
       RequestExactRollback, ReserveIds, ExitFailing, ExitUnchanged,
       TopologySnapshot, publication
  <2> QED
    BY <2>1
<1> QED
  BY <1>1, <1>2, <1>3, <1>4, <1>5 DEF Next

(* A publication classifies every key by its published state before and    *)
(* after, whatever the journal captured on the way and whatever the hooks  *)
(* of earlier publications raised.                                         *)
THEOREM ChangeSetsClassify == Spec => ChangeSetClassifies
<1>1. TypeOK /\ TypeOK' /\ Consistent /\ [Next]_vars =>
          [pending = 0 /\ pending' = 1 => Classifies]_vars
  BY ClassifyStep
<1>2. ChangeSetClassifies <=> [][pending = 0 /\ pending' = 1 => Classifies]_vars
  BY DEF ChangeSetClassifies, Classifies
<1> QED
  BY <1>1, <1>2, TypeCorrect, AlwaysConsistent, PTL DEF Spec

(* "Hook exceptions cannot roll back a published commit": true of every    *)
(* Exception a hook raises.                                                *)
THEOREM ExceptionsCannotRollBack ==
    ASSUME "base" \notin HookFaults
    PROVE  Spec => HooksCannotRollBack
<1>1. [Next]_vars => [stage = "hooks" => document' = document
                                         /\ revision' = revision]_vars
  <2> SUFFICES ASSUME Next, stage = "hooks"
               PROVE  document' = document /\ revision' = revision
    OBVIOUS
  <2>1. ~Edit
    BY DEF Edit, AddEntity, PutEntity, RemoveEntity, DiscardEntity,
       RecordReplacement, Tag, Untag, EditFrame
  <2>2. /\ ~EnterOuter /\ ~EnterNested /\ ~RequestExactRollback
        /\ ~ExitUnchanged /\ ~ExitCommitting /\ ~RestoreTopology
        /\ \A failed \in BOOLEAN : ~ExitNested(failed)
        /\ \A error \in BOOLEAN : ~ExitFailing(error)
        /\ \A s \in Settings : ~SetDocumentSettings(s)
    BY DEF EnterOuter, EnterNested, RequestExactRollback, ExitUnchanged,
       ExitCommitting, RestoreTopology, ExitNested, ExitFailing,
       SetDocumentSettings
  <2>3. ~HookInterruptsCommit /\ ~HookInterruptsNotice
    BY DEF HookInterruptsCommit, HookInterruptsNotice
  <2>4. \/ TopologySnapshot \/ HookReturns \/ HookRaises \/ FinishHooks
        \/ \E n \in Floors : ReserveIds(n)
    BY <2>1, <2>2, <2>3 DEF Next, HookStep, HookFails
  <2>5. CASE TopologySnapshot \/ HookReturns \/ HookRaises \/ FinishHooks
    BY <2>5 DEF TopologySnapshot, HookReturns, HookRaises, FinishHooks
  <2>6. ASSUME NEW n \in Floors, ReserveIds(n)
        PROVE  document' = document /\ revision' = revision
    BY <2>6 DEF ReserveIds
  <2> QED
    BY <2>4, <2>5, <2>6
<1> QED
  BY <1>1, PTL DEF Spec, HooksCannotRollBack

=============================================================================
