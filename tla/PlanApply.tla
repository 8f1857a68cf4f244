----------------------------- MODULE PlanApply ------------------------------
(***************************************************************************)
(* The two phases of the automation protocol (automation/planning.py) on   *)
(* the mutation authority of Transactions: plan_commands previews a batch  *)
(* on an unpublished clone and binds the plan to a revision; apply_plan    *)
(* checks revision and ledger, runs the batch once more on a clone, then   *)
(* on the live model, and enters the plan into the ledger of the applied.  *)
(*                                                                         *)
(* Between the two, and around them, the caller does everything else that  *)
(* Transactions has: edits, nested transactions, settings, snapshots; and  *)
(* plans are also made inside an open transaction and inside hooks.  One   *)
(* thread uses the model.  A plan with diagnostics is refused outright by  *)
(* apply_plan and is not kept here.                                        *)
(***************************************************************************)
EXTENDS Transactions, Sequences

CONSTANTS
    Batches,       \* sequences of commands [op, id, value]
    NoPlan,        \* the caller has no plan
    NoApplication  \* apply_plan is not running

VARIABLES
    plan,   \* the EditPlan the caller keeps
    app,    \* the running apply_plan
    ledger  \* _APPLIED: the digests, a plan's revision and commands

planVars == <<plan, app, ledger>>
allVars == <<vars, planVars>>

Creates(v) == [op |-> "create", id |-> 0, value |-> v]
ChangesTo(i, v) == [op |-> "change", id |-> i, value |-> v]
Deletes(i) == [op |-> "delete", id |-> i, value |-> Missing]

Commands ==
    {Creates(v) : v \in Values} \cup {Deletes(i) : i \in Ids}
        \cup {ChangesTo(i, v) : i \in Ids, v \in Values}

(* A CommandBatch is never empty. *)
ASSUME BatchesAssumption == Batches \subseteq Seq(Commands) \ {<<>>}

(* A document after some commands, with its allocator; ok until one fails. *)
CloneStates == [ok : BOOLEAN, entities : [Ids -> Records],
                retired : SUBSET Ids, ids : Nat]

Plans == [revision : Nat, batch : Batches, atRest : BOOLEAN, basis : Contents,
          preview : CloneStates, ids : Nat]

Applications == [plan : Plans, next : Nat, outer : BOOLEAN, content : Contents,
                 revision : Nat, ids : Nat]

ASSUME PlanSentinelAssumption == NoPlan \notin Plans /\ NoApplication \notin Applications

PlanInit ==
    /\ Init
    /\ plan = NoPlan
    /\ app = NoApplication
    /\ ledger = {}

-----------------------------------------------------------------------------
(* Batches on an unpublished clone *)

Active(store, c) == c.op = "create" \/ store[c.id] # Missing

(* The created entities fit into the identifiers of the instance. *)
Fits(b) ==
    nextId + Cardinality({k \in DOMAIN b : b[k].op = "create"}) <= MaxId + 1

(* One command of _apply_command on a clone; a failure ends the batch. *)
Staged(s, c) ==
    IF ~s.ok \/ ~Active(s.entities, c) THEN [s EXCEPT !.ok = FALSE]
    ELSE IF c.op = "create"
         THEN [s EXCEPT !.entities[s.ids] = c.value, !.ids = @ + 1]
         ELSE [s EXCEPT !.entities[c.id] = c.value,
                        !.retired = IF c.op = "delete" THEN @ \cup {c.id} ELSE @]

(* from_dict(to_dict(model)) keeps the allocators and refuses a document   *)
(* that is not valid as a whole.                                           *)
Clone(content, ids) ==
    [ok |-> ValidContent(content), entities |-> content.entities,
     retired |-> content.retired, ids |-> ids]

(* The clone after each command of the batch. *)
Runs(clone, b) ==
    LET run[k \in 0..Len(b)] ==
            IF k = 0 THEN clone ELSE Staged(run[k - 1], b[k])
    IN  run

(* _execute_sequence on a clone, whose own commit validates what the batch *)
(* wrote.                                                                  *)
Executed(clone, b) ==
    LET end == Runs(clone, b)[Len(b)]
    IN  [end EXCEPT !.ok = @ /\ \A i \in Ids : end.entities[i] \notin BadValues]

Preview(b) == Executed(Clone(Draft, nextId), b)
-----------------------------------------------------------------------------
(* plan_commands *)

(* Freezes active handles, previews, and binds the plan to the revision,   *)
(* also when that revision belongs to an open transaction or to a commit   *)
(* whose hooks are running.                                                *)
PlanCommands(b) ==
    /\ plan = NoPlan \* bound: one plan
    /\ app = NoApplication \/ Notifying
    /\ Fits(b)
    /\ Preview(b).ok
    /\ plan' = [revision |-> revision, batch |-> b,
                atRest |-> stage = "idle", basis |-> Draft,
                preview |-> Preview(b), ids |-> nextId]
    /\ UNCHANGED <<vars, app, ledger>>

-----------------------------------------------------------------------------
(* apply_plan *)

Digest(p) == <<p.revision, p.batch>>

(* Mutant of Accepted: relies on the ledger alone. *)
AcceptedOnce(p) == Digest(p) \notin ledger

Accepted(p) ==
    /\ p.revision = revision
    /\ Digest(p) \notin ledger

(* Mutant of Preflight: the plan's own preview is thought to be enough. *)
PreflightSkipped(b) == Len(b) > 0

(* _preflight_application *)
Preflight(b) == Preview(b).ok

(* The checks, the preflight and the entry into the transaction, nested    *)
(* when the caller has one open.  A refusal changes nothing.               *)
BeginApply ==
    /\ plan # NoPlan
    /\ app = NoApplication
    /\ Fits(plan.batch)
    /\ Accepted(plan)
    /\ Preflight(plan.batch)
    /\ EnterOuter \/ EnterNested
    /\ app' = [plan |-> plan, next |-> 1, outer |-> stage = "idle",
               content |-> Draft, revision |-> revision, ids |-> nextId]
    /\ UNCHANGED <<plan, ledger>>

Running == app # NoApplication /\ stage = "open" /\ app.next > 0

Execute(c) ==
    \/ c.op = "create" /\ AddEntity(c.value)
    \/ c.op = "change" /\ PutEntity(c.id, c.value)
    \/ c.op = "delete" /\ RemoveEntity(c.id)

(* One command; its exception leaves the transaction and apply_plan. *)
ApplyCommand ==
    /\ Running
    /\ app.next <= Len(app.plan.batch)
    /\ LET c == app.plan.batch[app.next]
       IN  IF Active(entities, c)
           THEN Execute(c) /\ app' = [app EXCEPT !.next = @ + 1]
           ELSE (ExitFailing(TRUE) \/ ExitNested(TRUE)) /\ app' = NoApplication
    /\ UNCHANGED <<plan, ledger>>

(* Leaving `with model.transaction()`; next is 0 once the batch is done. *)
EndBatch ==
    /\ Running
    /\ app.next > Len(app.plan.batch)
    /\ IF depth = 1 /\ ~Committable
       THEN ExitFailing(FALSE) /\ app' = NoApplication
       ELSE /\ ExitCommitting \/ ExitUnchanged \/ ExitNested(FALSE)
            /\ app' = [app EXCEPT !.next = 0]
    /\ UNCHANGED <<plan, ledger>>

(* The ChangeSet is compared with the revisions: INTERNAL_ERROR, or the    *)
(* plan is marked.  Inside a caller's transaction last_change_set is an    *)
(* older one; it passes for this one when nothing changed under it, and    *)
(* then only the ApplyResult, made after the mark, is refused.             *)
ConcludeApply ==
    /\ app # NoApplication
    /\ app.next = 0
    /\ ~Notifying
    /\ ledger' = IF lastChange.before = app.revision /\ lastChange.after = revision
                 THEN ledger \cup {Digest(app.plan)} ELSE ledger
    /\ app' = NoApplication
    /\ UNCHANGED <<vars, plan>>

-----------------------------------------------------------------------------
(* Hooks, and the caller between applications *)

(* What a hook raises past `except Exception` also ends apply_plan. *)
Notify ==
    \/ /\ HookReturns \/ HookRaises \/ HookInterruptsNotice \/ FinishHooks
       /\ UNCHANGED planVars
    \/ /\ HookInterruptsCommit
       /\ app' = NoApplication
       /\ UNCHANGED <<plan, ledger>>

CallerStep ==
    \/ EnterOuter
    \/ EnterNested
    \/ \E failed \in BOOLEAN : ExitNested(failed)
    \/ Edit
    \/ RequestExactRollback
    \/ \E error \in BOOLEAN : ExitFailing(error)
    \/ ExitUnchanged
    \/ ExitCommitting
    \/ \E s \in Settings : SetDocumentSettings(s)
    \/ TopologySnapshot
    \/ RestoreTopology

Caller ==
    /\ app = NoApplication
    /\ CallerStep
    /\ UNCHANGED planVars

PlanNext ==
    \/ \E b \in Batches : PlanCommands(b)
    \/ BeginApply
    \/ ApplyCommand
    \/ EndBatch
    \/ ConcludeApply
    \/ Notify
    \/ Caller

(* Hooks are called until the loop ends, as in Transactions. *)
PlanSpec == PlanInit /\ [][PlanNext]_allVars /\ WF_allVars(Notify)

-----------------------------------------------------------------------------
(* Properties *)

(* The revision is all that ties a plan to its document: whatever was      *)
(* tried, rolled back, interrupted in a hook, restored or set in between,  *)
(* at the revision of a plan made at rest the document is the plan's.      *)
RevisionNamesContent ==
    plan # NoPlan /\ plan.atRest /\ stage = "idle" /\ plan.revision = revision
        => Draft = plan.basis

(* A plan made at rest and marked as applied at rest has published, under  *)
(* the next revision, what its preview showed, up to the identifiers of    *)
(* the entities it made: failed transactions may have used up the others.  *)
PreviewIsPublished ==
    [][ledger' # ledger /\ app.outer /\ app.plan.atRest =>
         LET p == app.plan
             known == 1..(p.ids - 1)
         IN  /\ revision = p.revision + 1
             /\ \A i \in known : entities[i] = p.preview.entities[i]
             /\ Cardinality(Live(entities)) = Cardinality(Live(p.preview.entities))
             /\ retired \cap known = p.preview.retired \cap known
             /\ settings = p.basis.settings]_allVars

(* "Execute on an unpublished exact clone before touching live             *)
(* allocators" (_preflight_application): an application begun at rest that *)
(* does not succeed leaves document, revision and, unless a hook           *)
(* interrupted its commit, the allocator as they were.                     *)
RefusalsLeaveNoTrace ==
    [][app # NoApplication /\ app' = NoApplication /\ app.outer
            /\ ledger' = ledger =>
         /\ Draft' = app.content
         /\ revision' = app.revision
         /\ stage # "hooks" => nextId' = app.ids]_allVars

=============================================================================
