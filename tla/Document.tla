------------------------------ MODULE Document ------------------------------
(***************************************************************************)
(* What a geometry document promises its readers, whatever the owner does  *)
(* to keep the promise: at every moment there is one published content, it *)
(* is valid, it is replaced as a whole, and a new content always comes     *)
(* with a new, larger revision.  An edit works on a draft that nobody      *)
(* else's content depends on until it is committed.                        *)
(*                                                                         *)
(* Transactions.tla (the undo journal of GeometryModel) implements this.   *)
(***************************************************************************)
EXTENDS Naturals

CONSTANTS
    Contents,       \* every content a document or a draft can have
    ValidContents,  \* the contents that may be published
    InitialContents,\* the contents a new model can have
    NoDraft         \* the value of draft when no edit is open

VARIABLES
    doc,       \* the published content
    draft,     \* the content being edited, or NoDraft
    revision   \* names the published content

vars == <<doc, draft, revision>>

Init ==
    /\ doc \in InitialContents
    /\ draft = NoDraft
    /\ revision = 0

Begin ==
    /\ draft = NoDraft
    /\ draft' = doc
    /\ UNCHANGED <<doc, revision>>

Edit ==
    /\ draft # NoDraft
    /\ draft' \in Contents
    /\ UNCHANGED <<doc, revision>>

Abort ==
    /\ draft # NoDraft
    /\ draft' = NoDraft
    /\ UNCHANGED <<doc, revision>>

(* A commit that changed nothing may keep the revision. *)
Commit ==
    /\ draft # NoDraft
    /\ draft \in ValidContents
    /\ doc' = draft
    /\ draft' = NoDraft
    /\ \/ revision' = revision + 1
       \/ doc' = doc /\ revision' = revision

(* Settings edits and restored snapshots are published without a draft. *)
Replace ==
    /\ draft = NoDraft
    /\ doc' \in ValidContents
    /\ revision' = revision + 1
    /\ UNCHANGED draft

Next == Begin \/ Edit \/ Abort \/ Commit \/ Replace

Spec == Init /\ [][Next]_vars

=============================================================================
