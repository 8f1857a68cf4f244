-------------------------- MODULE Materialization --------------------------
(***************************************************************************)
(* The part of a geometry model that regeneration works with, as a value:  *)
(* points and lines by identifier, the replacement history that leads from *)
(* retired identifiers to surviving ones, and the identifier counter.      *)
(*                                                                         *)
(*   ents  identifier -> entity                                            *)
(*   hist  retired identifier -> its replacements (none or one here,       *)
(*         because every modelled feature has one output)                  *)
(*   next  the next identifier to allocate                                 *)
(*                                                                         *)
(* Regeneration edits private copies of it, so everything here is an       *)
(* operator on such values.  One counter stands for the counters per kind. *)
(***************************************************************************)
EXTENDS Naturals, Sequences, FiniteSets

Empty == [ents |-> <<>>, hist |-> <<>>, next |-> 1]

Point(at, moves) == [kind |-> "vertex", at |-> at, moves |-> moves]
Line(from, to) == [kind |-> "edge", from |-> from, to |-> to]

Live(g) == DOMAIN g.ents
IsEdge(g, e) == g.ents[e].kind = "edge"
Tips(g, e) == IF IsEdge(g, e) THEN {g.ents[e].from, g.ents[e].to} ELSE {}

Only(S) == CHOOSE x \in S : TRUE

Without(f, S) == [x \in DOMAIN f \ S |-> f[x]]
Single(x, y) == [z \in {x} |-> y]

(* f, and g where f says nothing. *)
Merged(f, g) ==
    [x \in DOMAIN f \cup DOMAIN g |-> IF x \in DOMAIN f THEN f[x] ELSE g[x]]

(* The identifiers reached from S through replacements. *)
Descend(hist, S) ==
    LET reach[n \in 0..Cardinality(DOMAIN hist)] ==
            IF n = 0 THEN S
            ELSE LET before == reach[n - 1] IN
                 before \cup UNION {hist[x] : x \in before \cap DOMAIN hist}
    IN reach[Cardinality(DOMAIN hist)]

(* resolve_ref: the surviving descendants of a reference, itself if live.  *)
Resolve(g, e) == (Descend(g.hist, {e}) \ DOMAIN g.hist) \cap Live(g)

(* _entity_closure_refs: what the references resolve to, and the end       *)
(* points of those lines.                                                  *)
Closure(g, S) ==
    LET found == UNION {Resolve(g, e) : e \in S} IN
    found \cup UNION {Tips(g, e) : e \in found}

(* _exact_entity_payload: an entity up to its identifiers. *)
PointPayload(g, v) == <<g.ents[v].at, g.ents[v].moves>>
Payload(g, e) ==
    IF IsEdge(g, e)
    THEN <<PointPayload(g, g.ents[e].from), PointPayload(g, g.ents[e].to)>>
    ELSE PointPayload(g, e)

Add(g, entity) ==
    [g EXCEPT !.ents = Merged(@, Single(g.next, entity)), !.next = @ + 1]

(* Mutant of Reserved: the old identifiers are free again. *)
NotReserved(g, next) == g

(* reserve_id_state: allocators only move up. *)
Reserved(g, next) == [g EXCEPT !.next = IF next > @ THEN next ELSE @]

(* transform: every point of the closure moves in place. *)
Moved(point, move) == [point EXCEPT !.moves = Append(@, move)]

Shift(g, S, move) ==
    LET moved == {v \in Closure(g, S) : ~IsEdge(g, v)}
    IN  [g EXCEPT !.ents = [e \in Live(g) |->
            IF e \in moved THEN Moved(g.ents[e], move) ELSE g.ents[e]]]

(* remove_exact: lines before points; a point some other line still uses   *)
(* cannot be removed.                                                      *)
Removable(g, S) ==
    \A e \in Live(g) \ S : Tips(g, e) \cap S = {}
RemoveExact(g, S) == [g EXCEPT !.ents = Without(@, S)]

(* _validate_replacement_history: a retired identifier is not live, every  *)
(* replacement is live or retired in its turn, and nothing replaces itself *)
(* however long the detour.                                                *)
ValidHistory(g) ==
    \A old \in DOMAIN g.hist :
        /\ old \notin Live(g)
        /\ g.hist[old] \subseteq Live(g) \cup DOMAIN g.hist
        /\ old \notin Descend(g.hist, g.hist[old])

(* Mutant of Recorded: lineage is not extended. *)
RecordedNowhere(g, entries) == g

Recorded(g, entries) == [g EXCEPT !.hist = Merged(@, entries)]

(* record_replacements_atomic: the whole batch or nothing. *)
Recordable(g, entries) ==
    /\ \A old \in DOMAIN entries :
           IF old \in DOMAIN g.hist THEN g.hist[old] = entries[old]
           ELSE old \notin Live(g)
    /\ ValidHistory(Recorded(g, entries))

-----------------------------------------------------------------------------
(* _bind_topology_roles: the old entity leads to the new one, the ends of  *)
(* the old line to the ends of the new one; a role bound twice must agree. *)

NoBindings == [map |-> <<>>, ok |-> TRUE]

Bind(b, old, new) ==
    IF ~b.ok THEN b
    ELSE IF old \in DOMAIN b.map
         THEN IF b.map[old] = {new} THEN b ELSE [b EXCEPT !.ok = FALSE]
    ELSE IF old = new THEN b
    ELSE [b EXCEPT !.map = Merged(@, Single(old, {new}))]

BindRoles(b, gOld, old, gNew, new) ==
    IF gOld.ents[old].kind # gNew.ents[new].kind
    THEN [b EXCEPT !.ok = FALSE]
    ELSE LET b1 == Bind(b, old, new) IN
         IF b1 = b \/ ~b1.ok \/ ~IsEdge(gOld, old) THEN b1
         ELSE Bind(Bind(b1, gOld.ents[old].from, gNew.ents[new].from),
                   gOld.ents[old].to, gNew.ents[new].to)

=============================================================================
