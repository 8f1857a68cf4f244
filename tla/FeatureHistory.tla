--------------------------- MODULE FeatureHistory ---------------------------
(***************************************************************************)
(* The ordered modelling history of a geometry model (features.py): edits  *)
(* of the feature records, and their regeneration into geometry, which     *)
(* replays as little as it can - the dirty suffix on a clone of the live   *)
(* geometry - and falls back to a full replay from the baseline.           *)
(*                                                                         *)
(* Three kinds of feature stand for the three ways a kind is scheduled:    *)
(*   "point"     additive, no inputs (geometry.point)                      *)
(*   "line"      additive, two point inputs (geometry.line)                *)
(*   "transform" mutating: moves the closure of its input in place and has *)
(*               that input as its output (geometry.transform)             *)
(* Inputs are FeatureOutputRefs, named by the feature they come from.      *)
(***************************************************************************)
EXTENDS Materialization

CONSTANTS
    Positions,    \* where a point feature can be put
    Moves,        \* the matrices of a transform feature
    NoParameter,  \* the parameter of a line
    MaxFeatures,  \* bound: features ever appended
    MaxEdits,     \* bound: edits of the history
    MaxId         \* bound: no regeneration starts at this identifier

ASSUME FeatureHistoryAssumption ==
    /\ MaxFeatures \in Nat /\ MaxEdits \in Nat /\ MaxId \in Nat
    /\ Positions \cap Moves = {}
    /\ NoParameter \notin Positions \cup Moves

VARIABLES
    records,   \* _records
    next_id,   \* _next_id
    baseline,  \* _baseline: NoBaseline or a materialization
    geometry,  \* the owner's live topology
    report,    \* the last RegenerationReport, "none" after an edit
    edits,     \* edits so far
    suspects   \* history variable: the two known ways astray taken since the last
               \* full replay, see MarkLost and StartsBelow

vars == <<records, next_id, baseline, geometry, report, edits, suspects>>

Features == 1..MaxFeatures
Parameters == [point |-> Positions, line |-> {NoParameter}, transform |-> Moves]
Kinds == DOMAIN Parameters
NoOutput == 0

(* _baseline is None: no allocator stands at 0. *)
NoBaseline == [Empty EXCEPT !.next = 0]

Record == [id : Features, kind : Kinds, parameter : UNION {Parameters[k] : k \in Kinds},
           inputs : UNION {[1..n -> Features] : n \in 0..2},
           dependencies : SUBSET Features, suppressed : BOOLEAN,
           state : {"pending", "ok", "suppressed", "blocked"},
           fullReplay : BOOLEAN,   \* diagnostic is _FULL_REPLAY_DIAGNOSTIC
           output : Nat]

Members(s) == {s[i] : i \in DOMAIN s}

-----------------------------------------------------------------------------
(* Reading the records.                                                    *)

Position(rs, f) == CHOOSE i \in DOMAIN rs : rs[i].id = f
Ids(rs) == {rs[i].id : i \in DOMAIN rs}
DependenciesOf(r) == r.dependencies \cup Members(r.inputs)

(* validate: a record depends on earlier records only. *)
Valid(rs) ==
    \A i \in DOMAIN rs : DependenciesOf(rs[i]) \subseteq {rs[j].id : j \in 1..(i - 1)}

(* dependents(transitive=True) *)
Dependents(f) ==
    LET users(S) == {records[i].id : i \in {j \in DOMAIN records :
                         DependenciesOf(records[j]) \cap S # {}}}
        grown[n \in 0..Len(records)] ==
            IF n = 0 THEN users({f}) ELSE grown[n - 1] \cup users(grown[n - 1])
    IN grown[Len(records)]

CleanState(r) == IF r.suppressed THEN "suppressed" ELSE "ok"
Dirty(rs) == {i \in DOMAIN rs : rs[i].state # CleanState(rs[i])}
Marked(rs) == \E i \in DOMAIN rs : rs[i].fullReplay
Earliest(S) == CHOOSE i \in S : \A j \in S : i <= j

(* The ports of the executors: a line joins points, a transform takes one  *)
(* feature of any kind.                                                    *)
InputChoices(kind, ids) ==
    CASE kind = "point" -> {<<>>}
      [] kind = "line" -> ids \X ids
      [] kind = "transform" -> {<<f>> : f \in ids}

(* Lines and transforms depend on their inputs already; a dependency of    *)
(* its own is drawn for points only.                                       *)
DependencyChoices(kind, ids) ==
    {{}} \cup (IF kind = "point" THEN {{f} : f \in ids} ELSE {})

-----------------------------------------------------------------------------
(* Executing one record on a working copy w.                               *)

(* What one input resolves to; nothing unless its feature is ok. *)
InputEntities(w, rs, f) ==
    LET source == rs[Position(rs, f)] IN
    IF source.state # "ok" \/ source.output = NoOutput THEN {}
    ELSE Resolve(w, source.output)

Blocked(w, rs, r) ==
    \/ \E d \in r.dependencies : rs[Position(rs, d)].state # "ok"
    \/ \E f \in Members(r.inputs) : InputEntities(w, rs, f) = {}

Refused(w) == [ok |-> FALSE, work |-> w, output |-> NoOutput]
Made(w, e) == [ok |-> TRUE, work |-> w, output |-> e]

(* FeatureRegistry.execute with the built-in executors. *)
Execute(w, rs, r) ==
    LET input == [i \in DOMAIN r.inputs |-> Only(InputEntities(w, rs, r.inputs[i]))] IN
    CASE r.kind = "point" -> Made(Add(w, Point(r.parameter, <<>>)), w.next)
      [] r.kind = "line" ->
             IF \/ \E i \in DOMAIN input : IsEdge(w, input[i])
                \/ PointPayload(w, input[1]) = PointPayload(w, input[2])
             THEN Refused(w)
             ELSE Made(Add(w, Line(input[1], input[2])), w.next)
      [] r.kind = "transform" -> Made(Shift(w, {input[1]}, r.parameter), input[1])

(* The state of a replay in progress: the records and the working copy,    *)
(* and what an incremental replay will retire, discard and rebind.         *)
Replaying(rs, w) ==
    [records |-> rs, work |-> w, retire |-> {}, discard |-> {},
     roles |-> NoBindings, ok |-> TRUE]

Settle(s, i, state, output) ==
    [s EXCEPT !.records[i] =
        [@ EXCEPT !.state = state, !.output = output, !.fullReplay = FALSE]]

SameOutput(g, old, w, new) ==
    \E o \in Resolve(g, old) : Payload(g, o) = Payload(w, new)

(* Mutant of KeepsBinding: every replayed output is a new one. *)
KeepsNoBinding(g, old, w, new, forceNew) == FALSE

KeepsBinding(g, old, w, new, forceNew) ==
    ~forceNew /\ old # NoOutput /\ SameOutput(g, old, w, new)

Retiring(s, old) ==
    [s EXCEPT !.retire =
        @ \cup (IF old = NoOutput THEN {} ELSE Closure(geometry, {old}))]

(* An unchanged output keeps its identifier, and the roles of its copy lead *)
(* to it; another one replaces what the record had.                        *)
KeepOutput(s, i, x, roles) ==
    [Settle(s, i, "ok", records[i].output) EXCEPT
        !.work = x.work,
        !.discard = @ \cup Closure(x.work, {x.output}),
        !.roles = roles,
        !.ok = roles.ok]

RenewOutput(s, i, x) ==
    Retiring([Settle(s, i, "ok", x.output) EXCEPT !.work = x.work], records[i].output)

Settled(s, i, x, forceNew) ==
    LET old == records[i].output IN
    IF ~x.ok THEN [s EXCEPT !.ok = FALSE]
    ELSE IF KeepsBinding(geometry, old, x.work, x.output, forceNew)
    THEN KeepOutput(s, i, x, BindRoles(s.roles, x.work, x.output, geometry, old))
    ELSE RenewOutput(s, i, x)

(* One round of the loop of _regenerate_incremental. *)
IncrementalStep(s, i, forceNew) ==
    LET r == s.records[i] IN
    IF ~s.ok THEN s
    ELSE IF r.suppressed
    THEN Retiring(Settle(s, i, "suppressed", NoOutput), records[i].output)
    ELSE IF Blocked(s.work, s.records, r)
    THEN Retiring(Settle(s, i, "blocked", NoOutput), records[i].output)
    ELSE Settled(s, i, Execute(s.work, s.records, r), forceNew)

Replayed(s, i, x) ==
    IF ~x.ok THEN [s EXCEPT !.ok = FALSE]
    ELSE [Settle(s, i, "ok", x.output) EXCEPT !.work = x.work]

(* One round of the loop of the full replay. *)
FullStep(s, i) ==
    LET r == s.records[i] IN
    IF ~s.ok THEN s
    ELSE IF r.suppressed THEN Settle(s, i, "suppressed", NoOutput)
    ELSE IF Blocked(s.work, s.records, r) THEN Settle(s, i, "blocked", NoOutput)
    ELSE Replayed(s, i, Execute(s.work, s.records, r))

IncrementalReplay(start, forceNew) ==
    LET after[i \in (start - 1)..Len(records)] ==
            IF i = start - 1 THEN Replaying(records, geometry)
            ELSE IncrementalStep(after[i - 1], i, forceNew)
    IN after[Len(records)]

FullReplay(rs, base, next) ==
    LET unmade == [i \in DOMAIN rs |-> [rs[i] EXCEPT !.output = NoOutput]]
        after[i \in 0..Len(rs)] ==
            IF i = 0 THEN Replaying(unmade, Reserved(base, next))
            ELSE FullStep(after[i - 1], i)
    IN after[Len(rs)]

-----------------------------------------------------------------------------
(* From the old outputs to the new ones.                                   *)

Transition(b, old, w, new) ==
    LET before == IF old = NoOutput THEN {} ELSE Resolve(geometry, old)
        after == IF new = NoOutput THEN {} ELSE Resolve(w, new)
    IN  IF ~b.ok \/ before = {} THEN b
        ELSE LET o == Only(before) IN
             IF after = {} THEN [b EXCEPT !.map = Merged(Single(o, {}), @)]
             ELSE IF o \in DOMAIN w.hist /\ w.hist[o] = after
             THEN [b EXCEPT !.map = Merged(Single(o, after), @)]
             ELSE BindRoles(b, geometry, o, w, Only(after))

Transitions(rs, w) ==
    LET bound[i \in 0..Len(records)] ==
            IF i = 0 THEN NoBindings
            ELSE Transition(bound[i - 1], records[i].output, w, rs[i].output)
    IN bound[Len(records)]

(* Everything the new outputs and inputs stand on stays. *)
Kept(rs, w) ==
    Closure(w, {rs[i].output : i \in DOMAIN rs} \ {NoOutput})

(* An old entity may not be led away from while something preserved still  *)
(* stands on it.                                                           *)
SharedConflict(transitions, kept) ==
    \E o \in DOMAIN transitions : o \in kept /\ o \notin transitions[o]

(* Mutant of Disposable: shared entities go too. *)
DisposeOfAll(S, kept) == S

Disposable(S, kept) == S \ kept

Published(rs, w) ==
    /\ records' = rs
    /\ geometry' = w
    /\ report' = "ok"

Failed(why) ==
    /\ report' = why
    /\ UNCHANGED <<records, geometry, baseline, suspects>>

Modifiers(start) ==
    {i \in start..Len(records) : records[i].kind = "transform" /\ ~records[i].suppressed}

(* The features that materialized modifiers of the suffix modify. *)
Producers(start) ==
    UNION {Members(records[i].inputs) :
              i \in {j \in Modifiers(start) : records[j].output # NoOutput}}

(* A modifier that the replay repeats or takes back has already moved, in   *)
(* place, what the clean prefix stands on, although the walk back reaches  *)
(* the producers: the points of a line stay when only the line is replayed, *)
(* and a producer behind a modifier that is not materialized is not seen.  *)
StartsBelow(start) ==
    LET modified == {records[i].output : i \in {j \in start..Len(records) :
                         records[j].kind = "transform" /\ records[j].output # NoOutput}}
        prefix == {records[i].output : i \in {j \in 1..(start - 1) :
                       records[j].id \notin Producers(start)}} \ {NoOutput}
    IN  IF Closure(geometry, modified) \cap Closure(geometry, prefix) # {}
        THEN {"prefix"} ELSE {}

(* What lineage gains: the roles of kept outputs and the transitions that  *)
(* are not recorded yet.                                                   *)
Entries(s, t) ==
    Merged(s.roles.map, [o \in DOMAIN t.map \ DOMAIN s.work.hist |-> t.map[o]])

RecordedBefore(s, t) ==
    \A o \in DOMAIN t.map \cap DOMAIN s.work.hist : Resolve(s.work, o) = t.map[o]

(* First the copies go, then what was replaced. *)
Trimmed(w, discard, retire) == RemoveExact(RemoveExact(w, discard), retire)

Trimmable(w, discard, retire) ==
    /\ Removable(w, discard)
    /\ Removable(RemoveExact(w, discard), retire)

Conclude(s, t, kept, start) ==
    LET discard == Disposable(s.discard, kept)
        retire == Disposable(s.retire, kept)
        trimmed == Trimmed(s.work, discard, retire)
    IN  IF ~s.ok THEN Failed("feature")
        ELSE IF t.ok /\ SharedConflict(t.map, kept) THEN Failed("shared")
        ELSE IF /\ t.ok /\ RecordedBefore(s, t)
                /\ Trimmable(s.work, discard, retire)
                /\ Recordable(trimmed, Entries(s, t))
             THEN /\ Published(s.records, Recorded(trimmed, Entries(s, t)))
                  /\ suspects' = suspects \cup StartsBelow(start)
                  /\ UNCHANGED baseline
             ELSE Failed("lineage")

Replace(s, start) ==
    Conclude(s, Transitions(s.records, s.work), Kept(s.records, s.work), start)

RegenerateIncremental(start, forceNew) ==
    Replace(IncrementalReplay(start, forceNew), start)

ReplaceAll(s, base) ==
    LET t == Transitions(s.records, s.work)
        entries == Merged(geometry.hist, t.map)
    IN  IF ~s.ok THEN Failed("feature")
        ELSE IF t.ok /\ Recordable(s.work, entries)
             THEN /\ Published(s.records, Recorded(s.work, entries))
                  /\ baseline' = base
                  /\ suspects' = {}
             ELSE Failed("lineage")

RegenerateFully ==
    LET base == IF baseline = NoBaseline THEN geometry ELSE baseline IN
    ReplaceAll(FullReplay(records, base, geometry.next), base)

(* Mutant of IncrementalStart: starts at the dirty record itself. *)
DirtyStart(dirty) == dirty

(* _incremental_start: walks back to the producers of the inputs of every  *)
(* materialized modifier in the suffix.                                    *)
IncrementalStart(dirty) ==
    LET sources(start) == {Position(records, f) : f \in Producers(start)}
        walk[start \in 1..(Len(records) + 1)] ==
            LET earlier == Earliest({start} \cup sources(start)) IN
            IF earlier = start THEN start ELSE walk[earlier]
    IN walk[dirty]

RegenerateFrom(start, forceNew) ==
    IF Marked(records) \/ (start = 1 /\ forceNew)
    THEN RegenerateFully
    ELSE RegenerateIncremental(start, forceNew)

Regenerate ==
    /\ geometry.next < MaxId
    /\ LET dirty == Dirty(records)
           start == IncrementalStart(IF dirty = {} THEN 1 ELSE Earliest(dirty))
       IN IF dirty = {} /\ records # <<>>
          THEN /\ report' = "ok"
               /\ UNCHANGED <<records, geometry, baseline, suspects>>
          ELSE RegenerateFrom(start, Modifiers(start) # {})
    /\ UNCHANGED <<next_id, edits>>

-----------------------------------------------------------------------------
(* Edits of the history.  _apply_mutation puts the old state back when the *)
(* edited history is not valid, so an invalid edit is no step.             *)

Init ==
    /\ records = <<>>
    /\ next_id = 1
    /\ baseline = NoBaseline
    /\ geometry = Empty
    /\ report = "none"
    /\ edits = 0
    /\ suspects = {}

(* An edit clears the mark of an earlier removal, or the removal leaves no *)
(* record to mark.                                                         *)
MarkLost(rs) == (Marked(records) /\ ~Marked(rs)) \/ rs = <<>>

ApplyMutation(rs) ==
    /\ edits < MaxEdits
    /\ Valid(rs)
    /\ rs # records
    /\ records' = rs
    /\ report' = "none"
    /\ edits' = edits + 1
    /\ suspects' = suspects \cup (IF MarkLost(rs) THEN {"mark"} ELSE {})
    /\ UNCHANGED <<baseline, geometry>>

Pending(r) == [r EXCEPT !.state = "pending", !.fullReplay = FALSE]

(* Not counted as an edit: it happens at most once. *)
CaptureBaseline ==
    /\ baseline = NoBaseline
    /\ baseline' = geometry
    /\ report' = "none"
    /\ UNCHANGED <<records, next_id, geometry, edits, suspects>>

(* A feature appended suppressed is one appended and then suppressed. *)
AppendFeature ==
    /\ next_id <= MaxFeatures
    /\ \E kind \in Kinds :
       \E parameter \in Parameters[kind], inputs \in InputChoices(kind, Ids(records)) :
       \E dependencies \in DependencyChoices(kind, Ids(records)) :
          ApplyMutation(Append(records,
              [id |-> next_id, kind |-> kind, parameter |-> parameter,
               inputs |-> inputs, dependencies |-> dependencies,
               suppressed |-> FALSE, state |-> "pending", fullReplay |-> FALSE,
               output |-> NoOutput]))
    /\ next_id' = next_id + 1

(* The records but those of the features fs, in their order. *)
Dropped(rs, fs) ==
    LET rest[i \in 0..Len(rs)] ==
            IF i = 0 THEN <<>>
            ELSE IF rs[i].id \in fs THEN rest[i - 1]
            ELSE Append(rest[i - 1], rs[i])
    IN rest[Len(rs)]

(* Mutant of MarkRemoval: the records that remain look clean. *)
MarkNothing(rs, earliest) == rs

MarkRemoval(rs, earliest) ==
    IF rs = <<>> THEN rs
    ELSE [rs EXCEPT ![IF earliest <= Len(rs) THEN earliest ELSE Len(rs)] =
            [@ EXCEPT !.state = "pending", !.fullReplay = TRUE]]

Remove(f) ==
    LET dependents == Dependents(f)
        removed == {f} \cup dependents
        earliest == Earliest({Position(records, g) : g \in removed})
    IN  /\ ApplyMutation(MarkRemoval(
               Dropped(records, removed), earliest))
        /\ UNCHANGED next_id

SetSuppressed(f) ==
    LET i == Position(records, f) IN
    /\ ApplyMutation([records EXCEPT ![i] =
           [Pending(records[i]) EXCEPT !.suppressed = ~@]])
    /\ UNCHANGED next_id

Rename(f) ==
    LET i == Position(records, f) IN
    /\ ApplyMutation([records EXCEPT ![i] = Pending(records[i])])
    /\ UNCHANGED next_id

UpdateParameters(f) ==
    LET i == Position(records, f) IN
    /\ \E parameter \in Parameters[records[i].kind] \ {records[i].parameter} :
           ApplyMutation([records EXCEPT ![i] =
               [Pending(records[i]) EXCEPT !.parameter = parameter]])
    /\ UNCHANGED next_id

UpdateInputs(f) ==
    LET i == Position(records, f) IN
    /\ \E inputs \in InputChoices(records[i].kind, Ids(records)) \ {records[i].inputs} :
           ApplyMutation([records EXCEPT ![i] = [Pending(records[i]) EXCEPT !.inputs = inputs]])
    /\ UNCHANGED next_id

Move(f) ==
    LET old == Position(records, f)
        rest == Dropped(records, {f})
    IN  /\ \E target \in DOMAIN records \ {old} :
               ApplyMutation(SubSeq(rest, 1, target - 1)
                             \o <<Pending(records[old])>>
                             \o SubSeq(rest, target, Len(rest)))
        /\ UNCHANGED next_id

Next ==
    \/ CaptureBaseline
    \/ AppendFeature
    \/ \E f \in Ids(records) :
           \/ Remove(f) \/ SetSuppressed(f) \/ Rename(f)
           \/ UpdateParameters(f) \/ UpdateInputs(f) \/ Move(f)
    \/ Regenerate

Spec == Init /\ [][Next]_vars

-----------------------------------------------------------------------------
(* Properties.                                                             *)

(* The records are well formed and depend on earlier records only, and the *)
(* live geometry is one restore_topology accepts: regeneration publishes   *)
(* lines with live ends, and lineage without dangling or circular entries. *)
TypeOK ==
    /\ records \in Seq(Record)
    /\ next_id \in 1..(MaxFeatures + 1)
    /\ edits \in 0..MaxEdits
    /\ report \in {"none", "ok", "feature", "shared", "lineage"}
    /\ suspects \subseteq {"mark", "prefix"}
    /\ Valid(records)
    /\ ValidHistory(geometry)
    /\ \A e \in Live(geometry) : e < geometry.next /\ Tips(geometry, e) \subseteq Live(geometry)

(* regenerate promises to "replay the history from its base                *)
(* materialization", and _FULL_REPLAY_DIAGNOSTIC that a changed structure  *)
(* gets a full replay: after a regeneration that succeeds, and whenever no *)
(* record is dirty, the outputs are what the definitions alone would make. *)
OutputsAreIntended ==
    report = "ok" \/ (Dirty(records) = {} /\ records # <<>>) =>
        LET intended == FullReplay(records, Empty, 1) IN
        /\ intended.ok
        /\ \A i \in DOMAIN records :
            LET made == intended.records[i] IN
            /\ records[i].state = made.state
            /\ records[i].output = NoOutput <=> made.output = NoOutput
            /\ made.output # NoOutput =>
                 \E o \in Resolve(geometry, records[i].output) :
                     Payload(geometry, o) = Payload(intended.work, made.output)

(* Replaying only a suffix, on the live geometry, keeping unchanged outputs *)
(* and retiring replaced ones gives the outputs of a replay from nothing,  *)
(* except down the two paths `suspects` records.                           *)
IntendedUnlessSuspect == suspects = {} => OutputsAreIntended

(* "Clean prefix entities stay in the clone": but for the way of           *)
(* StartsBelow, nothing is wrong with the history, and yet a modifier of a *)
(* line comes twice over the points of the line, or stays when it is gone. *)
ModifiersComeOnce == suspects \subseteq {"prefix"} => OutputsAreIntended

Outputs == {records[i].output : i \in DOMAIN records} \ {NoOutput}
Owned == Closure(geometry, Outputs)

(* Nothing outlives its feature: what suppressed, blocked or replaced      *)
(* features made, and the copies an incremental replay made for comparison,*)
(* are gone from the published geometry.                                   *)
NoOrphans ==
    /\ "mark" \notin suspects
    /\ ~Marked(records)
    /\ baseline \in {NoBaseline, Empty}
    => Live(geometry) = Owned

Modified == \E i \in DOMAIN records : records[i].kind = "transform"

(* A materialized line whose inputs now name other points. *)
Redirected ==
    \E i \in DOMAIN records :
        /\ records[i].kind = "line"
        /\ \E e \in Resolve(geometry, records[i].output) :
             LET input == records[i].inputs IN
             [k \in DOMAIN input |-> records[Position(records, input[k])].output]
                 # <<geometry.ents[e].from, geometry.ents[e].to>>

(* The checks of regenerate refuse no ordinary history: the conflict and   *)
(* lineage errors come only from transforms, from lines led to other       *)
(* points, from a baseline that already held the geometry, or from         *)
(* geometry a removed feature left behind.                                 *)
RefusalsExplained ==
    /\ report = "shared" => Redirected \/ Modified
    /\ report = "lineage" =>
           \/ Redirected \/ Modified
           \/ baseline # Empty
           \/ Live(geometry) # Owned

Regenerated == report' = "ok" /\ edits' = edits

(* An entity but for the transforms it has been through. *)
Unmoved(entity) ==
    IF entity.kind = "vertex" THEN Point(entity.at, <<>>) ELSE entity

FromBaseline(e, entity) ==
    /\ baseline # NoBaseline
    /\ e \in Live(baseline)
    /\ Unmoved(entity) = Unmoved(baseline.ents[e])

(* "A stale EntityRef can never be silently reused for a different output": *)
(* an identifier that stays live names the same entity, and every other    *)
(* live identifier is above the old counter, also after a full replay from *)
(* a baseline whose own counter is lower - or a full replay has brought an *)
(* entity of the baseline back, under the identifier it has there.         *)
NoIdReuse ==
    [][\A e \in Live(geometry)' :
        IF e \in Live(geometry)
        THEN Unmoved(geometry'.ents[e]) = Unmoved(geometry.ents[e])
        ELSE e >= geometry.next \/ FromBaseline(e, geometry'.ents[e])]_vars

(* Without transforms or a full replay, a feature gets a new identifier    *)
(* exactly when its output has changed, a line's end points included:      *)
(* references to what an edit did not touch stay good.                     *)
OnlyChangedOutputsMove ==
    [][Regenerated /\ ~Modified /\ (\A i \in DOMAIN records : ~records[i].fullReplay) =>
        \A i \in DOMAIN records :
            LET old == records[i].output
                new == records'[i].output
            IN old # NoOutput /\ new # NoOutput =>
               (old = new <=> Payload(geometry, old) = Payload(geometry', new))]_vars

(* A reference a caller still holds to an old output resolves to that      *)
(* feature's new output and to nothing else; to nothing at all only where  *)
(* another feature had the same entity as its output.                      *)
OldOutputsLead ==
    [][Regenerated =>
        \A i \in DOMAIN records :
            LET old == records[i].output
                new == records'[i].output
                lead == Resolve(geometry', old)
            IN old # NoOutput /\ new # NoOutput =>
               /\ lead \subseteq Resolve(geometry', new)
               /\ lead = {} => \E j \in DOMAIN records \ {i} : records[j].output = old]_vars

=============================================================================
