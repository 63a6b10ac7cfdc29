---------------------------- MODULE MigrationReplay ----------------------------
(***************************************************************************)
(* reconstructModelFromMigrations (src/source/replay.ts): the schema that a*)
(* history of migrations describes, read statement by statement and never  *)
(* run.  A model is a schema; a statement is one of PlanRender.            *)
(***************************************************************************)
EXTENDS PlanRender

\* createDuplicateGapTags, for what the renderer emits with OR REPLACE.
ReplacedByCreate == RoutineKinds \cup {"view"}

\* What an ALTER TABLE is about, also when it adds or drops a constraint.
AltersTableOf(s) ==
    IF s.does \in {"add", "retype", "drop columns"} THEN s.o.key
    ELSE IF s.o.kind \in {"constraint", "rls"} THEN s.o.table
    ELSE None

\* SUPA_REPLAY_ORDER_GAP: the history cannot be read.  A DROP or a CREATE carries
\* its guard, an ALTER of something absent has none.
OrderGap(s, model) ==
    \/ AltersTableOf(s) # None /\ ~Has(model, AltersTableOf(s))
    \/ s.does = "add values" /\ ~Has(model, s.o.key)
    \/ s.does = "retype" /\ Has(model, s.o.key)
       /\ ~(s.columns \subseteq DOMAIN At(model, s.o.key).columns)
    \/ s.does = "create" /\ s.o.kind \in DropsItself /\ Has(model, s.o.key)

\* applyExtractedObject: an object that is there is replaced or kept.
ReplayCreate(o, model) ==
    IF Has(model, o.key) /\ o.kind \notin ReplacedByCreate \cup {"comment", "grant"}
    THEN model
    ELSE {p \in model : p.key # o.key} \cup {o}

\* removeOwnedObjectsAfterDrop, removeAttachedDependents
RelationKinds == {"foreign-table", "materialized-view", "table", "view"}
OwnedBy(o, model) ==
    IF o.kind \in RelationKinds THEN {p \in model : p.table = o.key} ELSE {}
AttachedTo(objects, model) ==
    {p \in model : GrantsOn(p, {o.grantId : o \in objects}) \/ CommentsOn(p, Keys(objects))}

\* applyDrop.  A constraint is deleted by applyDropConstraint, a comment and a
\* grant by the statement that undoes them, and nothing else with them.
DroppedAlone == {"constraint", "rls", "comment", "grant"}
\* Mutant of ReplayDrop: what is attached stays.
ReplayDropOwned(o, model) ==
    LET gone == {p \in model : p.key = o.key} IN
    model \ (gone \cup UNION {OwnedBy(p, model) : p \in gone})

ReplayDrop(o, model) ==
    LET gone == {p \in model : p.key = o.key}
        owned == UNION {OwnedBy(p, model) : p \in gone} IN
    IF o.kind \in DroppedAlone THEN model \ gone
    ELSE model \ (gone \cup owned \cup AttachedTo(gone \cup owned, model))

\* updateTableShape: only the shape of the table changes.
WithShape(k, columns, model) ==
    {p \in model : p.key # k} \cup {[At(model, k) EXCEPT !.columns = columns]}

\* applyAddColumn, applyAlterColumnType (mutateTableColumn)
ReplayAdd(s, old) ==
    [c \in DOMAIN old \cup s.columns |-> IF c \in DOMAIN old THEN old[c] ELSE s.o.columns[c]]
ReplayRetype(s, old) ==
    [c \in DOMAIN old |-> IF c \in s.columns THEN s.o.columns[c] ELSE old[c]]

\* removeColumnDependents: what belongs to the table and names the column.
ColumnDependentsOf(k, columns, model) ==
    {p \in model : p.table = k /\ UsesColumn(p, {<<k, c>> : c \in columns})}

\* applyDropColumn
ReplayDropColumns(s, model) ==
    LET old == At(model, s.o.key).columns IN
    WithShape(s.o.key, [c \in DOMAIN old \ s.columns |-> old[c]],
              model \ ColumnDependentsOf(s.o.key, s.columns, model))

\* applyAlterEnum hashes the values and not the statement, which no enum of a tree
\* or a catalog does.
ReplayAddValues(s, model) ==
    {p \in model : p.key # s.o.key} \cup {[s.o EXCEPT !.rest = None]}

\* applyStatement
Replay(s, model) ==
    CASE s.does = "create" -> ReplayCreate(s.o, model)
      [] s.does = "drop" -> ReplayDrop(s.o, model)
      [] s.does = "add" ->
             WithShape(s.o.key, ReplayAdd(s, At(model, s.o.key).columns), model)
      [] s.does = "retype" ->
             WithShape(s.o.key, ReplayRetype(s, At(model, s.o.key).columns), model)
      [] s.does = "drop columns" -> ReplayDropColumns(s, model)
      [] s.does = "add values" -> ReplayAddValues(s, model)

\* The model after the first n statements of a file, None when it has a gap.
Reconstructed(file, n, model) ==
    LET after[i \in 0..n] ==
            IF i = 0 THEN model
            ELSE LET before == after[i - 1] IN
                 IF before = None \/ OrderGap(file[i], before) THEN None
                 ELSE Replay(file[i], before)
    IN after[n]

\* What is compared of an object, its hash, is about its shape: the dependencies
\* of a table are not read again when its columns change.
Shape(o) == [o EXCEPT !.deps = {}]
SameModel(model, other) == {Shape(o) : o \in model} = {Shape(o) : o \in other}
===============================================================================
