------------------------------ MODULE SchemaPlan ------------------------------
(***************************************************************************)
(* planSchemaDiff (src/planner/schema.ts): the operations that turn the    *)
(* schema `from` into `to`, before they are ordered.  An operation is      *)
(*                                                                         *)
(*   kind        "create", "drop", "replace" or "alter"                    *)
(*   pre         it is the pre-drop of an object that is recreated later   *)
(*   before, after   definitions, or None                                  *)
(*   destructive, blocked                                                  *)
(*   dropFirst   viewDropRequired, routineDropRequired                     *)
(*   preDropped  the replacement follows a pre-drop                        *)
(*                                                                         *)
(* An operation is identified by its key and `pre`.  The configuration is  *)
(* destructiveChanges ("block", "allow" or "hint"), hints.destructive and  *)
(* transactionMode "per-migration" (`inTransaction`); renames and the      *)
(* migration corpus are left out.                                          *)
(***************************************************************************)
EXTENDS SchemaObjects

Subject(op) == IF op.after # None THEN op.after ELSE op.before
Id(op) == <<Subject(op).key, op.pre>>
Ids(ops) == {Id(op) : op \in ops}

\* destructiveAllowedDisposition: an operation on this key may destroy.
Allowed(k, config) ==
    \/ config.mode = "allow"
    \/ config.mode = "hint" /\ k \in config.hints

-----------------------------------------------------------------------------
(* One operation *)

\* Mutant of IsDestructive: a replacement loses nothing.
IsDestructiveDrop(kind, objectKind) ==
    kind = "drop" /\ objectKind \in DestructiveToDrop

IsDestructive(kind, objectKind) ==
    \/ kind = "drop" /\ objectKind \in DestructiveToDrop
    \/ kind = "replace" /\ objectKind \in DestructiveToReplace

\* CREATE INDEX CONCURRENTLY is not possible in a transaction.
NeedsNoTransaction(kind, o) ==
    kind \in {"create", "replace"} /\ o.kind = "index" /\ o.concurrent

MakeOperation(kind, o, before, after, config) ==
    [kind |-> kind, pre |-> FALSE, before |-> before, after |-> after,
     destructive |-> IsDestructive(kind, o.kind),
     blocked |-> \/ IsDestructive(kind, o.kind) /\ ~Allowed(o.key, config)
                 \/ NeedsNoTransaction(kind, o) /\ config.inTransaction,
     dropFirst |-> FALSE, preDropped |-> FALSE]

Create(o, config) == MakeOperation("create", o, None, o, config)
Drop(o, config) == MakeOperation("drop", o, o, None, config)

\* makePreDropOperation: a routine may always be dropped to be recreated.
PreDrop(o, config) ==
    LET op == Drop(o, config) IN
    [kind |-> "drop", pre |-> TRUE, before |-> o, after |-> None,
     destructive |-> op.destructive /\ o.kind \notin RoutineKinds,
     blocked |-> op.blocked /\ o.kind \notin RoutineKinds,
     dropFirst |-> FALSE, preDropped |-> FALSE]

AddedColumns(before, after) == DOMAIN after.columns \ DOMAIN before.columns
DroppedColumns(before, after) == DOMAIN before.columns \ DOMAIN after.columns
RetypedColumns(before, after) ==
    {c \in DOMAIN before.columns \cap DOMAIN after.columns :
        before.columns[c] # after.columns[c]}

\* makeTableAlterOperation: only columns differ.  A drop together with an
\* addition is a data transition, which needs a reviewed migration.
AltersTable(before, after) ==
    before.kind = "table" /\ before.rest = after.rest
                          /\ before.columns # after.columns

AlterTable(before, after, config) ==
    LET destructive == DroppedColumns(before, after) # {}
                       \/ RetypedColumns(before, after) # {}
        transition == DroppedColumns(before, after) # {}
                      /\ AddedColumns(before, after) # {} IN
    [kind |-> "alter", pre |-> FALSE, before |-> before, after |-> after,
     destructive |-> destructive,
     blocked |-> transition \/ (destructive /\ ~Allowed(after.key, config)),
     dropFirst |-> FALSE, preDropped |-> FALSE]

\* makeEnumAddValuesOperation: the values only grow, at the end.
Extends(longer, shorter) ==
    /\ Len(longer) >= Len(shorter)
    /\ \A i \in 1..Len(shorter) : longer[i] = shorter[i]
AddsEnumValues(before, after) ==
    /\ before.kind = "enum"
    /\ Len(after.out) > Len(before.out) /\ Extends(after.out, before.out)
AddEnumValues(before, after) ==
    [kind |-> "alter", pre |-> FALSE, before |-> before, after |-> after,
     destructive |-> FALSE, blocked |-> FALSE,
     dropFirst |-> FALSE, preDropped |-> FALSE]

\* refineReplaceOperation: CREATE OR REPLACE cannot change what a routine
\* returns or a column a view has; a hinted view asks for DROP and CREATE.
NeedsDropFirst(before, after, config) ==
    \/ after.kind = "view"
       /\ (~Extends(after.out, before.out) \/ after.key \in config.hints)
    \/ after.kind \in RoutineKinds /\ after.out # before.out
Replace(before, after, config) ==
    LET op == MakeOperation("replace", after, before, after, config)
        dropFirst == NeedsDropFirst(before, after, config) IN
    [kind |-> "replace", pre |-> FALSE, before |-> before, after |-> after,
     destructive |-> op.destructive \/ dropFirst,
     blocked |-> op.blocked \/ (dropFirst /\ ~Allowed(after.key, config)),
     dropFirst |-> dropFirst, preDropped |-> FALSE]

ChangedOperation(before, after, config) ==
    IF AddsEnumValues(before, after) THEN AddEnumValues(before, after)
    ELSE IF AltersTable(before, after) THEN AlterTable(before, after, config)
    ELSE Replace(before, after, config)

-----------------------------------------------------------------------------
(* The direct differences *)

\* isObjectDroppedWithOwner: DROP of the owner takes these along.
DroppedWithOwner(o, from, to) ==
    LET gone == {p \in from : p.key \notin Keys(to)} IN
    \/ GrantsOn(o, {p.grantId : p \in gone})
    \/ CommentsOn(o, Keys(gone))
    \/ /\ o.kind \in RelationDependentKinds
       /\ \E p \in gone : p.kind \in RelationOwnerKinds /\ p.key = o.table

ChangedAndDropped(from, to, config) ==
    {ChangedOperation(o, At(to, o.key), config) :
        o \in {p \in from : Has(to, p.key) /\ At(to, p.key) # p}}
    \cup
    {Drop(o, config) :
        o \in {p \in from : ~Has(to, p.key) /\ ~DroppedWithOwner(p, from, to)}}

Created(from, to, config) ==
    {Create(o, config) : o \in {p \in to : ~Has(from, p.key)}}

-----------------------------------------------------------------------------
(* Objects that must be dropped first and recreated because one they depend *)
(* on is replaced, or a column they use changes its type                    *)

CrossTableDependent(o, names) ==
    o.kind \in RelationDependentKinds /\ (o.deps \ {o.table}) \cap names # {}

CallsRoutineIn(o, from, names) ==
    /\ o.kind = "trigger"
    /\ \/ o.fn \in names
       \/ \E p \in from : p.key = o.key /\ p.fn \in names

\* Mutant of Affected: what an object depends on is not asked.
AffectedAnyway(o, from, names) ==
    \/ o.kind \in RelationDependentKinds /\ o.table \in names
    \/ o.kind \in BlockingObjectKinds
    \/ CrossTableDependent(o, names)
    \/ CallsRoutineIn(o, from, names)
    \/ o.kind = "grant" /\ o.target \in names

\* isAffectedDependent
Affected(o, from, names) ==
    \/ o.kind \in RelationDependentKinds /\ o.table \in names
    \/ o.kind \in BlockingObjectKinds /\ o.deps \cap names # {}
    \/ CrossTableDependent(o, names)
    \/ CallsRoutineIn(o, from, names)
    \/ o.kind = "grant" /\ o.target \in names

\* Mutant of IsPreDropped: only what the database has is dropped.
IsPreDroppedFrom(o, from, names) ==
    /\ \/ o.kind \in BlockingObjectKinds
       \/ CrossTableDependent(o, names)
       \/ CallsRoutineIn(o, from, names)
    /\ Has(from, o.key)

\* The guards of appendBlockingDependentPreDrop.
IsPreDropped(o, from, names) ==
    /\ \/ o.kind \in BlockingObjectKinds
       \/ CrossTableDependent(o, names)
       \/ CallsRoutineIn(o, from, names)
    /\ Has(from, o.key) \/ o.kind \in TargetOnlyPreDropKinds

\* What the replaced objects `names`, or retyped columns, draw in; for columns
\* that is appendChangedColumnBlockingDependent, which takes fewer kinds.
DrawnIn(o, from, names, columns) ==
    IF columns = {} THEN Affected(o, from, names)
    ELSE /\ o.kind \in BlockingColumnKinds
         /\ \/ \E p \in from : p.key = o.key /\ UsesColumn(p, columns)
            \/ Affected(o, from, names)

\* The while loops: the name of a pre-dropped object joins the names, until
\* nothing changes.
AffectedNames(from, to, start, columns) ==
    LET names[n \in Nat] ==
            IF n = 0 THEN start
            ELSE LET known == names[n - 1] IN
                 known \cup {o.key : o \in {p \in to : DrawnIn(p, from, known, columns)
                                                /\ IsPreDropped(p, from, known)}}
    IN names[Cardinality(to)]

Mark(op, preDropped) ==
    IF op.kind = "replace" /\ Subject(op).key \in preDropped
    THEN [kind |-> op.kind, pre |-> op.pre, before |-> op.before,
          after |-> op.after, destructive |-> op.destructive,
          blocked |-> op.blocked, dropFirst |-> op.dropFirst,
          preDropped |-> TRUE]
    ELSE op

\* Mutant of WithDependents: operationKeys is not consulted.
WithDependentsTwice(ops, from, to, config, affected, names, replaced) ==
    LET preDropped == {o \in affected : IsPreDropped(o, from, names)}
        comments == {o \in to : CommentsOn(o, replaced \cup Keys(affected))} IN
    {Mark(op, Keys(preDropped)) : op \in ops}
    \cup {PreDrop(o, config) : o \in preDropped}
    \cup {Create(o, config) : o \in affected \cup comments}

\* Mutant of WithDependents: appendAffectedComments is missing.
WithDependentsOnly(ops, from, to, config, affected, names, replaced) ==
    LET preDropped == {o \in affected : IsPreDropped(o, from, names)} IN
    {Mark(op, Keys(preDropped)) : op \in ops}
    \cup {PreDrop(o, config) : o \in {p \in preDropped : <<p.key, TRUE>> \notin Ids(ops)}}
    \cup {Create(o, config) :
             o \in {p \in affected : \A op \in ops : op.pre \/ Subject(op).key # p.key}}

\* appendBlockingDependentPreDrop, the creation and appendAffectedComments for
\* every affected object of the target: `commented` are the objects whose
\* comments went with them.
WithDependents(ops, from, to, config, affected, names, replaced) ==
    LET preDropped == {o \in affected : IsPreDropped(o, from, names)}
        comments == {o \in to : CommentsOn(o, replaced \cup Keys(affected))} IN
    {Mark(op, Keys(preDropped)) : op \in ops}
    \cup {PreDrop(o, config) : o \in {p \in preDropped : <<p.key, TRUE>> \notin Ids(ops)}}
    \cup {Create(o, config) :
             o \in {p \in affected \cup comments :
                        \A op \in ops : op.pre \/ Subject(op).key # p.key}}

\* appendReplacedObjectDependents
WithReplacedDependents(ops, from, to, config) ==
    LET replaced == {Subject(op).key : op \in
                        {p \in ops : p.kind = "replace"
                                     /\ p.after.kind \in ReplacedDependencyKinds}}
        names == AffectedNames(from, to, replaced, {}) IN
    IF replaced = {} THEN ops
    ELSE WithDependents(ops, from, to, config,
                        {o \in to : Affected(o, from, names)}, names, replaced)

RetypedIn(op) ==
    IF op.kind = "alter" /\ op.after.kind = "table"
    THEN {<<op.after.key, c>> : c \in RetypedColumns(op.before, op.after)}
    ELSE {}
ChangedIn(op) ==
    IF op.kind = "alter" /\ op.after.kind = "table"
    THEN RetypedIn(op) \cup
         {<<op.after.key, c>> : c \in DroppedColumns(op.before, op.after)}
    ELSE {}

\* appendChangedColumnBlockingDependents
WithColumnDependents(ops, from, to, config) ==
    LET retyped == UNION {RetypedIn(op) : op \in ops}
        names == AffectedNames(from, to, {}, retyped) IN
    IF retyped = {} THEN ops
    ELSE WithDependents(ops, from, to, config,
                        {o \in to : DrawnIn(o, from, names, retyped)}, names, {})

-----------------------------------------------------------------------------
(* appendDependencyProofDiagnostics: what blocks an operation afterwards *)

\* blockUnprovenUnknownRoutines: a routine that is kept refers to the relation
\* and its body could not be read in full.
UnprovenRoutine(op, ops, to) ==
    /\ Subject(op).kind \in RelationOrTypeKinds
    /\ \E o \in to : /\ o.kind \in RoutineKinds /\ o.body = "unproven"
                     /\ <<o.key, FALSE>> \notin Ids(ops)
                     /\ Subject(op).key \in o.deps

\* appendColumnDependentRewriteDiagnostics: something still uses a column that
\* is dropped or retyped.
ColumnStillUsed(op, ops, from, to) ==
    \E o \in from :
        /\ o.kind \in ColumnDependentKinds
        /\ UsesColumn(o, ChangedIn(op))
        /\ ~(o.kind \in BlockingColumnKinds /\ <<o.key, TRUE>> \in Ids(ops))
        /\ \/ <<o.key, FALSE>> \notin Ids(ops)
           \/ \E p \in to : p.key = o.key /\ UsesColumn(p, ChangedIn(op))

Proved(op, ops, from, to) ==
    [kind |-> op.kind, pre |-> op.pre, before |-> op.before, after |-> op.after,
     destructive |-> op.destructive,
     blocked |-> op.blocked \/ UnprovenRoutine(op, ops, to)
                            \/ ColumnStillUsed(op, ops, from, to),
     dropFirst |-> op.dropFirst, preDropped |-> op.preDropped]

\* suppressReplacedRelationGrantDrops
GrantGoesWithRelation(op, ops) ==
    /\ op.kind = "drop" /\ op.before.kind = "grant"
    /\ \E p \in ops : /\ p.kind = "replace" /\ p.destructive
                      /\ p.after.kind \in GrantOwnerReplaceKinds
                      /\ p.after.key = op.before.target

-----------------------------------------------------------------------------
PlanSchemaDiff(from, to, config) ==
    LET direct == ChangedAndDropped(from, to, config) \cup Created(from, to, config)
        replaced == WithReplacedDependents(direct, from, to, config)
        all == WithColumnDependents(replaced, from, to, config)
        proved == {Proved(op, all, from, to) : op \in all} IN
    {op \in proved : ~GrantGoesWithRelation(op, proved)}

\* An error diagnostic of any operation makes the plan one that is not run.
Refused(ops) == \E op \in ops : op.blocked
===============================================================================
