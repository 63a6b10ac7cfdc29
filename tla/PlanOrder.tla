------------------------------ MODULE PlanOrder ------------------------------
(***************************************************************************)
(* The order of a plan's operations (src/planner/order.ts).  sortOperations*)
(* ranks operations by kind, draws an edge for every dependency between two*)
(* operations, and then takes, again and again, the least of those with no *)
(* edge from an operation still to be taken; IsFirst is that choice.       *)
(***************************************************************************)
EXTENDS SchemaPlan, Integers, TLC

\* The place of an object in the files it is declared in (`ordinal`).
CONSTANT Ordinal

CreateOrder ==
    [schema |-> 10, extension |-> 20, enum |-> 30, type |-> 40, domain |-> 50,
     sequence |-> 60, table |-> 90, constraint |-> 110, index |-> 120,
     function |-> 130, procedure |-> 140, view |-> 150,
     trigger |-> 170, rls |-> 180, policy |-> 190, grant |-> 210, comment |-> 220]
    @@ ("foreign-data-wrapper" :> 70) @@ ("foreign-server" :> 80)
    @@ ("foreign-table" :> 100) @@ ("materialized-view" :> 160)
    @@ ("default-privilege" :> 200)

\* operationRank, operationOrdinal and compareOperations.
Rank(op) ==
    LET order == CreateOrder[Subject(op).kind] IN
    IF op.kind = "drop" THEN 1000 - order
    ELSE IF op.kind = "alter" THEN 1050 + order
    ELSE 1000 + order

Place(op) ==
    IF op.kind = "drop" THEN -Ordinal[Subject(op).key] ELSE Ordinal[Subject(op).key]

Before(left, right) ==
    \/ Rank(left) < Rank(right)
    \/ Rank(left) = Rank(right) /\ Place(left) < Place(right)

-----------------------------------------------------------------------------
(* Edges *)

HasPreDrop(op, ops) ==
    ~op.pre /\ \E p \in ops : p.pre /\ Subject(p).key = Subject(op).key

\* identityIndex: the operation on an object.  For a drop the index holds every
\* operation, and a pre-drop comes before what it prepares; for the others it
\* holds no drops.
Indexed(op, ops) ==
    IF op.kind = "drop"
    THEN {p \in ops : ~HasPreDrop(p, ops)}
    ELSE {p \in ops : p.kind # "drop"}

\* constraintOperationDependencyKeys: the key a foreign key refers to.
KeyConstraintOf(o, p) ==
    /\ o.kind = "constraint" /\ o.fkey # {}
    /\ Subject(p).kind = "constraint" /\ Subject(p).fkey = {}
    /\ Subject(p).cols = o.fkey

\* operationDependencyKeys
DependencyOperations(op, ops) ==
    {p \in ops \ {op} :
        \/ p \in Indexed(op, ops)
           /\ Subject(p).key \in Subject(op).deps \cup {Subject(op).table}
        \/ KeyConstraintOf(Subject(op), p)}

AltersATable(op) == op.kind = "alter" /\ op.after.kind = "table"

\* isDestructiveTableAlterRewriteDependency: what the operation starts from
\* uses a column that the other drops or retypes.
RewritesBefore(op, alter) ==
    /\ AltersATable(alter)
    /\ op.before # None /\ op.before.kind \in ColumnDependentKinds
    /\ UsesColumn(op.before, ChangedIn(alter))

\* dependsOnAlteredTableColumns, for what the operation leaves (or drops).
UsesRetyped(o, alter) ==
    o.kind \in ColumnDependentKinds /\ UsesColumn(o, RetypedIn(alter))

AddedIn(alter) ==
    {<<alter.after.key, c>> : c \in AddedColumns(alter.before, alter.after)}

\* dependsOnAddedTableAlterColumns
MayUseAdded(o, alter) ==
    /\ AddedIn(alter) # {}
    /\ \/ o.kind \notin ColumnDependentKinds
       \/ o.cols = {}
       \/ UsesColumn(o, AddedIn(alter))

\* isPreDroppedBlockingColumnDependent
RecreatedAfterPreDrop(op, ops) ==
    Subject(op).kind \in BlockingColumnKinds /\ HasPreDrop(op, ops)

\* operationDependencyEdge: `op` is to come after (or before) the operation `dep`
\* on something it depends on.
ComesAfter(op, dep, ops) ==
    IF AltersATable(dep)
    THEN IF RewritesBefore(op, dep)
         THEN RecreatedAfterPreDrop(op, ops) /\ UsesRetyped(Subject(op), dep)
         ELSE \/ UsesRetyped(Subject(op), dep)
              \/ MayUseAdded(Subject(op), dep) /\ op.kind # "drop"
    ELSE op.kind # "drop"

ComesBefore(op, dep, ops) ==
    IF AltersATable(dep)
    THEN IF RewritesBefore(op, dep)
         THEN ~(RecreatedAfterPreDrop(op, ops) /\ UsesRetyped(Subject(op), dep))
         ELSE /\ ~UsesRetyped(Subject(op), dep)
              /\ MayUseAdded(Subject(op), dep) /\ op.kind = "drop"
    ELSE op.kind = "drop"

\* columnRewriteDependencyKeys: a replacement leaves the column before the table
\* is altered.
LeavesColumnFirst(op, dep, ops) ==
    /\ op.kind = "replace" /\ dep \in Indexed(op, ops) /\ dep # op
    /\ Subject(dep).key \in op.before.deps
    /\ RewritesBefore(op, dep)
    /\ ~(RecreatedAfterPreDrop(op, ops) /\ UsesRetyped(op.after, dep))

HasEdge(p, q, ops) ==
    \/ p \in DependencyOperations(q, ops) /\ ComesAfter(q, p, ops)
    \/ q \in DependencyOperations(p, ops) /\ ComesBefore(p, q, ops)
    \/ LeavesColumnFirst(p, q, ops)

Edges(ops) == {e \in ops \X ops : HasEdge(e[1], e[2], ops)}

-----------------------------------------------------------------------------
\* topoSortOperations, one operation at a time.
Ready(pending, edges) ==
    {op \in pending : \A p \in pending : <<p, op>> \notin edges}

IsFirst(op, ready) == op \in ready /\ \A p \in ready \ {op} : Before(op, p)
===============================================================================
