------------------------------ MODULE PlanRender ------------------------------
(***************************************************************************)
(* The statements of an operation (src/render/migration.ts).  A statement  *)
(* names what it does, the definition it is rendered from, and the columns *)
(* an ALTER TABLE is about.  Every DROP carries IF EXISTS and every CREATE *)
(* OR REPLACE, IF NOT EXISTS or a guard on the catalog: what that means is *)
(* in PostgresCatalog.                                                     *)
(***************************************************************************)
EXTENDS SchemaPlan

Statement(does, o, columns) == [does |-> does, o |-> o, columns |-> columns]
CreateStatement(o) == Statement("create", o, {})
DropStatement(o) == Statement("drop", o, {})

\* Dropped before they are created, because CREATE has no guard of its own.
DropsItself == {"policy", "trigger"}
\* Replaced by CREATE OR REPLACE, or as DropsItself.
ReplacedInPlace == RoutineKinds \cup {"view", "policy", "trigger", "schema", "extension"}

RenderCreate(o) ==
    IF o.kind \in DropsItself
    THEN <<DropStatement(o), CreateStatement(o)>>
    ELSE <<CreateStatement(o)>>

RenderReplace(op) ==
    IF ~op.preDropped /\ (op.dropFirst \/ op.after.kind \notin ReplacedInPlace)
    THEN <<DropStatement(op.before)>> \o RenderCreate(op.after)
    ELSE RenderCreate(op.after)

\* renderAlter: columns are added, then retyped, then dropped.
AlterStatement(does, o, columns) ==
    IF columns = {} THEN <<>> ELSE <<Statement(does, o, columns)>>

RenderAlter(op) ==
    IF op.after.kind = "enum"
    THEN <<Statement("add values", op.after, {})>>
    ELSE AlterStatement("add", op.after, AddedColumns(op.before, op.after))
         \o AlterStatement("retype", op.after, RetypedColumns(op.before, op.after))
         \o AlterStatement("drop columns", op.after, DroppedColumns(op.before, op.after))

\* renderOperationChunk: a blocked operation is a comment.
RenderOperation(op) ==
    IF op.blocked THEN <<>>
    ELSE IF op.kind = "create" THEN RenderCreate(op.after)
    ELSE IF op.kind = "drop" THEN <<DropStatement(op.before)>>
    ELSE IF op.kind = "alter" THEN RenderAlter(op)
    ELSE RenderReplace(op)

\* renderMigrationSplit: what goes into the companion file, which is run after the
\* migration, outside a transaction.
ForCompanion(op) == Subject(op).kind = "index" /\ Subject(op).concurrent
===============================================================================
