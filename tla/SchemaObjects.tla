---------------------------- MODULE SchemaObjects ----------------------------
(***************************************************************************)
(* The objects of a schema as the planner sees them (SchemaObject in       *)
(* src/types.ts): a definition is a record, a schema a set of definitions  *)
(* with one definition for each key.                                       *)
(*                                                                         *)
(*   key      the object's name; one PostgreSQL schema, no two objects with*)
(*            the same name, so the key is the identity as well            *)
(*   kind     "table", "view", "function", ...                             *)
(*   table    the table a constraint, index, policy, trigger or a column   *)
(*            belongs to, and so the table of a comment on one of these    *)
(*   deps     metadata `dependencies`: names the parser saw in the SQL     *)
(*   cols     metadata `columnDependencies`, as <<relation, column>>; for a*)
(*            PRIMARY KEY or UNIQUE constraint its own columns             *)
(*   fkey     the columns a foreign key refers to                          *)
(*   columns  of a table: its columns' types, a function of their names    *)
(*   rest     what else the definition says (predicate, body, storage)     *)
(*   out      in order: the columns of a view, the values of an enum, what *)
(*            a routine returns                                            *)
(*   fn       the function a trigger calls                                 *)
(*   concurrent   an index is to be built CONCURRENTLY                     *)
(*   target   what a grant (`targetIdentity`) or a comment is about        *)
(*   grantId  the name a grant on this object carries                      *)
(*   body     of a routine, how PostgreSQL treats the names in its body:   *)
(*            "recorded" (BEGIN ATOMIC), "checked" when it is created,     *)
(*            "late" (PL/pgSQL); "unproven" is a late body the parser could*)
(*            not read, whose names are known in part                      *)
(***************************************************************************)
EXTENDS Sequences, FiniteSets, Naturals

\* No definition, no table, no function: what an optional field holds.
CONSTANT None

Fields == {"key", "kind", "table", "deps", "cols", "fkey", "columns", "rest", "out",
           "fn", "concurrent", "target", "grantId", "body"}

-----------------------------------------------------------------------------
(* Schemas *)

Keys(schema) == {o.key : o \in schema}
Has(schema, k) == k \in Keys(schema)
At(schema, k) == CHOOSE o \in schema : o.key = k

-----------------------------------------------------------------------------
(* Kinds (src/planner/schema.ts, src/planner/order.ts) *)

RoutineKinds == {"function", "procedure"}
ReplacedDependencyKinds ==
    {"domain", "foreign-table", "materialized-view", "table", "type", "view"}
RelationDependentKinds == {"constraint", "index", "rls", "policy", "trigger"}
RelationOwnerKinds == {"table", "foreign-table", "materialized-view"}
BlockingObjectKinds == RoutineKinds \cup {"index", "materialized-view", "view"}
BlockingColumnKinds == {"index", "materialized-view", "view"}
TargetOnlyPreDropKinds == RoutineKinds \cup {"index", "view"}
ColumnDependentKinds ==
    RoutineKinds \cup {"index", "materialized-view", "policy", "trigger", "view"}
RelationOrTypeKinds == ReplacedDependencyKinds \cup {"enum"}
GrantOwnerReplaceKinds == {"foreign-table", "materialized-view", "table", "view"}

DestructiveToReplace ==
    {"table", "foreign-data-wrapper", "foreign-server", "foreign-table", "type",
     "domain", "enum", "materialized-view", "rls"}
DestructiveToDrop ==
    DestructiveToReplace \cup RoutineKinds
        \cup {"schema", "sequence", "grant", "default-privilege"}

-----------------------------------------------------------------------------
(* References between objects (src/sql/dependents.ts) *)

\* isCommentForRefs, for the keys of the objects a comment may be about.
CommentsOn(o, keys) == o.kind = "comment" /\ o.target \in keys

\* isGrantForTargets, for the names grants carry.
GrantsOn(o, names) == o.kind = "grant" /\ o.target \in names

\* dependsOnAnyColumn, hasColumnDependency.
UsesColumn(o, columns) == o.cols \cap columns # {}
=============================================================================
