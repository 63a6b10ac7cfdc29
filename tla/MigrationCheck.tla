----------------------------- MODULE MigrationCheck -----------------------------
(***************************************************************************)
(* checkMigrationSql (src/check/migration.ts): the static check that every *)
(* migration file passes before it is verified or applied, as far as the   *)
(* rendered statements meet it.  Warnings are left out, and so is an enum  *)
(* value that is added and used in one file.  A guard that is part of a    *)
(* rendered statement is part of a Statement as well; what is left to check*)
(* are the guards that are statements of their own, transactions, and the  *)
(* order: no statement may name what a later one creates.                  *)
(***************************************************************************)
EXTENDS PlanRender

-----------------------------------------------------------------------------
(* What a statement says (extractStatementDependencies, StatementOrderFacts)*)

\* Rendered within a DO block, which is not read.
InDoBlock == {"constraint", "enum", "type", "domain"}
CheckedRelations == {"foreign-table", "materialized-view", "table", "view"}

\* CREATE and DROP of a comment, and a DROP by name, hold no relation.
ReferencesOf(s) ==
    CASE s.does = "create" ->
             IF s.o.kind \in InDoBlock \cup {"comment"} THEN {}
             ELSE ({s.o.table, s.o.target} \ {None}) \cup s.o.deps
                  \cup {k \in {s.o.key} : s.o.kind \in CheckedRelations}
      [] s.does = "drop" ->
             IF s.o.kind \in {"constraint", "rls"} THEN {s.o.table}
             ELSE {k \in {s.o.target} : s.o.kind = "grant"}
      [] s.does = "add values" -> {}
      [] OTHER -> {s.o.key}

\* Columns are read in queries; the columns of an index, and what a policy or a
\* trigger says of its own table, are not.
ColumnReferencesOf(s) ==
    IF s.does = "create" /\ s.o.kind \in RoutineKinds \cup {"view", "materialized-view", "policy"}
    THEN {rc \in s.o.cols : rc[1] # s.o.table}
    ELSE {}

CreatesRelation(s, k) == s.does = "create" /\ s.o.kind \in CheckedRelations /\ s.o.key = k
CreatedRelations(s) == {k \in {s.o.key} : CreatesRelation(s, k)}

\* A view's columns are not read.
CreatedColumns(s) ==
    CASE s.does = "create" /\ s.o.kind = "table" -> {s.o.key} \X DOMAIN s.o.columns
      [] s.does = "create" /\ s.o.kind = "materialized-view" ->
             {s.o.key} \X {s.o.out[i] : i \in 1..Len(s.o.out)}
      [] s.does = "add" -> {s.o.key} \X s.columns
      [] OTHER -> {}

DropsRelation(s, k) ==
    s.does = "drop" /\ s.o.kind \in CheckedRelations \cup {"sequence"} /\ s.o.key = k
DropsColumn(s, rc) == s.does = "drop columns" /\ s.o.key = rc[1] /\ rc[2] \in s.columns

-----------------------------------------------------------------------------
(* forwardReferenceOrderDiagnostics: the file is read backwards, with what *)
(* the statements read so far create and do not find                       *)

\* The last of the statements found, 0 when there is none.
LastOf(found) ==
    IF found = {} THEN 0 ELSE CHOOSE j \in found : \A k \in found : k <= j

\* relationPresentBeforeDrop: as far as the file tells.
PresentBefore(file, i, k) ==
    LET last == LastOf({j \in 1..(i - 1) : \/ DropsRelation(file[j], k)
                                           \/ CreatesRelation(file[j], k)}) IN
    last # 0 => CreatesRelation(file[last], k)

\* columnExistedBeforeDrop: only what the file itself created.
ColumnExistedBefore(file, i, rc) ==
    LET last == LastOf({j \in 1..(i - 1) : \/ DropsRelation(file[j], rc[1])
                                           \/ DropsColumn(file[j], rc)
                                           \/ rc \in CreatedColumns(file[j])}) IN
    last # 0 /\ rc \in CreatedColumns(file[last])

\* Mutant of LaterWithout: a relation that is dropped first is not forgotten.
LaterWithDropped(file, i, later) == later

\* What is dropped here was there before, whatever is created later.
LaterWithout(file, i, later) ==
    LET dropped == {k \in {file[i].o.key} :
                        DropsRelation(file[i], k) /\ PresentBefore(file, i, k)} IN
    [relations |-> later.relations \ dropped,
     columns |-> {rc \in later.columns :
                     ~(rc[1] \in dropped /\ ColumnExistedBefore(file, i, rc))}]

\* laterRelations, laterColumns, once statement i is read.
LaterFrom(file) ==
    LET later[i \in 1..(Len(file) + 1)] ==
            IF i > Len(file) THEN [relations |-> {}, columns |-> {}]
            ELSE LET rest == LaterWithout(file, i, later[i + 1]) IN
                 [relations |-> rest.relations \cup CreatedRelations(file[i]),
                  columns |-> rest.columns \cup CreatedColumns(file[i])]
    IN later

ForwardReferences(file) ==
    LET later == LaterFrom(file)
        SeenAt(i) == LaterWithout(file, i, later[i + 1]) IN
    {i \in 1..Len(file) :
        \/ ReferencesOf(file[i]) \cap SeenAt(i).relations # {}
        \/ ColumnReferencesOf(file[i]) \cap SeenAt(i).columns # {}}

-----------------------------------------------------------------------------
\* checkPolicyStatement, checkTriggerStatement (previousDrops): the statement
\* before must be a drop of that kind, of whichever name.
Unguarded(file) ==
    {i \in 1..Len(file) :
        /\ file[i].does = "create" /\ file[i].o.kind \in {"policy", "trigger"}
        /\ ~\E j \in {i - 1} \cap 1..Len(file) :
               file[j].does = "drop" /\ file[j].o.kind = file[i].o.kind}

\* checkConcurrentStatement, escalateNontransactional
NeedsAutocommit(file, config) ==
    {i \in 1..Len(file) :
        /\ config.inTransaction
        /\ file[i].does = "create" /\ file[i].o.kind = "index" /\ file[i].o.concurrent}

\* checkMigrationSql reports no error.
CheckMigrationSql(file, config) ==
    ForwardReferences(file) \cup Unguarded(file) \cup NeedsAutocommit(file, config) = {}
===============================================================================
