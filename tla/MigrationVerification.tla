------------------------- MODULE MigrationVerification -------------------------
(***************************************************************************)
(* verifyMigrationChain (src/verify/migration.ts): the files are checked,  *)
(* and if they pass, one temporary database                                *)
(* is given the schema `from` and then the migration, twice; another one   *)
(* is given the schema `to`.  The verdict compares their catalogs with each*)
(* other and with the plan.  Both schemas are made by migrations of their  *)
(* own, from nothing, under the default configuration.                     *)
(***************************************************************************)
EXTENDS PlanOrder, PostgresCatalog, MigrationCheck

\* Mutant of SortedOperations: by rank and place alone.
SortedByRank(ops) ==
    LET done[n \in 0..Cardinality(ops)] ==
            IF n = 0 THEN << >>
            ELSE LET before == done[n - 1]
                     ready == ops \ RangeOf(before) IN
                 Append(before, CHOOSE op \in ready :
                                    \A p \in ready \ {op} : Before(op, p))
    IN done[Cardinality(ops)]

\* sortOperations, to its end.
SortedOperations(ops) ==
    LET edges == Edges(ops)
        done[n \in 0..Cardinality(ops)] ==
            IF n = 0 THEN << >>
            ELSE LET before == done[n - 1]
                     ready == Ready(ops \ RangeOf(before), edges) IN
                 IF ready = {} THEN before
                 ELSE Append(before, CHOOSE op \in ready : IsFirst(op, ready))
    IN done[Cardinality(ops)]

\* renderMigration, as one sequence of statements.
RenderedFrom(operations) ==
    LET sql[n \in 0..Len(operations)] ==
            IF n = 0 THEN << >> ELSE sql[n - 1] \o RenderOperation(operations[n])
    IN sql[Len(operations)]

\* applySqlStatements: the catalog that the statements leave, or None when one of
\* them is refused.
Applied(statements, db) ==
    LET after[n \in 0..Len(statements)] ==
            IF n = 0 THEN db
            ELSE LET now == after[n - 1] IN
                 IF now # None /\ CanExecute(statements[n], now)
                 THEN Execute(statements[n], now)
                 ELSE None
    IN after[Len(statements)]

DefaultConfig == [mode |-> "block", hints |-> {}, inTransaction |-> TRUE]

\* applyModel: an empty database is given the schema.  What is blocked is left out,
\* and so is an index to be built concurrently.
Synthesized(schema) ==
    Applied(RenderedFrom(SortedOperations(PlanSchemaDiff({}, schema, DefaultConfig))), {})

\* extractCatalogModel: pg_get_indexdef does not tell how an index was built.
FromCatalog(db) == {[o EXCEPT !.concurrent = FALSE] : o \in db}

\* The hint "*" consents to all that is destroyed and names no view.
PermissiveConfig(config) ==
    [config EXCEPT !.hints = {}, !.mode = IF @ = "hint" THEN "allow" ELSE @]

\* operationIdentitySet: what a diff is about; a pre-drop is about its object.
OperationIdentities(from, to, config) ==
    {Subject(op).key : op \in PlanSchemaDiff(from, to, config)}

\* Mutant of Reconvergence: identities that are new are not asked for.
ReconvergenceBySize(baseline, residual) ==
    IF residual = {} THEN None
    ELSE IF Cardinality(residual) < Cardinality(baseline) THEN "warning" ELSE "error"

\* reconvergenceResidualDiagnostic: its severity, if there is one.
Reconvergence(baseline, residual) ==
    IF residual = {} THEN None
    ELSE IF residual \subseteq baseline /\ residual # baseline THEN "warning" ELSE "error"

\* compareVerificationCatalogs: both catalogs are compared unless older drift remains.
Compared(migrated, expected, from, to, config) ==
    LET permissive == PermissiveConfig(config)
        reconvergence == Reconvergence(
            OperationIdentities(from, to, permissive),
            OperationIdentities(FromCatalog(migrated), to, permissive)) IN
    IF reconvergence = "warning" THEN "drift"
    ELSE IF reconvergence = None /\ FromCatalog(migrated) = FromCatalog(expected) THEN "accepted"
    ELSE "rejected"

\* Each file is checked by itself.
FilesPass(file, companion, config) ==
    CheckMigrationSql(file, config) /\ CheckMigrationSql(companion, config)

\* The check, then applyVerificationScenario, which runs the companion after its
\* migration.  "drift" passes with a warning.
Verdict(from, to, file, companion, config) ==
    LET statements == file \o companion
        migrated == Applied(statements, Applied(statements, Synthesized(from)))
        expected == Synthesized(to) IN
    IF ~FilesPass(file, companion, config) \/ None \in {migrated, expected} THEN "rejected"
    ELSE Compared(migrated, expected, from, to, config)
===============================================================================
