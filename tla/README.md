# supaschema: TLA+ models and proofs

This directory specifies supaschema in TLA+. supaschema keeps a PostgreSQL
schema as declarative SQL files: it diffs two schema states, writes replay-safe
migrations, verifies and applies them, generates typed contracts, and ships
with a license service and hooks for coding agents. The modules below model the
parts of it whose correctness depends on ordering, failure and concurrency;
TLC checks them on small instances and TLAPS proves the theorems listed in
`PROJECT.json`.

## How to read this directory

| Module | What it is |
|---|---|
| `MigrationStatus` | history table against files on disk: pending, out-of-order, ghost versions (`src/migrations/status.ts`) |
| `MigrationHistory` | how pending files are grouped into units (`src/migrations/runners.ts`) |
| `MigrationLedger` | abstract: what applying migrations promises |
| `DirectRunner`, `MCDirectRunner`, `DirectRunnerProofs` | any number of direct runners against one target; instances; proofs |
| `MigrationLineage` | generated files, their lineage chain, the automatic before-state |
| `SyncPipeline`, `MCSyncPipeline`, `SyncPipelineProofs` | `sync` and `apply`, their developers, Git and the target; instances; proofs for any number of runs and worktrees, and for one worktree |
| `LinearExtension` | abstract: what ordering operations promises |
| `OperationOrder`, `MCOperationOrder`, `OperationOrderProofs` | the sort of `src/planner/order.ts`; instances; proofs |
| `SchemaObjects` | what the planner sees of an object, and its tables of kinds (`src/planner/schema.ts`, `src/sql/dependents.ts`) |
| `SchemaPlan` | the operations of a diff: direct differences, closures of dependents, consent, refusals (`src/planner/schema.ts`, `table.ts`, `replace.ts`) |
| `PlanOrder` | the edges between two operations and the order they give (`src/planner/order.ts`) |
| `PlanRender` | the guarded statements of an operation (`src/render/migration.ts`) |
| `PostgresCatalog` | external: what PostgreSQL accepts and does with such a statement |
| `PostgresDdl` | external: what PostgreSQL does with statements people write, and what goes with what is dropped |
| `DdlReplay` | what replaying such statements makes of a model (`src/source/replay.ts`) |
| `ReplayHistory`, `MCReplayHistory` | the two composed: histories written by hand; instances |
| `MigrationReplay` | what replaying a migration makes of a model (`src/source/replay.ts`) |
| `MigrationCheck` | the static check of a migration file (`src/check/migration.ts`) |
| `MigrationVerification` | the verdict of `verify` on a migration (`src/verify/migration.ts`) |
| `PlanExecution`, `MCPlanExecution`, `PlanExecutionProofs` | all of the above composed: a diff planned, verified, run, stopped, run again; instances; proofs |
| `IterationProofs` | lemmas on natural numbers and on recursive functions over them, for `DirectRunnerProofs`, `SyncPipelineProofs`, `PlanExecutionProofs` and `PrivilegeHistoryProofs` |
| `PostgresAcl` | external: what GRANT and REVOKE do to an access list |
| `PrivilegeModel` | the GRANT and REVOKE objects of the three sources, and what migrating them executes (`src/source/normalize.ts`, `src/sql/privileges.ts`, `src/catalog/grants.ts`, `src/render/guards.ts`) |
| `PrivilegeHistory`, `MCPrivilegeHistory`, `PrivilegeHistoryProofs` | histories of such statements and deployments; instances; proofs |
| `PostgresViews` | external: queries, the columns PostgreSQL gives a view, and which of them it lets one write |
| `ViewColumns` | the columns that reading a view's query gives its contract (`src/typegen/views.ts`) |
| `ViewShapes`, `MCViewShapes` | the passes over all views of a model, and what may be written through each (`src/typegen/model.ts`); instances |
| `LicenseWorker`, `LicenseWorkerProofs` | the license service: webhooks, eventually consistent store, coordinator; proofs |
| `SessionLock`, `MCSessionLock`, `SessionLockProofs` | the lock of the agent hooks, by system call; instances; proofs |

`PROJECT.json` maps every definition that models code to its lines, and lists
the runs, the findings, the hazards and the theorems. Paths in this file and
in the modules' comments are relative to the root of the repository.

## Inventory of the system

| Part (source) | State it keeps | Operations | What is hard |
|---|---|---|---|
| Direct migration runner (`src/migrations/runners.ts`, `status.ts`, `src/database/admin.ts`) | history table and catalog of a target, a run's pending list | status, group into units, apply in or out of a transaction, record | overlapping runs on stale lists, crashes between SQL and history row, lost COMMIT answers |
| Sync pipeline (`src/workflow/*.ts`, `src/migrations/{files,lineage,stage,context}.ts`) | migration directory, diagnostics, artifacts of a run | guard, status, diff and write, reload, gates, verify, apply, reconcile | several developers and deploy jobs on one directory and target, crash between two files of one unit, files that appear between status and apply |
| Operation ordering (`src/planner/order.ts`) | dependency graph of a plan | build edges, topological sort, cycle report | create, drop and alter edges in one graph, ties, cycles |
| Planner (`src/planner/{schema,table,context,replace}.ts`) | desired and current models | diff objects and tables, renames, replacement of dependents | ambiguous drop/add, rebuild closure of dependents |
| Source replay and normalisation (`src/source/*.ts`, `src/sql/*.ts`) | ordered statements, object models | split, parse, replay, normalise, resolve dependencies | order sensitivity, what a drop takes along, quoting |
| Privileges (`src/source/normalize.ts`, `src/sql/privileges.ts`, `src/catalog/grants.ts`, `src/render/guards.ts`) | GRANT and REVOKE objects of a role on an object | merge, cancel, replay after every statement, extract, reverse | alternating grants and revokes, three sources that must agree, order of reversals |
| Renderer (`src/render/*.ts`) and replay checks (`src/check/*.ts`) | plan, migration text | guarded statements, concurrent companions, hazards | replay safety of every statement |
| Verification (`src/verify/*.ts`, `src/database/admin.ts`) | temporary databases | create, apply once, twice, compare, drop | cleanup after failure, busy databases |
| Generated contracts (`src/typegen`, `src/contract`, `src/scan`) | shapes of the relations, views collected so far | read the queries of views, register, generate, compare, scan | views that read each other in any order, names at several levels, what may be written through a view |
| CLI, configuration, doctor, redaction (`src/cli*`, `src/config`, `src/doctor.ts`) | configuration | load, merge, report | precedence |
| Catalog extraction and default privileges (`src/catalog`, `src/grants`) | default ACLs | extract, expand | owner and public defaults |
| Agent hooks (`scripts/agent-hooks/*.mjs`, `.codex/hooks`) | one JSON state file per session, its lock directory | lock, refresh, update, clear, reclaim | concurrent hook processes, crashes while holding the lock, superseded owners |
| License worker (`services/license-worker/src/*.ts`) | KV records and tokens, one durable object per subscription, OAuth nonces | checkout, webhook, renewal, license, contracts, OAuth | duplicated, reordered and lost webhooks, eventually consistent KV, crash between two writes |
| Agent MCP service (`services/agent-mcp`) | none (calls the CLI) | tools | none beyond I/O |
| Hook commands of the package (`src/hooks/*.ts`) | hook manifests | read, write targets | none beyond I/O |
| Scaffolding (`bin/*.mjs`) | files of a consumer repository | init, upgrade | partial writes |
| Repository tooling (`scripts/{guards,release,github,skills,actions,docs-lint,stripe}`) | none | lint, release, audit | none in the product |
| Benchmarks (`src/benchmark`) | temporary databases | run, score | none in the product |

How they interact. `diff` and `sync` extract two models (source replay or
catalog extraction), plan the operations between them, order them and render
them into a migration with a lineage line, and, for concurrent indexes, into a
companion file. `sync` goes on to verify the pending files against the live
target on a temporary database, applies them with a runner, and checks the
history again; `apply` is `sync` without the diff. Nothing reserves the
migration directory or the target: the processes of several developers and
deploy jobs meet only in the files, in Git and in the history table. The agent
hooks are processes of their own, started by the agent's runtime at every
event, that share one state file per session. The license worker is a service
that Stripe calls, at least once and in any order.

What makes each part correct:

- Direct runner: a recorded version has executed every file its run could know
  of, versions are recorded oldest first, what a failure leaves behind can be
  retried, and a quiet target holds what the files say.
- Sync pipeline: the generated files stay one chain of transitions from
  schema to schema; a successful run leaves the schema it verified; no
  sequence of edits, crashes and commits makes `sync` refuse for ever.
- Operation ordering: no statement before one it depends on; equal plans give
  equal migrations; a cycle is reported exactly when there is one.
- Planner: the plan, executed in its order, never fails on a dependency and
  leads from the one model to the other.
- Source replay: the model is that of the database that executed the files.
- Privileges: declarations, migrations and the database give one model, no
  revoked privilege comes back, and a deployment leaves what its target says.
- Generated contracts: a view's contract has its columns and their kinds, and
  offers for writing what the database lets one write.
- Session lock: no update is computed from a state that is not the saved one;
  a dead process never blocks the others; a live one never loses its lock.
- License worker: no token outlasts what was paid; the paid-through date never
  moves back; a paid checkout gets its token and a paid invoice extends it.

The hazards, each at its line, are in `PROJECT.json`, with the properties that
would catch them going wrong or the reason why none does yet.

## Applying migrations: `DirectRunner`

**State and actions.** `disk` is the migration directory, `history` and
`schema` the committed state of the target. Each `Runner` is one process
running `runDirectMigrationRunner`, with its pending list (`todo`), the unit,
file and statement it is at, and `view`, what its open transaction has written.
`ReadStatus` is `migrationsStatus`: it computes the pending list that the run
will still use after any number of steps of other runs. `Connect` and
`BeginUnit` are the connection and the loop over `groupMigrationUnits`,
`ExecuteStatement` one `client.query`, `NextUnitFile` the loop of
`applyUnitSql`, `CommitUnit` and `RecordUnit` the ends of
`applyTransactionalUnit` and `applyAutocommitUnit`, `Finish` the end of the run.
Every await may fail: `Fail` (query error, lost connection, killed process),
`LoseCommitAnswer` (the commit happened, the caller hears of an error) and
`DeadlockVictim`; `Abandon` is the catch and finally path. Meanwhile other
diffs and syncs write migrations: `WriteMigration` the first file of a newer unit,
`WriteCompanion` its concurrent companion, at any time after that or never (the
two awaited `writeFile` calls of `runSyncDiffStage`, and of `writeDiffFiles` in
`src/cli/diff.ts`). Nothing locks the directory, so a status check may list a
unit of which only the beginning is there. Statements are the guarded
ones the renderer emits (`Effect`), so executing one again is harmless, and
PostgreSQL's row and object locks make a statement wait for another open
transaction that touched its object.

What is simplified: one `writeFile` is one step, so that no run reads half a file;
the choice of a version and the write of its first file are one step too, so that
versions are published in ascending order (two writers that choose the same one
are a hazard of `PROJECT.json` that no property covers); a name never
changes. A writer owes nothing: there is no fairness on writes, and one that dies
between its two files is a `WriteCompanion` that never happens.

**A gap in the code, and how the properties name it.** A run whose status check
comes between the two writes applies and records the version without its companion.
When the companion is written, its version is in the history: every later
status counts it as applied, and nobody executes it but an overlapping run that had
listed it. `missed` collects the
files this has happened to: it grows when a version is recorded by a run that had
read the directory before the file was there (`Recorded`) or when a file is
written under a version that is recorded already (`WriteCompanion`). Nothing
else makes a file an exception.

**Properties.**

- `HistorySound`: a recorded version hides no statement that did not run, but in
  files that are `missed`.
- `HistoryInOrder`: recorded versions are a prefix of those on disk.
- `PartialOnlyAtFrontier`: what an interrupted run leaves without a row belongs
  to the next unit only.
- `LedgerSpec`: the runner implements `MigrationLedger`, in which a version is
  recorded with its first file and those that follow it up to where the late ones
  begin, and a late file can still be executed only by somebody who knew of it
  (`CatchUp`: an overlapping run that read the directory later).
- `Converged`, `RecordedSchema`: the catalog is the replay of the files, though
  units are executed twice and interleaved, if it is `Whole`: no file was missed,
  and no recorded version still lacks a file while newer ones are on disk (`Hole`:
  its writer is late or dead).
- `EventuallyRecorded`, `RunsEnd`: every version on disk is recorded in the end,
  and every run ends.

**Run.** `runner_overlap`: two overlapping runs, two failures, three versions
over two objects, the second version with a concurrent companion (so it runs
statement by statement outside a transaction, unless it was read before the
companion was there) and the third re-creating what
the second dropped, so that a unit applied twice from a stale list is visible.
Two runs are enough for every pairwise overlap of the code, which has no state
that counts runs; three versions give a recorded one, the one being applied and
a later one at the same time.

**What is assumed.** Fairness is weak fairness of each run's own steps (an await is
answered) and of `ReadStatus` (a deploy job is retried). Besides missed files,
`Converged` and `RecordedSchema` exclude, with `spoiled`, one thing more that the
code does not prevent: a run that overlapped another one and stopped short of the
newest version, failing or with an older list, may leave the effect of an older
unit over that of a newer one.

**Proved** (`DirectRunnerProofs`) for any finite set of files, any SQL, runners,
objects and failures, from the named assumptions on the constants (versions are
positive numbers, files of one version differ in name or kind, every file has
a sequence of statements): `TypeOK`, `HistorySound`, `HistoryInOrder`,
`PartialOnlyAtFrontier` and that every step is one of `MigrationLedger`, all of them
with units published one file at a time. None
of the three is inductive. What makes them so is what a stale list can and
cannot be (`TodoOK`: of each unit whatever the run has seen of it, and no older
version is missing from both the list and the history), that the loop takes the oldest unit (`UnitOK`), and that
what has been sent is what the loops have passed (`SentOK`).

`Converged` and `RecordedSchema` are proved too, with a second invariant,
`ConvergenceInv`. Its idea: a line of the files is *settled* once every run in
progress has passed it (`Settled`; between runs, once it is recorded). What the
catalog holds of an object is always the result of a line about it that did
run, and no settled line about it comes after that one (`LeftBy`, `SchemaOK`;
`ViewsOK` says the same of what each open transaction wrote). No settled line comes
after the one a run sends, because the run itself has not passed any;
a status check unsettles lines; a run that leaves settles none that it has not
passed itself, since it was alone (`AloneOK`) or, if not
`spoiled`, has passed all there are. All of it is claimed of `Sane` states only: not
`spoiled`, `Whole`, and no run in progress that is bound to stop short; a step leads
into no such state from another one (`SaneBefore`). That what a run has passed has no
holes (`PassedClosed`) is where `Whole` is needed: the files a run saw are a beginning
of each unit (`SeenOK`), a file that comes between two of them makes a `Hole` or is
`missed`. When all runs are done everything recorded is settled, and
what each object holds is the result of the last line about it, which is what
`Replay` computes (`ReplayLeft`). Two transactions write disjoint objects
(`ViewsDisjoint`, the locks), so a commit disturbs no other view.

These two theorems use one assumption more, `CreateAssumption`: a statement that
creates finds, when the files run in order, nothing or the very thing it creates. That is what
the planner writes (`planner/schema.ts`: `appendCreatedOperations` creates what the
old catalog lacks, the others what is dropped first). Without it the formula is
false: after a drop, two different guarded creations of one object, of which the first
wins in order, may win the other way round when a second run executes the unit again.
TLC checks the assumption of the instance, and `ConvergenceInv` was checked on it before
it was proved. Only the liveness properties are left to model checking.

## Sync: `MigrationLineage` and `SyncPipeline`

**State and actions.** A schema is the set of objects it has, its fingerprint
the set itself; a migration file carries the two schemas it was written
between and a part: generated base, concurrent companion, or written by hand.
`MigrationLineage` defines what a directory proves: `Execute` (replay and
execution), `ChainBroken` (`checkSyncLineageChain`), `AutomaticBaseline`
(`sources.from: auto`), `BaselineRefused`, `NextVersion`. `SyncPipeline` runs
the lanes of `syncPipelineLanes`, one action each, for any number of processes
in any number of worktrees: status, sources, diff with the chain gate, version,
the two file writes, reload, staging, verification, the runner one unit at a
time, reconcile. Developers edit the tree or write a migration by hand between
any two lanes, and commit, pull and push between runs; `Die` kills a run
anywhere. Git and the target are external. `MigrationStatus` is shared with
`DirectRunner`.

**Runs.**

| Run | Instance | Shows |
|---|---|---|
| `sync_chain` | one worktree, one process at a time, a table and a concurrent index, two edits or hand-written migrations, one death | `ChainContiguous`, `VersionMeansExecuted`, `NoNewDrift`, `SyncConverges` hold, and `EventuallyApplied`: no such sequence ends in a directory that `sync` can neither extend nor apply, unless a migration lost its companion or was written by hand |
| `sync_team` | two worktrees with push and pull, one target, one object, three versions | `NewestOnly`: ghost and out-of-order refusals keep recorded versions ascending |
| `sync_closure` | one death | violation of `ClosureComplete` |

Two objects are enough to tell a partial transition from a whole one; the
bounds on edits, deaths and versions are constants (`MaxEdits`, `MaxCrashes`,
`MaxVersion`, `MaxNow`), and a run that has no version left simply stops, which
only `sync_chain` must rule out: its five versions are more than its two edits
can use. Its fairness says that a run goes on until it ends and that `sync` is
called again and again, whatever else is (a strong fairness: a run of `apply`
may come between), which is what the deploy job and the write hook do.

**Findings.** `ClosureComplete` is the listed one: after a death between writing
and staging, the next `sync` stages the tree without the migration that leads
to it, where `docs/concepts/migration-pipeline.mdx:61` speaks of one closure.
Two more disagreements follow from the same actions:

- `SUPA_DIFF_LINEAGE_GAP` blames "the newest pending supaschema
  migration"; after a hand-written migration it is raised although the newest
  generated migration has been applied, and no `sync` gets past it.
- Two syncs of one worktree at the same time choose the same version; only the
  same file name would collide. The history then has one row for two migrations.

Two more facts the models made plain, without a run: an edit of the tree
between the diff lane and the staging lane is staged with a migration that
does not contain it; and a companion lost between the two file writes is never
generated again, because the base's lineage already claims the index (this is
why `SyncConverges` and `EventuallyApplied` speak of directories that are
`Whole`, or of runs before any death).

**Proved.** `SyncPipelineProofs`, for any set of runs, worktrees and objects
and any bounds:

- `TypeCorrect`, and `NoDriftCorrect` (`NoNewDrift`) without any hypothesis:
  worktrees and runs may overlap as they like. The invariant `DriftInv` says
  what verification predicted for a run that nobody has disturbed: the catalog,
  after the files still to apply, is what it would be had they all been
  executed on the catalog verification read. Applying the oldest version keeps
  that, because executing older files and then newer ones is executing them all
  (`ExecuteCompose`).
- `NewestCorrect` (`NewestOnly`) when runs do not overlap (`Serial`), in any
  number of worktrees: what an active run has still to apply is newer than all
  that is recorded (`NewerThanHistory`), since its status refused anything else.

The second part of the module is about one worktree with one run at a time
(`OneWorktree`).
The hypothesis is no convenience: the code takes no lock, two runs or worktrees
may take the same second for two migrations, and then none of the following is
true.

- `VersionCorrect` (`VersionMeansExecuted`). The invariant `RecordInv` says that
  what is recorded has a file, that a run writes only under a version that is
  not recorded, and that it applies all of a version's files or none.
- `ChainCorrect` (`ChainContiguous`). `ChainInv`: no version has two generated
  files, a run about to write has a version above all of them
  (`VersionAbove`), and the newest of them ends where its plan starts
  (`PlanContinues`: what the chain gate has checked, and the run holds on to
  while the developer edits and writes migrations by hand).
- `SyncCorrect` (`SyncConverges`), for a project that has a first migration
  (`First # {}`; without one, HEAD is taken as the schema before, and what HEAD
  has is never created on the target). `PlanInv` carries the argument: a whole
  directory replays to the schema its newest lineage claims
  (`ReplayIsLineage`), hence the before-state of a plan, be it HEAD, the index
  or the replay, is what the files do (`PlanIsReplay`, `HalfWritten` between
  the two files), and only a death loses a companion (`CompanionKept`).
  `CatalogIsReplay` says that the target is the replay of what it has executed,
  which after the last check of the history is the directory.

TLC checked these invariants too, on the instance of `sync_chain` and on one
with two runs and three objects. `EventuallyApplied` is model-checked only.

**Not in the model.** Target selection and remote approval, dry runs, the
Supabase CLI runner, contract files, the safety gates (a refusal of theirs is
`Die`), renames and replacements (an object is there or not), a repository
without a commit. Files are listed atomically. Files of different objects do
not interact.

## Ordering operations: `LinearExtension` and `OperationOrder`

`OperationOrder` is the graph and sort of `src/planner/order.ts`: `AddEdge` is
`addEdge` with its duplicate test and counters, `StartSort` and `Pop` are
`topoSortOperations`, `Finish` what `sortOperations` appends and reports when
operations are left over. Which pairs depend on each other is left open, so
the run `order_graphs` covers every graph on four operations, built in every
order; four are the fewest with two separate cycles, and with a cycle that has
operations before and behind it. It checks `DependencyOrder`, `CycleExact` (a
cycle is reported exactly when no order exists, and the operations its hint is
chosen from are exactly those on or behind a cycle), `ResultTotal`, and
`ImplementsLinearExtension`: the result is a function of the dependencies and
of `compareOperations` alone, so that equal plans give equal migrations.

Proved for any finite set of operations with a total base order:
`TypeOK`, `DependencyOrder`, `CycleExact`, `ResultTotal`, and the refinement. The inductive
invariant is `IInv` of `OperationOrderProofs`: the counter of an operation is
the number of its predecessors not placed yet (`Counts`), the ready list holds
exactly the unplaced operations whose counter is zero (`ReadyExact`), nothing
is placed twice, and no member of a cyclic set is ever placed
(`TrapsUnplaced`); the last is what makes the report exact. `ResultTotal` says
that what the code returns is every operation, once: the placed ones, then those
on or behind a cycle in the base order (`InBaseOrder`, which lemma `SortedOnce`
shows to list a set without repetition). The wording of the
hint (`traceCycle`) and the rules that find edges are not in the model.

## From a diff to a database: `SchemaPlan`, `PlanOrder`, `PlanRender`, `MigrationReplay`, `MigrationCheck`, `MigrationVerification`, `PlanExecution`

**State and actions.** An object is a record with what the planner reads from it:
kind, key, table, the names and columns it depends on, a table's columns with
their types, a view's or routine's result, an opaque `rest` or `body`. The
operators follow the code function by function. `SchemaPlan`:
`ChangedAndDropped` and `Created` are the direct differences,
`WithReplacedDependents` and `WithColumnDependents` the two closures that draw
dependents into the plan, `Proved` the diagnostics that block an operation,
`IsDestructive` and `Allowed` the consent a destruction needs, `Refused` the
plan that is not rendered. `PlanOrder`: `ComesAfter`, `ComesBefore` and
`LeavesColumnFirst` are the rules that give an edge, `Before` is
`compareOperations`. `PlanRender` gives each operation its guarded statements.
`PostgresCatalog` (external) says which statements PostgreSQL accepts in which
catalog and what it takes along (indexes, constraints, comments, grants): an
object is not dropped, alone or with a column, while something that stays is
recorded to need it or what goes with it (`Blocking`), and the types that an ALTER
TABLE names must exist (`TypesNamed`). `Intact` is what PostgreSQL keeps by this:
one definition for each name, and nothing recorded is missing.
`MigrationReplay` is what `src/source/replay.ts` makes of the same statements.
`MigrationCheck` is `checkMigrationSql` for the statements the renderer makes: a
file is read backwards with the relations and columns that later statements
create and do not find (`LaterFrom`), and a statement that names one of them is
an error, as is a policy or trigger without a drop before it and a concurrent
index within a transaction. `MigrationVerification` is `verifyMigrationChain`: it
checks the files and gives one temporary
database the schema `from`, synthesized by a migration of its own under the
default configuration, runs the migration twice from the first statement to
the last, synthesizes `to` in another one and compares, by identities with the
plan of the diff and by content with each other (`Verdict`: accepted, drift,
which passes with a warning, or rejected). `PlanExecution` composes them:
`Plan`, `Sort`, `Sorted`, `Verify`, which does not keep the migration from being
run, so that every verdict can be held against what happens, then `Run` one
statement at a time, `Fail` when PostgreSQL refuses, `Rerun` from the first
statement after a stop anywhere or after the end. What is built concurrently
goes to the companion (`ForCompanion`), which the runner takes after the
migration (`Script`) and replay before it, by name.

**Runs.** `plan_diffs` has every ordered pair of consistent schemas of six
families of objects, 4 to 6 objects in several versions each: views on views,
routines with triggers, views and grants on them, two tables with keys, a
policy and comments, an enum with a column, a materialized view, an index and a
grant, a table and a view with grants and a routine, a table with a key and an index, built concurrently or not, and their
comments. One family is planned a second time with consent for some keys only.
Each family is closed under one kind of closure and holds its chains of length
two, which is where one more level changes the planner's loops; runs are at
most two (`MaxRuns`), because the second run starts from any state a stopped
one leaves, and so would the third. It checks:

| Property | Says |
|---|---|
| `TypeOK` | a plan has one operation for each key, by which `identityIndex` finds it; PostgreSQL keeps its catalog intact, whatever the file does to it |
| `Applies`, `Reaches` | the edges have no cycle, no statement is refused, in a first run or after a stop anywhere or at the end, and the end is the target |
| `RowsNeedConsent` | rows go only where the configuration says so |
| `UntouchedStays` | what no change concerns is never absent, not even for a moment |
| `HistoryAgrees` | after every statement the replayed model is the database's schema |
| `VerifiedHolds` | what verification accepts is not refused in a first run and ends in the target |
| `CheckFindsOrder` | the static check has no error for a rendered migration, and has one for a migration that PostgreSQL refuses because of what a later statement creates |
| `RightIsVerified` | what verification rejects, or passes as drift, is one of the named gaps |

**Named gaps.** Six of these properties hold only outside situations in which
the code is wrong. Each is a predicate on the diff and the plan, never on what
happened, so that nothing else is excused:

- `StopsUsing`: a kept object gives up a dependency on something that is
  dropped; the drop comes first and PostgreSQL refuses it.
- `MovesToAddedColumn`: a kept object leaves a changed column for one that the
  same ALTER adds, and is replaced before the ALTER;
  `docs/concepts/migration-pipeline.mdx:73` says that "Dependents that use newly
  added columns render after the table alter."
- `DroppedTogether`: what goes with a table has no operation, so that nothing
  orders the table's drop before what its constraint or policy depends on.
- `ReplacedTypeInUse`: a type is dropped while a column has it.
- `RoutineReplaced`: a routine is dropped and created again under its users.
- `GrantLost`: what was granted on an object that is recreated is not granted
  again.
- `LeavesForLaterObject`: a view leaves a column and now uses an object that is
  created after the ALTER: a cycle is reported although an order exists.
- `ReplayGap` (`LeavesUserBehind`, `OutlivesOwner`): the file ends with a user of
  what it drops or retypes on its way, or drops the owner of something whose
  own drop has no guard for that.
- `CommentLost`: an index, a key, a trigger or a policy is dropped to be
  replaced, and its comment with it.
- `CommentedTooEarly`: the migration comments on an index that only its
  companion builds.
- `CommentKept`: replay keeps the comment of a dropped constraint.
- `OwnerReplayedLater`: the migration drops the owner of an index of its
  companion, which replay has read before.
- `EnumGrown`: values are added to an enum; replay hashes its values, a tree or a
  catalog its definition, and the next diff from `migrations:` plans a
  destructive replacement of an enum that is right.
- `RevokedFromReplacedView`: a grant on a view is dropped and the view is
  replaced in place. The revoke comes first, and the check, for which CREATE OR
  REPLACE VIEW creates the view, reports that it references an object created
  later (`SUPA_CHECK_FORWARD_REFERENCE_ORDER`): `verify` rejects and `sync` does
  not apply a migration that PostgreSQL takes. `README.md:31` says that generated
  SQL "uses guarded operations and is checked statically".
- `ConcurrentUnverified`: the target declares an index CONCURRENTLY, which no
  catalog tells, so that the schemas never compare equal; or a comment is on such
  an index, which the synthesis of a schema leaves out.

`VerifiedHolds` is not excused by the gaps of the planner: verification rejects
every migration of these families that they spoil, as it should. All it leaves
open is a stop between two statements followed by a second run (`ReplayGap`),
since it runs a migration to its end both times. `ConcurrentUnverified` is the
other way round, a right migration that is not accepted. One that only creates
a concurrent index is rejected, because the index is left as the only
difference; one that does something else too passes with
`SUPA_VERIFY_PREEXISTING_DRIFT`, of which `docs/reference/diagnostics.mdx:138`
says that it "converged every object it changed" and that "unrelated drift
already present on the target remains". The same happens as long as the schema
has the index.

**Finding.** `plan_twice` has the smallest family that shows it: a column changes
its type and a new view uses it; the second run of the migration is refused,
where `docs/concepts/declarative-schema.mdx:155` defines idempotent as running
more than once without failing and `:157` says that supaschema generates such
SQL. `GrantLost` is a defect of the same weight without a document that denies
it: the grants on a view that is recreated under a retyped column are gone at the
end of the migration.

**Proved** (`PlanExecutionProofs`) for every pair of schemas, configuration and
number of runs: `RowsNeedConsent`, assuming only that objects of one key have one
kind in the two schemas (`KeysAssumption`: the key contains the kind). The
argument goes along the code: every operation of a plan is blocked or has
consent for what it destroys (`Asks`, theorem `PlanAsks`: the direct
differences, both closures, the marks and the proofs keep it), every statement
rendered from such an operation loses no row without consent (`Safe`), a file
is made of such statements, and `RowsInv` carries that over every step.

`UntouchedStays` (theorem `UntouchedCorrect`) assumes `SchemasAssumption`, which
TLC evaluates on every pair of the runs: a schema has one definition for a key
(`duplicateKeyDiagnostics`, `src/source/extract.ts:492`, refuses a second one), the
schema the database has holds together, the relation of every column that an
object's statements refer to is among the names it depends on (both come from one
walk over the statement, `src/sql/facts.ts:148`), and a grant or a comment names one
object. `Spreads` says what it means for a set of keys to have whatever depends on
a change, and UntouchedStays that an object outside such a set is in place at
every moment. The argument is for any such set, and then for the least one
(`Touched`). Along the code: every operation of a plan is on an object of the set
(`IsOn`, theorem `PlanTouches`), where the closures need that `AffectedNames` stays
in it, a recursive function, for which `IterationProofs` shows that it exists and
stays where its step stays (`IterationExists`, `AllNaturals`); every statement of
the two files is about such an object (`RenderTouched`); and what PostgreSQL takes
along, with its owner or with a dropped column, depends on the object it goes with
(`AttachedTouched`), so it is in the set too. The inductive invariant `TouchInv` has
these three parts. The third needs more than the property: an altered table is
neither the one of `from` nor the one of `to`, and so `IsKnown` says of every
definition of the catalog that it is one of `from` or is touched, and carries the
key and the grant name of an object of the two schemas.

`TypeOK` (theorem `PlanTyped`) also assumes `ShapesAssumption`: what the model of
the planner takes for granted of a definition, and what TLC evaluates on every
case of the runs. A table depends on the types of its columns and nothing else
(other facets of a column are not in the model), an enum on nothing; what belongs
to an object (its index, its constraint) has nothing that belongs to it but
comments and grants, and these have nothing; the columns referred to are those of
relations (tables, views, materialized views and foreign tables), each given by its
relation and its name; an object carries the same name for grants in both schemas;
and no definition or key is `None`. The plan and the catalog are two arguments:

- `Distinct` says that no two operations have one key. Each part of the planner
  keeps it (theorem `PlanDistinct`): the direct differences because an object is
  changed, dropped or new, the closures because they ask for what is in the plan
  before they add a pre-drop or a creation, the marks and the diagnostics because
  they change no key (`IdKept`). `WithDependentsTwice`, which does not ask, is the
  mutant.
- `Kept` says that the catalog is `Intact` and made of the schemas' definitions,
  apart from the columns of altered tables (`IsFrom`); `Formed` is what follows of
  it. The lemmas go statement by statement (`ExecuteIntact`). What goes with an
  object that nothing blocks is `Detached` from what stays (`DroppedDetached`):
  this needs that `WithAttached` is closed after two levels, which is where the
  shape of definitions comes in. A definition put in the place of another must
  still offer every column that something uses (`OtherIntact`): a view because
  CREATE OR REPLACE only extends it, an altered table because what used a dropped
  column went along or made PostgreSQL refuse (`FewerColumnsIntact`). That only
  tables are altered, and only enums get values, is again an invariant of planner
  and renderer (`IsOn`, `Fits`).

**Not in the model.** Rename hints, intent found in earlier migrations, column
facets other than the type, partitions, several PostgreSQL schemas, extensions,
deferred sequence ownership, an enum value used in the file that adds it (an
error of the check and of PostgreSQL), the validity of an index (an interrupted CREATE
INDEX CONCURRENTLY leaves an invalid one, which IF NOT EXISTS then takes for
built).

## Migrations written by hand: `PostgresDdl`, `DdlReplay`, `ReplayHistory`

`migrations:` is a source of a diff, and what `sources.from: auto` takes when a
migration was written by hand. Its statements are not the guarded ones of the
renderer: they rename, drop with CASCADE, alter policies and make constraints of
indexes. Replay keeps every object in five forms that each such statement must
keep in step: its key, its SQL, its dependencies, its column references, and a
hash that is compared with the hash of the same object in a tree.

**State and actions.** An object is a record of what refers to what: `about`,
`uses`, the clauses that name columns (`places`), the columns a foreign key
refers to, a table's columns. `PostgresDdl` (external) runs a statement on a
schema: names are resolved, DROP follows `pg_depend` (`Gone`, between objects
and single columns), a rename changes every reference but a function's body.
`DdlReplay` follows the handlers of `src/source/replay.ts` one by one, with their
metadata (`deps`, `cols`) and what each leaves as the hash; `OrderGap` is the
union of their refusals. `ReplayHistory` starts with a schema that plain CREATE
statements made, which is how both sides have the same one, and `Step` gives
PostgreSQL and replay the next statement that PostgreSQL accepts.

**Run.** `replay_history` takes every sequence of four out of 17 to 36
statements over each of three schemas: a table with a unique key and two indexes
and one that refers to it; a table with row-level security, a policy that reads
another table, views on each other, a grant and a function; an enum and its
columns. Four statements rename something and rename it back, with one before
and one between, or drop what a rename or an altered policy has made refer to
something else. It checks `ReplayAgrees`: replay refuses nothing that PostgreSQL
ran, has the schema PostgreSQL has, object by object, and every reference that a
fresh reading of that schema finds; and what it has compares equal with that
schema, so that the next diff plans nothing.

**Named gaps.** The property holds outside situations in which replay is wrong,
each a predicate on the statement and the schema it is run on, never on the
model; without any one of them TLC finds the disagreement.
`docs/concepts/sources.mdx:242` says that replaying "rebuilds the before-state
from the whole corpus, so it is its own baseline proof" and :244 that it is
"fail-closed for shape-corrupting gaps"; in all but `NotRead` no diagnostic is
raised.

- `RenamedOutside`: a renamed column is used outside its table (a view, a policy
  of another table) or at the other end of a foreign key; only what is in the
  table is rewritten.
- `RenamedInOneClause`: a part of the table names the column in two clauses; the
  first is rewritten.
- `RenamedNamesake`: a policy names a column of another table with the same name,
  which is rewritten instead or as well.
- `RenamedThroughTable`: `ALTER TABLE ... RENAME TO` of a view or an index, which
  PostgreSQL accepts, is passed over.
- `RenamedSecurity`: the row-level security of a renamed table and the grants on
  it stay under the old name, and a function whose body has the old name gets
  the new one as its dependency.
- `RenamedCommented`: the comment on a renamed index, or on one that becomes a
  constraint.
- `DroppedBeyond`: what goes with a dropped column outside its table, or with a
  dropped constraint, and the comments on what goes.
- `CascadeByName`: CASCADE takes the tables that have a dropped type, where
  PostgreSQL takes the columns, and the functions whose body names what is
  dropped, which PostgreSQL keeps.
- `NameTaken`: CREATE ... IF NOT EXISTS does nothing when another object has the
  name; replay creates a second one.
- `TypeDependency`: the dependencies of a table are not read again when a column
  of a type comes, goes or is retyped.
- `NotRead`: `ALTER TABLE IF EXISTS` of a table that is not there, and ALTER INDEX
  on the index of a constraint, are refused.
- `Rewritten`: only the hash differs. Whatever is rewritten after a rename is
  hashed by its text, an altered enum by its values, so that the next diff from
  `migrations:` replaces objects that are right.

Two more facts without a run: renames of functions, views, schemas and sequences
are `SUPA_REPLAY_UNSUPPORTED`, although rename hints render such statements
(`docs/reference/support-matrix.mdx:106`), so that a directory with one can no
longer be a source. And a recreated object is compared by definition only, so a
gap that leaves `deps` or `cols` wrong shows later, as a dependent that a plan
misses.

**Not in the model.** Triggers, sequences, partitions, domains, several columns
or commands in one statement, constraints and NOT NULL inside CREATE TABLE, DO
blocks, schemas that the configuration ignores, column references qualified with
the table in a view. No theorem is proved here: DROP's closure is recursive.

## Privileges: `PrivilegeModel` and `PrivilegeHistory`

A right is a privilege on an object or on one of its columns; an object of the
model is a verb with the rights it names, those of them with grant option, and
its ordinal. `SuppressCleared`, `ResolveInterleaved`, `MergeSplit` and
`SuppressDefaultEqual` are the lanes of `normalizeSourceObjects` that cancel and
merge such objects; a complete list of rights stands for the list `["ALL"]` to
which the code normalises it. `Declared` applies the lanes once (declarations),
`ReplayStatement` after every statement (migrations), `Catalog` is what the
queries of `src/catalog/grants.ts` find. `Migrated` executes the diff of two
models: drops in reverse order, then creations and replacements, which drop
first. `PrivilegeHistory` writes statements one by one (`Write`), beside a
database that executes them, starts a new tree (`Rewrite`) and deploys the tree
from the model deployed last or from the live database (`Deploy`).

The run `privilege_sources` takes every history of four statements, in one tree
or in several, on a table with three privileges and a column, on a schema, and
for PUBLIC on a function and on a type, whose revokes the catalog queries do not
tell. Four are enough for a grant, a revoke, a grant again
and a revoke of that one, after which every lane has acted on the result of
every other.

- `SourcesAgree`: where statements name privileges of the object itself and none
  of them all, the model of declarations is what the database tells, and so is
  that of migrations unless the privileges granted so far became all there are.
- `ReplayNeverWidens`: a database built from the model of migrations gives
  nothing that the migrations themselves do not, whatever they name.
- `DeploysExactly`: a deployment over a model that keeps no revoke beside its
  grant leaves what the target makes on an empty database. For PUBLIC on a type
  the diff must start from the model: a diff from the database does not know that
  USAGE was revoked, and has nothing to grant back.

The conditions of the first and the third are where the code departs from its
documents.

- `CHANGELOG.md:11` says that
  "later revokes after an intermediate regrant now converge to the same final
  model for `dir:` and `migrations:` sources", and three statements with ALL do
  not. All revokes of declarations are merged at the place of the first, so that
  REVOKE INSERT, GRANT INSERT, REVOKE ALL keeps the grant there and nothing in
  migrations; a partial revoke cancels an ALL grant entirely, so that GRANT ALL,
  REVOKE INSERT, GRANT INSERT leaves nothing in declarations (which
  `tests/source/normalize.test.ts` expects of a like sequence) and INSERT in
  migrations.
- GRANT USAGE, GRANT CREATE on a schema, REVOKE CREATE differs too without
  naming ALL: replay has normalised the two grants to ALL before the revoke.
- A partial revoke kept beside a grant with grant option, both removed from the
  tree: the revoke's reversal grants a right that the database never had
  (`docs/reference/support-matrix.mdx:35`: "removal of modeled `REVOKE` restores
  the grant"), and nothing takes it back.

Not in the model: default privileges and the grants they imply, roles that
inherit, PUBLIC on databases, ALL ... IN SCHEMA.

**Proved.** `PrivilegeHistoryProofs`, for any kinds of objects, any sets of
rights that statements name, and histories of any length:

- `NeverWidens` (`ReplayNeverWidens`). What a model grants is what its grant
  names and no revoke after it takes (`Held`, `HeldOption`). The invariant
  `WidenInv` says that the replayed model has at most one grant and one revoke,
  in this order, and grants nothing that the database does not have
  (`ModelHeld`). The order is what carries the argument: the third lane moves
  revokes to the place of the first, so that a revoke could slip before a grant
  it must take from; adding one statement to a model in order leaves either all
  revokes behind all grants or a single revoke (`Fit`), and then each lane
  grants no more than it was given (`ClearedKeeps`, `InterleavedKeeps`,
  `MergeKeeps`, `SuppressKeeps`). Declarations, whose revokes are all merged at
  once, are not `Fit`, and there the same is false (GRANT INSERT kept above).
  For PUBLIC nothing is cancelled but grants, and `PublicHeld` says that it is
  without what it had only if the model has a revoke. `BuildsHeld` is the
  migration that builds a model.
- `SourcesCorrect` (`SourcesAgree`). `Net`, which the second lane computes, is
  what a database keeps of statements by name (`TreeNet`, by `NetAdds` for each
  statement). The first lane leaves out only what `Net` does not have
  (`ClearedNet`), and the lanes together make of named statements their net
  grant and nothing else (`NormalisedNet`); hence normalising after every
  statement and normalising once are the same (`NormalisedSame`, `ReplayNet`).
- `DeploymentsExact` (`DeploysExactly`). The invariant `DeployInv` says that what
  was deployed last is a model that some tree makes: at most one grant and one
  revoke, and for PUBLIC at most a revoke of the one privilege. `DeclaredIs` adds
  that a revoke stays only behind a grant. `MigratedIs` takes the two loops of a
  migration over such models apart: at most one object is dropped, at most two
  are put, the grant first. Rights on a column that the role has on the whole
  object come and go, so that the ACLs are compared by what they let the role do
  (`SameEffect`, equal to `Effective` by `EffectIs`). A grant that tells what a
  database has, be it the model deployed last or `Catalog`, reversed, leaves
  nothing (`RemovedIs`); hence any target is reached from it as from nothing
  (`GrantDeploys`, and `PublicDeploys` for PUBLIC). A kept revoke breaks the
  first step, which is why the property excludes it.

The first lane is a loop over statements and a migration one over the objects of
a model, both recursive functions; `ClearedStays`, `BuildsHeld` and `TwoLoops` are inductions
over them by the lemmas of `IterationProofs`. Assumed of the constants:
a statement names some right (`NamedAssumption`), and what PUBLIC has from the
start is the one privilege of its kind, which has no columns
(`KindsAssumption`: `builtinPublicDefaults` of `src/sql/privileges.ts` has
EXECUTE for routines and USAGE for types).

## Generated contracts: `PostgresViews`, `ViewColumns`, `ViewShapes`

`generate` has no database: it finds the columns of a view by reading its query,
and what may be written through it from the form of that query. `CollectViewColumns`
is `collectViewColumns` over the relations known so far; a source is its columns
in order and by the names they may be qualified with, and as the code compares
arrays, not their contents, each carries the one it is. `Collect` is one turn of
the inner loop of `registerViewShapes`, `EndPass` the end of a pass, `Register`
the loop that makes the entries. `PostgresViews` says the same of PostgreSQL,
which knows the views in the order they were created and looks names up level by
level. Only the kinds of types are compared that the contracts tell apart.

The run `view_shapes` has three views over two tables, one of them with a
generated column: 37 first views (stars, aliases, casts, joins with USING,
NATURAL and an alias, WITH that hides a table, LATERAL, queries in the select
list up to three deep, UNION, DISTINCT, aggregates, functions that return a set,
a materialized view, lists of column names), six ways to read the first, two to
read the second or both, and the three in any order in the model. Three are what
the passes need: types arrive one view later in each pass when the order is the
worst, and a limit of two passes is then too small. `ContractsAgree`: each
contract has the columns of the database, their order and their kinds, and lets
one write what the database does. Not, however, in these cases, which are named in
the property's condition, each of them needed:

- `UnnamedExpression`: without an alias `id::text`, COALESCE or a query as a
  value gives no column at all, and the others move up. The hint of
  `src/typegen/model.ts:350` recommends such casts.
- `FewerNames`: a view with fewer names than columns has the named ones only, of
  unknown type.
- `QuotedFirst`: a quoted literal counts as text, also when COALESCE or UNION
  goes on with a number.
- `HiddenName`: a table's own name stays a qualifier beside its alias, and is
  lost when another relation takes it as alias.
- `TwoLevelsOut`: the levels around a query are one for a query inside it, so a
  name of two of them has no type.
- `WriteGap`: a view over a view that cannot be written, over a materialized
  view, or a generated column is offered for writing, where
  `tests/typegen/database.test.ts:311` says that write contracts are emitted
  "only for automatically updatable views"; of a star and a list of names the
  names do not tell which columns are none; an aggregate inside a query of its own
  takes the write contract of a view that can be written.

Not in the model: VALUES, functions in FROM, operators, arrays, CASE, overloaded
functions, several schemas, domains and enums behind a column, relations outside
the model with their warning. Nothing is proved here: queries are read
recursively.

## The license service: `LicenseWorker`

**State and actions.** One checkout session, with a one-time price or a
subscription that is renewed. Stripe (external) has a current period and
delivers an event until it is answered 2xx, possibly again after that
(`Deliver`). Every webhook request is a process whose steps are the awaits of
`handleCheckoutCompletion` (`ReadToken`, `FindRecord`, `MissRecord`, `LookUp`,
`StoreRecord`, `Mint`) or `handleInvoiceRenewal` (`LoadRecord`, `LoadToken`,
`Initialize`, `Renew`). A read of the key-value store returns the last value or
one not yet propagated away (`oldRecord`, `oldToken`). `Reconcile`, `Later` and
`Renew` are the transactions of the durable object. `Lose` kills a request
after any await, or loses its answer. `Answer` is what the buyer is given.

A behaviour starts with a checkout that has just been paid (`NewCheckout`; the
invoice of its own period came before the record and was ignored) or when the
first period of a subscription is over (`FirstPeriodOver`).

**Run.** `license_events`: two requests at a time; time goes from 1 to 2, so that a
new checkout sees one renewal and an established subscription two, which arrive
and proceed in any order; one lost request or one repeated delivery
(`MaxMishaps`), and one invoice without exactly one line of the price
(`MaxUnmatched`).

- `PaidFor`: nothing the buyer can be given runs beyond what was paid.
- `CoordinatorSound`, `CoordinatorMonotone`: the coordinator's token and record
  never part and never move back. The case that needs the comparison with the record
  (`subscription-renewal.ts:306`) is in the run: the first renewal is delivered in its
  own period, the second one is applied before it, and the clock of the first request
  alone would let it through (`SettledByClock`).
- `EventuallyLicensed`: a paid checkout gets its token, unless a worker stopped
  between the two writes and the recorded period has ended (`Stranded`: every
  retry is then refused).
- `RenewalApplied`: a paid invoice extends the license, unless its period is over
  by then, its lines do not name the price, or one of its deliveries found no
  subscription record: that delivery is answered 200 and never repeated.

Fairness: requests that are not lost go on, unanswered events are delivered
again, and the store propagates, which Stripe and Cloudflare document. Two
requests are what the overlaps need, since every action touches one request and
the shared records. The worker's own README says that a retry never mints a
second time; two deliveries that overlap, or one that reads a stale store, do,
and the properties are stated so that they hold for both tokens.

**Proved** (`LicenseWorkerProofs`) for any number of requests, any time and any
number of faults: `TypeOK`, `PaidFor`, `CoordinatorSound`, `CoordinatorMonotone`.
The inductive invariant `IInv` says of every place a date or a token can be (a
request, the store, a stale replica, the coordinator) that it is absent or not
beyond the period at Stripe, and ties a request's values to its step. Liveness
is model-checked only.

Not in the model: creating the checkout, the contract registry, the OAuth
exchange with its single-use state, signatures and claims (taken as valid).

## Session state of the agent hooks: `SessionLock`

Each `Process` is one hook, each action a system call of `state.mjs` (or several
that no other process can tell apart). The lock is a directory; `creator` is who made it,
`owners` and `torn` the owner files in it, `stale` that it has not changed for
`lockInitializationGraceMs`. Updating hooks (`withSessionState`), session ends
(`clearSessionState`) and session starts (`refreshSessionState`) take it,
reclaim it from dead processes, time out, or are killed. The saved state is the
set of hooks whose evidence it holds: an update lost is a hook missing.

The run `lock_hooks` has two updating hooks and a session start, any one of them
killed anywhere: `ReadIsCurrent` and `LiveOwnerKept` hold, and `HookEnds` under
fairness: a dead owner, an empty directory and a torn owner file are got over.
Three processes are what every race of this lock needs: one that decided from
an old listing, one that has the directory, one that makes it again.

`ReadIsCurrent` carries the condition `~intruded`, which names a race the code
has: between `mkdir` and the owner file the directory is empty; a process that
decided to remove it from an earlier listing, or after the grace period, makes
room for a third process's directory, and the first then creates its owner file
in that one. Two processes then pass `assertOwned` one after the other and one
update is lost. The property, and the theorem, say that this is the only way.
One race is visible in the model and in no property: `assertOwned` and the rename
are two steps, and a session start between them resets the state that the stale
commit then replaces, where a test of the repository says that the lock "rejects
a stale commit".

Fairness: time passes (`WF(Age)`), processes that are not killed run
(`WF(Proceed)`), and `SF(OpenOwner)`: the 20 ms pause before a retry keeps two
processes from removing each other's directories in step for ever. Timing out
is not fair, so `HookEnds` does not rest on it.

Proved for any number of processes and crashes: `ReadIsCurrent` and
`LiveOwnerKept`. The inductive invariant (`IInv` of `SessionLockProofs`) says
that, while nobody has intruded, owner files were put there by the one process
that made the directory (`OwnersMadeIt`) and a process between its owner file
and its release still holds it (`HoldersOwn`); hence only one process is
between reading and renaming. Liveness is model-checked only. Reuse of process
ids, failing system calls other than the ones the code expects, and the content
of the state (turns, evidence, their limits and expiry) are not in the model.

## What is not modelled

See the components with status `not_modelled` in `PROJECT.json`, each with its
reason. Most of the repository's lines turn text into trees and trees into text:
extraction and normalisation of statements (`src/source/extract.ts`,
`src/sql/*.ts`), the contracts of tables and functions and their text (`src/typegen`), scaffolding (`bin`),
configuration and reports. They are sequential, have no state between calls,
and are right or wrong in their data; a model that keeps control and abstracts
data keeps nothing of them. This is why the map covers a small share of all
lines although it covers most of the code whose correctness depends on order,
failure or concurrency.

Only model-checked, never proved: every liveness property, what `RECURSIVE`
operators compute (the replay of hand-written migrations, the cascades of their
drops, the columns of views), and of the planner whatever says that
PostgreSQL accepts a statement, that the end is the target, or that replay,
verification and the static check agree with it (`Applies`, `Reaches`,
`HistoryAgrees`, `VerifiedHolds`, `RightIsVerified`, `CheckFindsOrder`): outside
the named gaps these hold for the families of the run, and no argument known here
rules out a further gap in another family. The induction
theorems of the prover's library cannot be used, because they take an operator.
Induction over natural numbers rests instead on the well-foundedness of their order
(`IterationProofs`): from it follow what is proved of least and greatest numbers
(`MinIsLeast`, `MaxIsGreatest`), of sets closed under successor (`AllNaturals`) and
of recursive functions (`RoundsExist`, `LoopStays`, `IterationExists`).

## Plan

Done, in the order of importance: applying migrations, the sync pipeline, the
sort, the session lock, the license service, the planner with its order, its
renderer and its replay composed with PostgreSQL, the privileges, the replay of
migrations written by hand, the contracts of views; with the
abstract specifications `MigrationLedger` and `LinearExtension`. Left:

1. A theorem for two worktrees that keep to different seconds, where the chain
   may fork and only `VersionMeansExecuted` can remain.
2. A theorem that `Sorted` of `PlanExecution` implements `LinearExtension` when
   the edges of `PlanOrder` have no cycle.
3. Default privileges in `PrivilegeModel`: `suppressDefaultAclImpliedGrants` and
   the order of ALTER DEFAULT PRIVILEGES against the objects it applies to.
4. `diff --replace`, which writes a migration and its companion one after the
   other.
5. The trimming of session state, the single-use OAuth state.
