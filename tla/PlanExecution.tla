----------------------------- MODULE PlanExecution -----------------------------
(***************************************************************************)
(* A diff, planned (planSchemaDiff), ordered (sortOperations), rendered    *)
(* (renderMigration) and run against a database that holds the schema      *)
(* `from`, statement by statement.  The run may stop anywhere, and the file*)
(* is then run again from its first statement; a file that ran to its end  *)
(* may be run again as well.  Before it is run, it is verified.            *)
(***************************************************************************)
EXTENDS MigrationVerification, MigrationReplay

CONSTANTS Cases,      \* what is diffed: <<from, to, configuration>>, the last one
                      \* [mode, hints, inTransaction]
          MaxRuns     \* how often the file is run

ASSUME RunsAssumption == MaxRuns \in Nat \ {0}

\* A key names the kind of its object.
ASSUME KeysAssumption ==
    \A c \in Cases : \A o \in c[1], p \in c[2] : o.key = p.key => o.kind = p.kind

\* The names an object's definition depends on.
Uses(o, schema) ==
    o.deps \cup {o.table, o.fn} \cup {p.key : p \in {q \in schema : IsAbout(o, q)}}

\* A schema is finite, has one definition for each key, and the one that a database
\* or a history has holds together; its statements name the relation of each column
\* they refer to; a grant carries the name of one object.
ASSUME SchemasAssumption ==
    \A c \in Cases :
        /\ IsFiniteSet(c[1]) /\ IsFiniteSet(c[2])
        /\ \A o, p \in c[1] : o.key = p.key => o = p
        /\ \A o, p \in c[2] : o.key = p.key => o = p
        /\ Consistent(c[1])
        /\ \A o \in c[1] : \A rc \in o.cols : rc[1] \in Uses(o, c[1])
        /\ \A o \in c[2] : \A rc \in o.cols : rc[1] \in Uses(o, c[2])
        /\ \A o \in c[1] : o.kind \in {"grant", "comment"} => o.target # None
        /\ \A o, p \in c[1] \cup c[2] :
               o.grantId \in {p.key, p.grantId} \ {None} => o.key = p.key
        /\ \A o \in c[1] \cup c[2] : Fields \subseteq DOMAIN o

\* None is no definition and no name.  A table depends on the types of its columns
\* only, and an enum on nothing; neither belongs to anything.  What belongs to an
\* object has nothing that belongs to it but a comment or a grant, and these have
\* nothing.  The columns of relations are referred to, each by its relation and its
\* name.  An object has one name for grants.
WellShaped(S) ==
    /\ None \notin S /\ None \notin Keys(S)
    /\ \A o \in S :
           /\ o.kind = "table" => o.deps = TypesOf(o.columns)
           /\ o.kind = "enum" => o.deps = {}
           /\ o.kind \in {"table", "enum"} =>
                  /\ {o.table, o.fn, o.target} = {None}
                  /\ o.cols = {} /\ o.fkey = {}
           /\ \A rc \in o.cols : rc = <<rc[1], rc[2]>>
           /\ o.out \in Seq(RangeOf(o.out))
    /\ \A o, p \in S :
           /\ o.table = p.key => p.table = None
           /\ p.kind \in {"comment", "grant"} => o.table # p.key /\ ~IsAbout(o, p)
           /\ \A rc \in o.cols : rc[1] = p.key => p.kind \in RelationKinds
           /\ o.key = p.key => o.grantId = p.grantId
ASSUME ShapesAssumption == \A c \in Cases : WellShaped(c[1] \cup c[2])

VARIABLES from, to, config,   \* what is diffed, and with which configuration
          phase,              \* of the command, and then of the migration
          ops, edges, sorted, \* the plan; while it is sorted, its graph and the
                              \* operations already in order
          file, companion,    \* the statements of the migration and its companion
          verdict,            \* of verification
          at,                 \* statements run
          db, rows,           \* the catalog; columns that still have their rows
          runs                \* how often the file was started
diff == <<from, to, config>>
plan == <<ops, edges, sorted, file, companion>>
vars == <<diff, phase, plan, verdict, at, db, rows, runs>>

TableRows(schema) ==
    UNION {{o.key} \X DOMAIN o.columns : o \in {p \in schema : p.kind = "table"}}

Init ==
    /\ \E c \in Cases : from = c[1] /\ to = c[2] /\ config = c[3]
    /\ phase = "diff"
    /\ ops = {} /\ edges = {} /\ sorted = {}
    /\ file = <<>> /\ companion = <<>> /\ at = 0 /\ runs = 0
    /\ verdict = None
    /\ db = from /\ rows = TableRows(from)

-----------------------------------------------------------------------------
\* planSchemaDiff.  A plan with an error is not run.
Plan ==
    /\ phase = "diff"
    /\ ops' = PlanSchemaDiff(from, to, config)
    /\ edges' = Edges(ops')
    /\ phase' = IF Refused(ops') THEN "refused" ELSE "sorting"
    /\ UNCHANGED <<diff, sorted, file, companion, verdict, at, db, rows, runs>>

\* sortOperations takes an operation, which is rendered where it stands, or in the
\* companion.
Sort ==
    /\ phase = "sorting"
    /\ LET ready == Ready(ops \ sorted, edges) IN
       \E op \in ready :
           /\ IsFirst(op, ready)
           /\ sorted' = sorted \cup {op}
           /\ IF ForCompanion(op)
              THEN /\ companion' = companion \o RenderOperation(op)
                   /\ UNCHANGED file
              ELSE /\ file' = file \o RenderOperation(op)
                   /\ UNCHANGED companion
    /\ UNCHANGED <<diff, phase, ops, edges, verdict, at, db, rows, runs>>

\* No operation is ready: they are sorted, and the graph is not kept, or the rest is
\* a cycle, which is an error.
Sorted ==
    /\ phase = "sorting" /\ Ready(ops \ sorted, edges) = {}
    /\ \/ sorted = ops /\ phase' = "rendered" /\ edges' = {} /\ sorted' = {}
       \/ sorted # ops /\ phase' = "cyclic" /\ UNCHANGED <<edges, sorted>>
    /\ UNCHANGED <<diff, ops, file, companion, verdict, at, db, rows, runs>>

\* What is run: the runner takes the companion after its migration.
Script == file \o companion

\* verifyMigration.  The migration is run then, whatever the verdict.
Verify ==
    /\ phase = "rendered"
    /\ verdict' = Verdict(from, to, file, companion, config)
    /\ phase' = "running" /\ runs' = 1
    /\ UNCHANGED <<diff, plan, at, db, rows>>

Run ==
    /\ phase = "running" /\ at < Len(Script)
    /\ CanExecute(Script[at + 1], db)
    /\ db' = Execute(Script[at + 1], db)
    /\ rows' = rows \ RowsLost(Script[at + 1])
    /\ at' = at + 1
    /\ UNCHANGED <<diff, phase, plan, verdict, runs>>

Fail ==
    /\ phase = "running" /\ at < Len(Script)
    /\ ~CanExecute(Script[at + 1], db)
    /\ phase' = "failed"
    /\ UNCHANGED <<diff, plan, verdict, at, db, rows, runs>>

Finish ==
    /\ phase = "running" /\ at = Len(Script)
    /\ phase' = "finished"
    /\ UNCHANGED <<diff, plan, verdict, at, db, rows, runs>>

\* The run stopped, or is repeated: the file starts over.
Rerun ==
    /\ phase \in {"running", "finished"} /\ runs < MaxRuns
    /\ phase' = "running"
    /\ at' = 0 /\ runs' = runs + 1
    /\ UNCHANGED <<diff, plan, verdict, db, rows>>

Next == Plan \/ Sort \/ Sorted \/ Verify \/ Run \/ Fail \/ Finish \/ Rerun

Spec == Init /\ [][Next]_vars

-----------------------------------------------------------------------------
(* Plans the planner gets wrong.  Each predicate is about the diff and the *)
(* plan, never about what happened.                                        *)

Drops(op) == \E i \in 1..Len(RenderOperation(op)) : RenderOperation(op)[i].does = "drop"
Dropped == {Subject(op).key : op \in {p \in ops : Drops(p)}}

\* The objects PostgreSQL records as needed, apart from the table it belongs to.
Recorded(o) == IF Records(o) THEN (o.deps \cup {o.fn}) \ {o.table, None} ELSE {}

\* A kept object gives up a dependency on something that is dropped: the drop
\* comes first.
StopsUsing ==
    \E o \in from : /\ Has(to, o.key)
                    /\ (Recorded(o) \ Recorded(At(to, o.key))) \cap Dropped # {}

\* A kept object leaves a changed column for one that the same ALTER adds: it is
\* replaced first.
MovesToAddedColumn ==
    \E o \in from, alter \in ops :
        /\ Has(to, o.key) /\ AltersATable(alter)
        /\ UsesColumn(o, ChangedIn(alter)) /\ UsesColumn(At(to, o.key), AddedIn(alter))

\* What is dropped with a table, and so without an operation, depends on another
\* object that is dropped, or is a foreign key to a key that is dropped.
DroppedTogether ==
    \E o \in from :
        /\ DroppedWithOwner(o, from, to)
        /\ \/ Recorded(o) \cap Dropped # {}
           \/ \E op \in ops : op.kind = "drop" /\ KeyConstraintOf(o, op)

\* A type is dropped while a column has it.
ReplacedTypeInUse ==
    \E o \in from : o.kind = "table" /\ o.deps \cap Dropped # {}

\* A routine is dropped and created again while something uses it:
\* replacedDependencyKinds has no routines.
RoutineReplaced ==
    \E op \in ops : /\ op.kind = "replace" /\ op.dropFirst /\ ~op.preDropped
                    /\ op.after.kind \in RoutineKinds

\* An object is dropped to be recreated and the plan does not grant again what
\* was granted on it: a retyped column asks only for views and indexes, and the
\* grants of a routine go under a name that isAffectedDependent does not know.
GrantLost ==
    \E op \in ops, g \in from :
        /\ op.pre /\ GrantsOn(g, {op.before.grantId})
        /\ Has(to, g.key) /\ <<g.key, FALSE>> \notin Ids(ops)

\* An index, a key, a trigger or a policy is dropped to be replaced: its comment
\* goes with it, and only what depends on a replaced relation gets its comments
\* back (replacedDependencyKinds).
CommentLost ==
    \E op \in ops, c \in from :
        /\ op.kind = "replace" /\ op.after.kind \notin ReplacedDependencyKinds
        /\ Drops(op) /\ CommentsOn(c, {op.after.key})
        /\ Has(to, c.key) /\ <<c.key, FALSE>> \notin Ids(ops)

\* The migration comments on an index that only its companion builds.
CommentedTooEarly ==
    \E op \in ops, c \in ops :
        /\ ForCompanion(op) /\ op.after # None
        /\ c.after # None /\ CommentsOn(c.after, {op.after.key})

KnownGap == \/ CommentLost \/ CommentedTooEarly
            \/ StopsUsing \/ MovesToAddedColumn \/ DroppedTogether
            \/ ReplacedTypeInUse \/ RoutineReplaced \/ GrantLost

\* A replacement must leave a column before the table is altered, but now uses
\* an object that is to come after that.
LeavesForLaterObject ==
    \E op \in ops, alter \in ops, dep \in ops :
        /\ LeavesColumnFirst(op, alter, ops)
        /\ <<dep, op>> \in edges /\ <<alter, dep>> \in edges

\* The file ends with a user of something that it drops or retypes on its way,
\* and does not drop that user first.
LeavesUserBehind ==
    \E o \in to :
        /\ <<o.key, TRUE>> \notin Ids(ops)
        /\ \/ o.kind \notin TargetOnlyPreDropKinds /\ Recorded(o) \cap Dropped # {}
           \/ /\ Records(o) /\ o.kind \notin {"index", "constraint", "comment"}
              /\ \E op \in ops : UsesColumn(o, RetypedIn(op))

\* A statement that has no guard for it is about an object, a table or a column
\* that a later one drops.
OutlivesOwner ==
    \E op \in ops, p \in ops :
        /\ op.kind = "drop"
        /\ \/ op.before.kind \in {"constraint", "rls", "comment"}
              /\ op.before.table \in Dropped
           \/ IsAbout(op.before, Subject(p)) /\ Drops(p)
           \/ op.before.kind = "comment" /\ UsesColumn(op.before, ChangedIn(p))

\* The statements of this plan may meet what the first run left.
ReplayGap == LeavesUserBehind \/ OutlivesOwner

\* A commented constraint is dropped: applyDropConstraint keeps its comment, and
\* the plan has no statement for that.
CommentKept ==
    \E o \in from, c \in from :
        o.kind = "constraint" /\ o.key \in Dropped /\ CommentsOn(c, {o.key})

\* Replay takes an index of the companion along with the owner that the migration
\* itself drops and creates again.
OwnerReplayedLater ==
    \E op \in ops : ForCompanion(op) /\ op.after # None /\ op.after.table \in Dropped

\* Values are added to an enum, and the replayed enum compares different from the
\* database's, although it has the same values.
EnumGrown == \E op \in ops : op.kind = "alter" /\ op.after.kind = "enum"

\* The target has an index that is to be built concurrently, which no catalog tells,
\* or a comment on one cannot be given to the temporary database, which lacks it.
ConcurrentUnverified ==
    \E o \in from \cup to :
        o.concurrent /\ (o \in to \/ \E c \in from : CommentsOn(c, {o.key}))

\* A grant on a view is revoked, and then the view is replaced in place, which the
\* check takes for its creation.
RevokedFromReplacedView ==
    \E op \in ops, g \in ops :
        /\ op.kind = "replace" /\ op.after.kind = "view" /\ ~Drops(op)
        /\ g.kind = "drop" /\ GrantsOn(g.before, {op.after.grantId})

-----------------------------------------------------------------------------
(* Properties *)

\* Every variable has its type, no two operations of a plan have the same key
\* (identityIndex finds operations by it), and PostgreSQL keeps its catalog intact.
TypeOK ==
    /\ phase \in {"diff", "refused", "sorting", "cyclic", "rendered", "running", "failed", "finished"}
    /\ sorted \subseteq ops /\ edges \subseteq ops \X ops
    /\ verdict \in {None, "accepted", "drift", "rejected"}
    /\ at \in 0..Len(Script) /\ runs \in 0..MaxRuns
    /\ rows \subseteq TableRows(from)
    /\ Cardinality({Id(op) : op \in ops}) = Cardinality(ops)
    /\ Intact(db)

\* The planner finds an order for every diff, and PostgreSQL refuses no statement
\* of the migration: not in its first run, to its end or to where it is stopped,
\* and not when it is run again after that.
Applies ==
    /\ phase = "cyclic" => LeavesForLaterObject
    /\ phase = "failed" => KnownGap \/ (runs > 1 /\ ReplayGap)

\* A migration that ran to its end, once, again, or after it was stopped
\* anywhere, has made the database the schema it was planned for.
Reaches == phase = "finished" => db = to \/ KnownGap

\* No row of a table is lost unless the configuration lets that table's key be
\* destroyed.
RowsNeedConsent ==
    \A o \in from : o.kind = "table" /\ ~Allowed(o.key, config) =>
        {o.key} \X DOMAIN o.columns \subseteq rows

\* A set of keys that has what the diff changes and what depends on its members: it
\* has whatever depends on a change, directly or not.
Spreads(keys) ==
    /\ Keys(from \ to) \cup Keys(to \ from) \subseteq keys
    /\ \A o \in from : Uses(o, from) \cap keys # {} => o.key \in keys

\* An object that no change concerns, directly or through what it depends on, is
\* in place at every moment of the migration: what is not in place is in every such
\* set, and so in the least one.
UntouchedStays ==
    LET missing == Keys((from \cap to) \ db) IN
    \/ missing = {}
    \/ \A keys \in SUBSET Keys(from \cup to) : Spreads(keys) => missing \subseteq keys

\* Replaying the statements that were run, on the history's own model, gives what
\* PostgreSQL has: the next diff starts from the database's schema.  Replay reads
\* the files by name, and so the companion before its migration.
HistoryAgrees ==
    /\ phase \in {"running", "finished"} /\ runs = 1
    /\ companion = <<>> \/ at = Len(Script)
    => LET model == Reconstructed(companion \o file, at, from) IN
       /\ model # None
       /\ \/ SameModel(model, db)
          \/ CommentKept \/ OwnerReplayedLater \/ CommentedTooEarly \/ EnumGrown

\* A migration that verification accepts is not refused when it is run once and
\* ends in the target, whatever the planner got wrong; only a stop between two
\* statements, which verification does not try, may keep it from running again.
VerifiedHolds ==
    verdict \in {"accepted", "drift"} =>
        /\ phase = "finished" => db = to
        /\ phase = "failed" => runs > 1 /\ ReplayGap

\* Verification accepts what the planner gets right, but for indexes to be built
\* concurrently.  Nothing that is run changes the verdict or the plan.
RightIsVerified ==
    verdict \in {"rejected", "drift"} /\ at = 0 =>
        KnownGap \/ ReplayGap \/ ConcurrentUnverified \/ RevokedFromReplacedView

\* What was refused is to create an object that needs what a later statement of its
\* file creates.
NeedsLater ==
    /\ file[at + 1].does = "create"
    /\ \E j \in (at + 2)..Len(file) :
           \/ CreatedRelations(file[j]) \cap (Needs(file[at + 1].o) \ Keys(db)) # {}
           \/ \E rc \in file[at + 1].o.cols \cap CreatedColumns(file[j]) :
                  Has(db, rc[1]) => rc[2] \notin ColumnsOf(At(db, rc[1]))

\* The static check, which every migration must pass before it is applied, finds no
\* error in a migration the tool has rendered itself; but it finds one in a migration
\* that PostgreSQL refuses for what a statement needs and a later one creates.
CheckFindsOrder ==
    /\ phase = "rendered" =>
           \/ FilesPass(file, companion, config)
           \/ MovesToAddedColumn \/ RevokedFromReplacedView
    /\ phase = "failed" /\ runs = 1 /\ at < Len(file) /\ NeedsLater =>
           ~FilesPass(file, companion, config)

\* A migration can run more than once without failing.
RunsTwice == phase = "failed" => runs = 1
===============================================================================
