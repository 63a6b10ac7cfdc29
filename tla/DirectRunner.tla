---------------------------- MODULE DirectRunner ----------------------------
(***************************************************************************)
(* The direct migration runner (src/migrations/runners.ts) against one     *)
(* target database, with any number of runs in progress at once: nothing   *)
(* in the code takes a lock on the target.  A run reads the history, later *)
(* connects with the pending list it computed then, and applies one unit   *)
(* after the other, each in a transaction with its history row or, for a   *)
(* unit with a concurrent companion and in per-statement mode, statement   *)
(* by statement with the row at the end.                                   *)
(*                                                                         *)
(* The files come from diffs and syncs that run at any time.  They write a *)
(* unit's files one after the other, and nothing tells a run that has      *)
(* listed the directory in between that more is to come.                   *)
(*                                                                         *)
(* The target (PostgreSQL) is external: history and schema are its         *)
(* committed state, view[r] is what run r's open transaction wrote.        *)
(***************************************************************************)
EXTENDS MigrationHistory

CONSTANTS
  Runner,       \* the processes that may apply migrations to the target
  Object,       \* the schema objects the statements are about
  Absent,       \* the state of an object that does not exist
  MaxFailures   \* bound: how many runs may fail or crash in a behaviour

NoVersion == 0
NoFile == [version |-> NoVersion, name |-> 0, concurrent |-> FALSE]

ASSUME RunnerAssumption == MaxFailures \in Nat

ASSUME StatementAssumption ==
  \A f \in File : \A i \in 1 .. Len(Sql[f]) :
    Sql[f][i].obj \in Object /\ Sql[f][i].op \in {"create", "replace", "drop"}

Statement(p) == Sql[p[1]][p[2]]

\* The files' order: by version, companions of a version last.
LineBefore(p, q) ==
  \/ p[1].version < q[1].version
  \/ p[1].version = q[1].version /\ FileBefore(p[1], q[1])
  \/ p[1] = q[1] /\ p[2] < q[2]

\* What a statement leaves of its object, if it is one that has an effect.
Result(p) == IF Statement(p).op = "drop" THEN Absent ELSE Statement(p).val

\* planner/schema.ts creates what the catalog it starts from lacks or what it has
\* dropped before: what a creation finds, when the files run in order, is nothing
\* or the very thing it creates.
ASSUME CreateAssumption ==
  \A p, q \in LinesOfAll(File) :
    (Statement(q).op = "create" /\ Statement(p).obj = Statement(q).obj /\ LineBefore(p, q))
      => \E d \in LinesOfAll(File) :
           /\ Statement(d).obj = Statement(q).obj
           /\ Result(d) \in {Absent, Result(q)}
           /\ d = p \/ LineBefore(p, d)
           /\ LineBefore(d, q)

VARIABLES
  disk,        \* the migration files in the directory
  history,     \* versions with a committed row in the history table
  schema,      \* [Object -> what the committed catalog holds]
  phase,       \* [Runner -> where its latest run is]
  todo,        \* [Runner -> pending files not applied yet, the current unit's included]
  unit,        \* [Runner -> the version being applied]
  file,        \* [Runner -> the file of the unit being applied]
  line,        \* [Runner -> how many statements of that file have been sent]
  sent,        \* [Runner -> statements of the unit that have been sent]
  view,        \* [Runner -> what its open transaction wrote, by object]
  failures,    \* how many runs have failed
  executed,    \* observability: statements that took effect durably
  missed,      \* observability: files written too late: the run that recorded
               \* their version had read the directory before
  seen,        \* observability: [Runner -> the files on disk at its status check]
  overlapped,  \* observability: [Runner -> its run overlapped another one]
  spoiled      \* observability: a run that overlapped another one stopped
               \* short of the newest version on disk

target == <<history, schema, executed, missed>>
unitVars == <<unit, file, line, sent, view>>
observed == <<seen, overlapped>>
vars == <<disk, target, phase, todo, unitVars, failures, observed, spoiled>>

IdlePhases == {"idle", "done", "failed", "refused"}
UnitPhases == {"sql", "record"}
Phases == IdlePhases \cup {"planned", "ready"} \cup UnitPhases

EmptyView == [o \in {} |-> Absent]

Active(r) == phase[r] \notin IdlePhases

\* Mutant of InTransaction: BEGIN is never sent.
NeverInTransaction(r) == FALSE

InTransaction(r) == phase[r] \in UnitPhases /\ Transactional(UnitFiles(todo[r], unit[r]))

\* No version is left out, and a unit's files are there from the first one on.
Beginnings(files) ==
  \A f \in files, g \in File :
    /\ g.version < f.version => g.version \in VersionsOf(files)
    /\ g.version = f.version /\ FileBefore(g, f) => g \in files

Init ==
  /\ disk \in SUBSET File
  /\ Beginnings(disk)
  /\ history = {}
  /\ schema = [o \in Object |-> Absent]
  /\ phase = [r \in Runner |-> "idle"]
  /\ todo = [r \in Runner |-> {}]
  /\ unit = [r \in Runner |-> NoVersion]
  /\ file = [r \in Runner |-> NoFile]
  /\ line = [r \in Runner |-> 0]
  /\ sent = [r \in Runner |-> {}]
  /\ view = [r \in Runner |-> EmptyView]
  /\ failures = 0
  /\ executed = {}
  /\ missed = {}
  /\ seen = [r \in Runner |-> {}]
  /\ overlapped = [r \in Runner |-> FALSE]
  /\ spoiled = FALSE

-----------------------------------------------------------------------------
(* The target.  Statements are the guarded ones render/guards.ts emits: *)
(* create and drop do nothing when there is nothing to do.              *)

Effect(stmt, before) ==
  IF stmt.op = "drop" THEN Absent
  ELSE IF stmt.op = "create" /\ before # Absent THEN before ELSE stmt.val

Seen(r, o) == IF o \in DOMAIN view[r] THEN view[r][o] ELSE schema[o]

\* Another open transaction holds the lock on o.
LockedFor(r, o) == \E q \in Runner \ {r} : o \in DOMAIN view[q]

NextStatement(r) == Sql[file[r]][line[r] + 1]

WaitsFor(r, q) ==
  /\ phase[r] = "sql"
  /\ line[r] < Len(Sql[file[r]])
  /\ q # r
  /\ NextStatement(r).obj \in DOMAIN view[q]

-----------------------------------------------------------------------------
\* A diff or sync writes the first file of a new unit, newer than all on disk.
WriteMigration ==
  /\ \E v \in Versions \ VersionsOf(disk) : \E f \in File :
        /\ \A g \in disk : g.version < v
        /\ \A w \in Versions : w < v => w \in VersionsOf(disk)
        /\ FirstOf(f, UnitFiles(File, v))
        /\ disk' = disk \cup {f}
  /\ UNCHANGED <<target, phase, todo, unitVars, failures, observed, spoiled>>

\* It writes the next one, the concurrent companion, whatever has happened since;
\* if it has died in between, it never does.
WriteCompanion ==
  /\ \E f \in File \ disk :
        /\ f.version \in VersionsOf(disk)
        /\ FirstOf(f, UnitFiles(File \ disk, f.version))
        /\ disk' = disk \cup {f}
        /\ missed' = IF f.version \in history THEN missed \cup {f} ELSE missed
  /\ UNCHANGED <<history, schema, executed, phase, todo, unitVars, failures, observed, spoiled>>

\* migrationsStatus, with allowMissingHistoryTable: the pending list of a run.
ReadStatus(r) ==
  /\ ~Active(r)
  /\ LET pending == Pending(disk, history)
         others  == {q \in Runner \ {r} : Active(q)}
         outcome == IF HistoryErrors(disk, history) THEN "refused"
                    ELSE IF pending = {} THEN "done" ELSE "planned"
     IN  /\ phase' = [phase EXCEPT ![r] = outcome]
         /\ todo' = [todo EXCEPT ![r] = pending]
         /\ seen' = [seen EXCEPT ![r] = disk]
         /\ overlapped' = [q \in Runner |->
                             IF q = r THEN others # {}
                             ELSE overlapped[q] \/ (q \in others /\ outcome = "planned")]
  /\ UNCHANGED <<disk, target, unitVars, failures, spoiled>>

\* connect and ensureMigrationHistoryTable, before the first unit.
Connect(r) ==
  /\ phase[r] = "planned"
  /\ phase' = [phase EXCEPT ![r] = "ready"]
  /\ UNCHANGED <<disk, target, todo, unitVars, failures, observed, spoiled>>

\* Mutant of BeginUnit: a recorded unit is skipped instead of applied again.
BeginUnrecordedUnit(r) ==
  LET left == Pending(todo[r], history)
  IN  /\ phase[r] = "ready"
      /\ todo[r] # {}
      /\ todo' = [todo EXCEPT ![r] = left]
      /\ \/ /\ left = {}
            /\ UNCHANGED <<phase, unit, file, line>>
         \/ /\ \E f \in left :
                 /\ OldestVersion(f.version, left)
                 /\ FirstOf(f, UnitFiles(left, f.version))
                 /\ unit' = [unit EXCEPT ![r] = f.version]
                 /\ file' = [file EXCEPT ![r] = f]
            /\ phase' = [phase EXCEPT ![r] = "sql"]
            /\ line' = [line EXCEPT ![r] = 0]
      /\ UNCHANGED <<disk, target, sent, view, failures, observed, spoiled>>

\* The next iteration of the loop over groupMigrationUnits(pending).
BeginUnit(r) ==
  /\ phase[r] = "ready"
  /\ \E v \in VersionsOf(todo[r]) : \E f \in todo[r] :
        /\ OldestVersion(v, todo[r])
        /\ FirstOf(f, UnitFiles(todo[r], v))
        /\ unit' = [unit EXCEPT ![r] = v]
        /\ file' = [file EXCEPT ![r] = f]
  /\ phase' = [phase EXCEPT ![r] = "sql"]
  /\ line' = [line EXCEPT ![r] = 0]
  /\ UNCHANGED <<disk, target, todo, sent, view, failures, observed, spoiled>>

\* applySqlStatements: one client.query per statement of the file.
ExecuteStatement(r) ==
  /\ phase[r] = "sql"
  /\ line[r] < Len(Sql[file[r]])
  /\ LET stmt == NextStatement(r)
         after == Effect(stmt, Seen(r, stmt.obj))
         place == <<file[r], line[r] + 1>>
     IN  /\ ~LockedFor(r, stmt.obj)
         /\ sent' = [sent EXCEPT ![r] = @ \cup {place}]
         /\ IF InTransaction(r)
            THEN /\ view' = [view EXCEPT ![r] =
                               [o \in DOMAIN view[r] \cup {stmt.obj} |->
                                  IF o = stmt.obj THEN after ELSE view[r][o]]]
                 /\ UNCHANGED <<schema, executed>>
            ELSE /\ schema' = [schema EXCEPT ![stmt.obj] = after]
                 /\ executed' = executed \cup {place}
                 /\ UNCHANGED view
  /\ line' = [line EXCEPT ![r] = @ + 1]
  /\ UNCHANGED <<disk, history, missed, phase, todo, unit, file, failures, observed, spoiled>>

\* Mutant of NextUnitFile: only the first file of the unit is applied.
SkipCompanions(r) ==
  /\ phase[r] = "sql"
  /\ line[r] = Len(Sql[file[r]])
  /\ phase' = [phase EXCEPT ![r] = "record"]
  /\ UNCHANGED <<disk, target, todo, unitVars, failures, observed, spoiled>>

\* applyUnitSql: the loop over the files of the unit.
NextUnitFile(r) ==
  LET later == {g \in UnitFiles(todo[r], unit[r]) : FileBefore(file[r], g)}
  IN  /\ phase[r] = "sql"
      /\ line[r] = Len(Sql[file[r]])
      /\ IF later = {}
         THEN /\ phase' = [phase EXCEPT ![r] = "record"]
              /\ UNCHANGED <<file, line>>
         ELSE /\ \E g \in later : FirstOf(g, later) /\ file' = [file EXCEPT ![r] = g]
              /\ line' = [line EXCEPT ![r] = 0]
              /\ UNCHANGED phase
      /\ UNCHANGED <<disk, target, todo, unit, sent, view, failures, observed, spoiled>>

\* Run r leaves the unit it was in.
LeaveUnit(r) ==
  /\ unit' = [unit EXCEPT ![r] = NoVersion]
  /\ file' = [file EXCEPT ![r] = NoFile]
  /\ line' = [line EXCEPT ![r] = 0]
  /\ sent' = [sent EXCEPT ![r] = {}]
  /\ view' = [view EXCEPT ![r] = EmptyView]

\* insertMigrationHistoryVersion, ON CONFLICT DO NOTHING: the row says nothing
\* of the files the version had when the run read the directory.
Recorded(r) ==
  /\ history' = history \cup {unit[r]}
  /\ missed' = IF unit[r] \in history THEN missed
               ELSE missed \cup (UnitFiles(disk, unit[r]) \ seen[r])

\* What the target holds once r's transaction commits.
Committed(r) ==
  /\ Recorded(r)
  /\ schema' = [o \in Object |-> Seen(r, o)]
  /\ executed' = executed \cup sent[r]

\* appliedVersions.push: the loop goes on with the units after this one.
UnitApplied(r) ==
  /\ phase' = [phase EXCEPT ![r] = "ready"]
  /\ todo' = [todo EXCEPT ![r] = {f \in @ : f.version # unit[r]}]
  /\ LeaveUnit(r)

\* applyTransactionalUnit: the history row and COMMIT.
CommitUnit(r) ==
  /\ phase[r] = "record"
  /\ InTransaction(r)
  /\ Committed(r)
  /\ UnitApplied(r)
  /\ UNCHANGED <<disk, failures, observed, spoiled>>

\* applyAutocommitUnit: the history row.
RecordUnit(r) ==
  /\ phase[r] = "record"
  /\ ~InTransaction(r)
  /\ Recorded(r)
  /\ UnitApplied(r)
  /\ UNCHANGED <<disk, schema, executed, failures, observed, spoiled>>

\* r overlapped another run and the directory has files its list did not know.
StopsShort(r) == overlapped[r] /\ ~(disk \subseteq seen[r])

Finish(r) ==
  /\ phase[r] = "ready"
  /\ todo[r] = {}
  /\ phase' = [phase EXCEPT ![r] = "done"]
  /\ spoiled' = (spoiled \/ StopsShort(r))
  /\ UNCHANGED <<disk, target, todo, unitVars, failures, observed>>

\* Mutant of Abandon: the loop goes on with the next unit after an error.
AbandonUnitOnly(r) ==
  /\ UnitApplied(r)
  /\ spoiled' = (spoiled \/ overlapped[r])

\* Mutant of Abandon: neither ROLLBACK nor client.end.
AbandonOpenTransaction(r) ==
  /\ phase' = [phase EXCEPT ![r] = "failed"]
  /\ todo' = [todo EXCEPT ![r] = {}]
  /\ spoiled' = (spoiled \/ overlapped[r])
  /\ UNCHANGED unitVars

\* The error path of the run: ROLLBACK, client.end, kind "failed".
Abandon(r) ==
  /\ phase' = [phase EXCEPT ![r] = "failed"]
  /\ todo' = [todo EXCEPT ![r] = {}]
  /\ LeaveUnit(r)
  /\ spoiled' = (spoiled \/ overlapped[r])

\* A query fails, the connection drops or the process dies: the target rolls
\* the open transaction back and the run is over.
Fail(r) ==
  /\ Active(r)
  /\ failures < MaxFailures
  /\ failures' = failures + 1
  /\ Abandon(r)
  /\ UNCHANGED <<disk, target, observed>>

\* COMMIT took effect but its answer is lost: the ROLLBACK that follows does nothing.
LoseCommitAnswer(r) ==
  /\ phase[r] = "record"
  /\ InTransaction(r)
  /\ failures < MaxFailures
  /\ failures' = failures + 1
  /\ Committed(r)
  /\ Abandon(r)
  /\ UNCHANGED <<disk, observed>>

\* PostgreSQL's deadlock detector aborts one of two transactions that wait for each other.
DeadlockVictim(r) ==
  /\ \E q \in Runner : WaitsFor(r, q) /\ WaitsFor(q, r)
  /\ Abandon(r)
  /\ UNCHANGED <<disk, target, failures, observed>>

Step(r) ==
  \/ Connect(r)
  \/ BeginUnit(r)
  \/ ExecuteStatement(r)
  \/ NextUnitFile(r)
  \/ CommitUnit(r)
  \/ RecordUnit(r)
  \/ Finish(r)
  \/ DeadlockVictim(r)

Next ==
  \/ WriteMigration
  \/ WriteCompanion
  \/ \E r \in Runner : ReadStatus(r) \/ Step(r) \/ Fail(r) \/ LoseCommitAnswer(r)

Spec == Init /\ [][Next]_vars

\* Each await of a run is answered in the end, and somebody retries a sync
\* that left files pending.
FairSpec ==
  /\ Spec
  /\ \A r \in Runner : WF_vars(Step(r)) /\ WF_vars(ReadStatus(r))

-----------------------------------------------------------------------------
Value == {Absent} \cup {Sql[p[1]][p[2]].val : p \in LinesOfAll(File)}

View == UNION {[D -> Value] : D \in SUBSET Object}

\* The variables hold what the code can put in them.
TypeOK ==
  /\ disk \in SUBSET File
  /\ history \in SUBSET Versions
  /\ schema \in [Object -> Value]
  /\ phase \in [Runner -> Phases]
  /\ todo \in [Runner -> SUBSET File]
  /\ unit \in [Runner -> {NoVersion} \cup Versions]
  /\ file \in [Runner -> {NoFile} \cup File]
  /\ line \in [Runner -> Nat]
  /\ sent \in [Runner -> SUBSET LinesOfAll(File)]
  /\ view \in [Runner -> View]
  /\ failures \in 0 .. MaxFailures
  /\ executed \in SUBSET LinesOfAll(File)
  /\ missed \in SUBSET File
  /\ seen \in [Runner -> SUBSET File]
  /\ overlapped \in [Runner -> BOOLEAN]
  /\ spoiled \in BOOLEAN

\* A recorded version hides no statement that did not run, but for one case:
\* whatever failed, crashed or overlapped, every statement of a recorded version
\* has taken effect (insertMigrationHistoryVersion comes after applyUnitSql, in
\* the same transaction or after it), unless it is in a file that was not there
\* yet when the run that recorded the version read the directory.
HistorySound ==
  \A f \in disk \ missed : f.version \in history => LinesOf(f) \subseteq executed

\* However many stale pending lists are being applied, the history table is
\* always a prefix of the versions on disk, so that no later status check
\* reports an out-of-order file (groupMigrationUnits sorts, the loop stops
\* at the first failure).
HistoryInOrder ==
  \A f, g \in disk :
    (g.version \in history /\ f.version < g.version) => f.version \in history

\* What an interrupted run leaves behind without a history row is only ever
\* a part of the next unit to apply, and only of one that runs outside a
\* transaction (applyTransactionalUnit rolls back, applyAutocommitUnit cannot).
PartialOnlyAtFrontier ==
  \A p \in executed :
    p[1].version \in history
    \/ /\ ~Transactional(UnitFiles(disk, p[1].version))
       /\ \A f \in disk : f.version < p[1].version => f.version \in history

-----------------------------------------------------------------------------
(* The inductive invariant behind the three properties above. *)

\* A run's list holds what it has seen of a unit, and no older version is
\* missing from both the list and the history.
TodoOK(r) ==
  /\ todo[r] \subseteq seen[r] /\ seen[r] \subseteq disk
  /\ \A f \in todo[r], g \in seen[r] : g.version = f.version => g \in todo[r]
  /\ \A f \in todo[r], g \in disk :
       g.version < f.version => g.version \in VersionsOf(todo[r]) \cup history

\* The unit being applied is the oldest of the list.
UnitOK(r) ==
  phase[r] \in UnitPhases =>
    /\ OldestVersion(unit[r], todo[r])
    /\ file[r] \in UnitFiles(todo[r], unit[r])
    /\ line[r] <= Len(Sql[file[r]])

\* What has been sent is what the loop over files and statements has passed.
SentOK(r) ==
  /\ phase[r] = "sql" =>
       /\ \A g \in UnitFiles(todo[r], unit[r]) :
            FileBefore(g, file[r]) => LinesOf(g) \subseteq sent[r]
       /\ \A i \in 1 .. line[r] : <<file[r], i>> \in sent[r]
  /\ phase[r] = "record" => LinesOfAll(UnitFiles(todo[r], unit[r])) \subseteq sent[r]
  /\ phase[r] \in UnitPhases /\ ~InTransaction(r) => sent[r] \subseteq executed
  /\ phase[r] \in UnitPhases => sent[r] \subseteq LinesOfAll(UnitFiles(todo[r], unit[r]))
  /\ phase[r] \notin UnitPhases => sent[r] = {}

OnDisk ==
  /\ history \subseteq VersionsOf(disk)
  /\ executed \subseteq LinesOfAll(disk)
  /\ missed \subseteq Applied(disk, history)

IInv ==
  /\ TypeOK
  /\ OnDisk
  /\ \A r \in Runner : TodoOK(r) /\ UnitOK(r) /\ SentOK(r)
  /\ HistorySound
  /\ HistoryInOrder
  /\ PartialOnlyAtFrontier

-----------------------------------------------------------------------------
\* The catalog the files describe: what their lines, one after the other in
\* the order of the files, make of an empty database.
LineAt(n, lines) ==
  CHOOSE p \in lines : Cardinality({q \in lines : LineBefore(q, p)}) = n - 1

Replay(files) ==
  LET lines == LinesOfAll(files)
      after[n \in 0 .. Cardinality(lines)] ==
        IF n = 0 THEN [o \in Object |-> Absent]
        ELSE LET stmt == Statement(LineAt(n, lines))
             IN  [after[n - 1] EXCEPT ![stmt.obj] = Effect(stmt, @)]
  IN  after[Cardinality(lines)]

Quiet == \A r \in Runner : ~Active(r)

\* A recorded version still lacks a file, and newer ones are on disk: its writer
\* is late or has died.
Hole ==
  \E f \in disk, g \in File \ disk : g.version \in history /\ g.version < f.version

\* Every recorded version has the files its recorder saw.
Whole == missed = {} /\ ~Hole

\* When no run is in progress and the history lists every version on disk,
\* the catalog is the one the files describe, although runs retried crashed
\* ones, re-executed recorded units from stale pending lists and interleaved
\* their statements: provided no version was recorded without a companion, and
\* no run that overlapped another one stopped short of the newest version,
\* because it failed or its list was older.
Converged ==
  (Quiet /\ ~spoiled /\ Whole /\ history = VersionsOf(disk)) => schema = Replay(disk)

\* At rest, a target whose next unit has left nothing behind holds exactly the
\* recorded versions, with the same two exceptions.
RecordedSchema ==
  (Quiet /\ ~spoiled /\ Whole /\ \A p \in executed : p[1].version \in history)
    => schema = Replay(Applied(disk, history))

-----------------------------------------------------------------------------
(* The inductive invariant behind Converged and RecordedSchema. *)

\* The lines r has passed, and those of them that no ROLLBACK takes back.
Sending(r) == LinesOfAll(seen[r] \ todo[r]) \cup sent[r]
Passed(r) == LinesOfAll(seen[r] \ todo[r]) \cup (IF InTransaction(r) THEN {} ELSE sent[r])

\* The lines every run in progress has passed; between runs, the recorded ones.
Settled ==
  IF Quiet THEN LinesOfAll(Applied(disk, history))
  ELSE {p \in LinesOfAll(File) : \A q \in Runner : Active(q) => p \in Passed(q)}

\* The same, as run r sees it from inside its transaction.
SettledFor(r) ==
  {p \in Sending(r) : \A q \in Runner \ {r} : Active(q) => p \in Passed(q)}

About(o) == {p \in LinesOfAll(File) : Statement(p).obj = o}

\* val is the result of one of the lines about o that ran, and no settled line
\* about o comes after that one.
LeftBy(val, o, settled, ran) ==
  \/ val = Absent /\ settled \cap About(o) = {}
  \/ \E p \in ran \cap About(o) :
       val = Result(p) /\ \A q \in settled \cap About(o) : ~LineBefore(p, q)

\* A list is the end of what its run saw, which is a beginning of each unit;
\* what a run has passed is recorded.
SeenOK(r) ==
  /\ Beginnings(seen[r])
  /\ \A f \in todo[r], g \in seen[r] : f.version <= g.version => g \in todo[r]
  /\ Active(r) => \A f \in seen[r] \ todo[r] : f.version \in history

\* A transaction has written the objects of the lines it has sent, and what
\* has been sent is not ahead of the loop.
ViewOK(r) ==
  /\ ~InTransaction(r) => view[r] = EmptyView
  /\ InTransaction(r) => \A p \in sent[r] : Statement(p).obj \in DOMAIN view[r]
  /\ phase[r] = "sql" =>
       \A p \in sent[r] : FileBefore(p[1], file[r]) \/ (p[1] = file[r] /\ p[2] <= line[r])

\* Runs in progress together know it; one that is alone has passed what is recorded.
AloneOK(r) ==
  Active(r) =>
    /\ \A q \in Runner \ {r} : Active(q) => overlapped[r]
    /\ ~overlapped[r] /\ missed = {} => Applied(disk, history) \subseteq seen[r] \ todo[r]

SchemaOK == \A o \in Object : LeftBy(schema[o], o, Settled, executed)

ViewsOK ==
  \A r \in Runner : \A o \in DOMAIN view[r] :
    LeftBy(view[r][o], o, SettledFor(r), executed \cup sent[r])

\* Two transactions never write the same object.
ViewsDisjoint ==
  \A r, q \in Runner : r # q => DOMAIN view[r] \cap DOMAIN view[q] = {}

RunsApart ==
  /\ Beginnings(disk)
  /\ ViewsDisjoint
  /\ \A r \in Runner : SeenOK(r) /\ ViewOK(r) /\ AloneOK(r)

\* Nothing has happened, or is bound to, that the catalog need not recover from.
Sane == ~spoiled /\ Whole /\ \A r \in Runner : Active(r) => ~StopsShort(r)

ConvergenceInv == IInv /\ RunsApart /\ (Sane => SchemaOK /\ ViewsOK)

\* Retried syncs get every version on disk recorded, whatever the crashes,
\* lost answers and deadlocks on the way.
EventuallyRecorded == <>[](VersionsOf(disk) \subseteq history)

\* A run comes to an end: transactions that wait for each other do not hang it.
RunsEnd == \A r \in Runner : Active(r) ~> ~Active(r)

-----------------------------------------------------------------------------
Ledger == INSTANCE MigrationLedger WITH
            published <- disk, ledger <- history, done <- executed

LedgerSpec == Ledger!Spec
=============================================================================
