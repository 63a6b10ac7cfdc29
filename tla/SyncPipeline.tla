---------------------------- MODULE SyncPipeline ----------------------------
(***************************************************************************)
(* supaschema sync and apply (src/workflow/sync.ts) in the worktrees       *)
(* of several sites, against one target.  A run goes through the lanes of  *)
(* syncPipelineLanes; between two of them the developer edits the schema   *)
(* tree, writes a migration by hand, commits, pulls and pushes, other runs *)
(* go on, or the run dies.                                                 *)
(*                                                                         *)
(* The direct runner applies one unit per step: DirectRunner shows what    *)
(* its statements do under overlap and failure.  Git and the target are    *)
(* external.                                                               *)
(***************************************************************************)
EXTENDS MigrationLineage, MigrationStatus

CONSTANTS
  Run,         \* the command lines that may run at the same time
  Site,        \* the worktrees
  Home,        \* [Run -> the worktree it runs in]
  Commands,    \* the commands the runs may be, of "sync" and "apply"
  First,       \* the schema the project's first migration made; {} when the
               \* project has no migration yet
  Serial,      \* bound: only one run at a time is in progress
  HandWritten, \* bound: migrations are written by hand too
  MaxNow,      \* bound: the last second of the clock
  MaxEdits,    \* bound: how often the schema trees are edited
  MaxCrashes   \* bound: how many runs may die

ASSUME SyncAssumption ==
  /\ Home \in [Run -> Site]
  /\ Commands \subseteq {"sync", "apply"}
  /\ First \subseteq Object \ Concurrent /\ (First # {} => MaxVersion >= 1)
  /\ Serial \in BOOLEAN /\ HandWritten \in BOOLEAN
  /\ MaxNow \in 1 .. MaxVersion /\ MaxEdits \in Nat /\ MaxCrashes \in Nat

VARIABLES
  now,         \* the current second
  tree,        \* [Site -> the schema of the declarative tree]
  disk,        \* [Site -> the files of the migration directory]
  indexTree, indexFiles,    \* [Site -> tree and files in the Git index]
  headTree, headFiles,      \* [Site -> tree and files of HEAD]
  baseTree, behind,         \* [Site -> the tree of the upstream commit HEAD is
                            \* based on, and whether upstream has moved since]
  upstreamTree, upstreamFiles,
  history,     \* the versions in the target's history table
  catalog,     \* the target's schema
  phase,       \* [Run -> the lane it is in, or how it ended]
  command,     \* [Run -> "sync" or "apply"]
  pending,     \* [Run -> status.pending]
  expected,    \* [Run -> status.expectedAppliedVersions]
  source,      \* [Run -> sources.from]
  planFrom,    \* [Run -> plan.fromFingerprint]
  planTo,      \* [Run -> plan.toFingerprint]
  version,     \* [Run -> the version nextMigrationFile chose]
  generated,   \* [Run -> artifacts.generatedMigrationPaths]
  todo,        \* [Run -> the pending files its runner has not applied yet]
  edits, crashes,
  executed,    \* observability: files the target has executed
  before,      \* observability: [Run -> the catalog its verify lane read]
  goal,        \* observability: [Run -> the tree its verify lane read]
  disturbed    \* observability: [Run -> somebody else applied since]

git == <<indexTree, indexFiles, headTree, headFiles, baseTree, behind,
         upstreamTree, upstreamFiles>>
target == <<history, catalog, executed>>
status == <<pending, expected>>
plan == <<source, planFrom, planTo, version, generated>>
check == <<todo, before, goal, disturbed>>
bounds == <<edits, crashes>>
vars == <<now, tree, disk, git, target, phase, command, status, plan, check, bounds>>

Ended == {"idle", "refused", "unchained", "failed", "nothing", "applied"}
Lanes == {"sources", "diff", "version", "base", "companion", "reload", "closure", "verify",
          "runner", "reconcile"}

Active(r) == phase[r] \notin Ended

Enter(r, lane) == phase' = [phase EXCEPT ![r] = lane]

\* The first migration, if there is one, is committed, pushed and applied.
FirstFiles == IF First = {} THEN {} ELSE {F(1, "base", {}, First)}

Init ==
  /\ now = 1
  /\ tree = [s \in Site |-> First] /\ disk = [s \in Site |-> FirstFiles]
  /\ indexTree = tree /\ indexFiles = disk
  /\ headTree = tree /\ headFiles = disk
  /\ baseTree = tree /\ behind = [s \in Site |-> FALSE]
  /\ upstreamTree = First /\ upstreamFiles = FirstFiles
  /\ history = VersionsOf(FirstFiles) /\ catalog = First /\ executed = FirstFiles
  /\ phase = [r \in Run |-> "idle"] /\ command = [r \in Run |-> "sync"]
  /\ pending = [r \in Run |-> {}] /\ expected = [r \in Run |-> {}]
  /\ source = [r \in Run |-> "head"]
  /\ planFrom = [r \in Run |-> {}] /\ planTo = [r \in Run |-> {}]
  /\ version = [r \in Run |-> 0] /\ generated = [r \in Run |-> {}]
  /\ todo = [r \in Run |-> {}]
  /\ before = [r \in Run |-> {}] /\ goal = [r \in Run |-> {}]
  /\ disturbed = [r \in Run |-> FALSE]
  /\ edits = 0 /\ crashes = 0

-----------------------------------------------------------------------------
(* The lanes of a run r, in the worktree Home[r]. *)

Files(r) == disk[Home[r]]

\* loadSyncHistory and guardSyncHistoryLane.
LoadHistory(r, next) ==
  /\ pending' = [pending EXCEPT ![r] = Pending(Files(r), history)]
  /\ expected' = [expected EXCEPT ![r] = VersionsOf(Files(r))]
  /\ Enter(r, IF HistoryErrors(Files(r), history) THEN "refused" ELSE next)

\* A command is called: policy, target and history; apply has no diff.
Call(r, c) ==
  /\ ~Active(r)
  /\ Serial => \A q \in Run : ~Active(q)
  /\ command' = [command EXCEPT ![r] = c]
  /\ LoadHistory(r, IF c = "sync" THEN "sources" ELSE "closure")
  /\ generated' = [generated EXCEPT ![r] = {}]
  /\ UNCHANGED <<now, tree, disk, git, target, source, planFrom, planTo, version, check, bounds>>

Start(r) == \E c \in Commands : Call(r, c)

\* resolveGenerationSourceDefaults.
ResolveSources(r) ==
  LET s == Home[r]
  IN  /\ phase[r] = "sources"
      /\ source' = [source EXCEPT ![r] = AutomaticBaseline(disk[s], indexFiles[s], indexTree[s],
                                                           headFiles[s], headTree[s])]
      /\ Enter(r, "diff")
      /\ UNCHANGED <<now, tree, disk, git, target, command, status, planFrom, planTo, version,
                     generated, check, bounds>>

SourceModel(r) ==
  IF source[r] = "index" THEN indexTree[Home[r]]
  ELSE IF source[r] = "head" THEN headTree[Home[r]] ELSE Execute({}, Files(r))

\* buildSchemaDiffPlan and checkSyncLineageChain.
Diff(r) ==
  LET from == SourceModel(r)
      to == tree[Home[r]]
  IN  /\ phase[r] = "diff"
      /\ planFrom' = [planFrom EXCEPT ![r] = from]
      /\ planTo' = [planTo EXCEPT ![r] = to]
      /\ Enter(r, IF BaselineRefused(Files(r), source[r], from) THEN "refused"
                  ELSE IF from = to THEN "closure"
                  ELSE IF ChainBroken(Files(r), from, to) THEN "unchained" ELSE "version")
      /\ UNCHANGED <<now, tree, disk, git, target, command, status, source, version, generated,
                     check, bounds>>

\* nextMigrationFile reads the directory and the clock.
ChooseVersion(r) ==
  LET v == NextVersion(Files(r), now)
  IN  /\ phase[r] = "version"
      /\ v <= MaxVersion
      /\ version' = [version EXCEPT ![r] = v]
      /\ Enter(r, "base")
      /\ UNCHANGED <<now, tree, disk, git, target, command, status, source, planFrom, planTo,
                     generated, check, bounds>>

\* writeFile with flag wx: an existing path ends the run.
Write(r, part, next) ==
  LET file == F(version[r], part, planFrom[r], planTo[r])
  IN  /\ IF \E f \in Files(r) : SamePath(f, file)
         THEN /\ Enter(r, "failed")
              /\ UNCHANGED <<disk, generated>>
         ELSE /\ Enter(r, next)
              /\ disk' = [disk EXCEPT ![Home[r]] = @ \cup {file}]
              /\ generated' = [generated EXCEPT ![r] = @ \cup {file}]
      /\ UNCHANGED <<now, tree, git, target, command, status, source, planFrom, planTo, version,
                     check, bounds>>

\* Mutant of WriteBase: the concurrent companion is forgotten.
WriteBaseAlone(r) ==
  /\ phase[r] = "base"
  /\ Write(r, "base", "reload")

WriteBase(r) ==
  LET changed == (planFrom[r] \ planTo[r]) \cup (planTo[r] \ planFrom[r])
  IN  /\ phase[r] = "base"
      /\ Write(r, "base", IF changed \cap Concurrent = {} THEN "reload" ELSE "companion")

WriteCompanion(r) ==
  /\ phase[r] = "companion"
  /\ Write(r, "companion", "reload")

\* reloadSyncHistoryLane and the second guard.
ReloadHistory(r) ==
  /\ phase[r] = "reload"
  /\ LoadHistory(r, "closure")
  /\ UNCHANGED <<now, tree, disk, git, target, command, plan, check, bounds>>

\* refreshSyncGeneratedContractsLane, stageSyncClosureLane (sync only: the tree
\* and the artifacts of this run) and stopSyncWhenNothingPendingLane.
StageClosure(r) ==
  LET s == Home[r]
  IN  /\ phase[r] = "closure"
      /\ IF command[r] = "sync"
         THEN /\ indexTree' = [indexTree EXCEPT ![s] = tree[s]]
              /\ indexFiles' = [indexFiles EXCEPT ![s] = @ \cup generated[r]]
         ELSE UNCHANGED <<indexTree, indexFiles>>
      /\ Enter(r, IF pending[r] = {} THEN "nothing" ELSE "verify")
      /\ UNCHANGED <<now, tree, disk, headTree, headFiles, baseTree, behind, upstreamTree,
                     upstreamFiles, target, command, status, plan, check, bounds>>

Difference(a, b) == (a \ b) \cup (b \ a)

\* Mutant of VerifyPasses: the two sets of differences are swapped.
VerifySwapped(from, to, files) ==
  LET left == Difference(Execute(from, files), to)
      baseline == Difference(from, to)
  IN  left = {} \/ (baseline \subseteq left /\ left # baseline)

\* reconvergenceResidualDiagnostic: no difference is left, or fewer than before
\* and none that is new (a warning only).
VerifyPasses(from, to, files) ==
  LET left == Difference(Execute(from, files), to)
      baseline == Difference(from, to)
  IN  left = {} \/ (left \subseteq baseline /\ left # baseline)

\* verifyPendingMigrationsForSync: the pending files are executed on a copy of
\* the target's catalog and compared with the tree, both read now.
Verify(r) ==
  /\ phase[r] = "verify"
  /\ before' = [before EXCEPT ![r] = catalog]
  /\ goal' = [goal EXCEPT ![r] = tree[Home[r]]]
  /\ disturbed' = [disturbed EXCEPT ![r] = FALSE]
  /\ IF VerifyPasses(catalog, tree[Home[r]], pending[r])
     THEN /\ Enter(r, "runner")
          /\ todo' = [todo EXCEPT ![r] = pending[r]]
     ELSE /\ Enter(r, "refused")
          /\ UNCHANGED todo
  /\ UNCHANGED <<now, tree, disk, git, target, command, status, plan, bounds>>

\* groupMigrationUnits: the files of the oldest version.
NextUnit(r) == {f \in todo[r] : f.version = Min(VersionsOf(todo[r]))}

\* runDirectMigrationRunner: the next unit of the pending list.
ApplyUnit(r) ==
  /\ phase[r] = "runner"
  /\ todo[r] # {}
  /\ LET unit == NextUnit(r)
     IN  /\ history' = history \cup VersionsOf(unit)
         /\ catalog' = Execute(catalog, unit)
         /\ executed' = executed \cup unit
         /\ todo' = [todo EXCEPT ![r] = @ \ unit]
  /\ disturbed' = [q \in Run |-> disturbed[q] \/ q # r]
  /\ UNCHANGED <<now, tree, disk, git, phase, command, status, plan, before, goal, bounds>>

RunnerEnds(r) ==
  /\ phase[r] = "runner"
  /\ todo[r] = {}
  /\ Enter(r, "reconcile")
  /\ UNCHANGED <<now, tree, disk, git, target, command, status, plan, check, bounds>>

\* reconcileSyncHistoryLane, with the versions the run expected before it applied.
Reconcile(r) ==
  /\ phase[r] = "reconcile"
  /\ Enter(r, IF \/ HistoryErrors(Files(r), history)
                 \/ Pending(Files(r), history) # {}
                 \/ MissingExpected(expected[r], history) # {}
              THEN "refused" ELSE "applied")
  /\ UNCHANGED <<now, tree, disk, git, target, command, status, plan, check, bounds>>

\* The run is killed, or a lane throws or refuses for a reason the model does
\* not have (a file that fails the replay-safety check, a contract that cannot
\* be generated, a safety gate, a busy verification server).
Die(r) ==
  /\ Active(r)
  /\ crashes < MaxCrashes
  /\ crashes' = crashes + 1
  /\ Enter(r, "failed")
  /\ UNCHANGED <<now, tree, disk, git, target, command, status, plan, check, edits>>

-----------------------------------------------------------------------------
(* The developers of a site, and the clock. *)

Tick ==
  /\ now < MaxNow
  /\ now' = now + 1
  /\ UNCHANGED <<tree, disk, git, target, phase, command, status, plan, check, bounds>>

Toggle(schema, o) == IF o \in schema THEN schema \ {o} ELSE schema \cup {o}

Edit(s) ==
  /\ edits < MaxEdits
  /\ edits' = edits + 1
  /\ \E o \in Object : tree' = [tree EXCEPT ![s] = Toggle(@, o)]
  /\ UNCHANGED <<now, disk, git, target, phase, command, status, plan, check, crashes>>

\* A migration is written by hand, with a change of the tree it makes.
HandWrite(s) ==
  LET v == NextVersion(disk[s], now)
  IN  /\ HandWritten /\ edits < MaxEdits
      /\ v <= MaxVersion
      /\ edits' = edits + 1
      /\ \E o \in Object :
           /\ tree' = [tree EXCEPT ![s] = Toggle(@, o)]
           /\ disk' = [disk EXCEPT ![s] = @ \cup {F(v, "hand", tree[s], Toggle(tree[s], o))}]
      /\ UNCHANGED <<now, git, target, phase, command, status, plan, check, crashes>>

Resting(s) == \A r \in Run : Home[r] = s => ~Active(r)

\* git commit: what has been staged.
Commit(s) ==
  /\ Resting(s)
  /\ headTree' = [headTree EXCEPT ![s] = indexTree[s]]
  /\ headFiles' = [headFiles EXCEPT ![s] = indexFiles[s]]
  /\ UNCHANGED <<now, tree, disk, indexTree, indexFiles, baseTree, behind, upstreamTree,
                 upstreamFiles, target, phase, command, status, plan, check, bounds>>

Clean(s) ==
  /\ tree[s] = indexTree[s] /\ indexTree[s] = headTree[s]
  /\ disk[s] = indexFiles[s] /\ indexFiles[s] = headFiles[s]

\* Git's merge of two trees with their common ancestor.
Merge3(base, ours, theirs) ==
  (ours \cap theirs) \cup (ours \ base) \cup (theirs \ base)

\* git pull, into a clean worktree, when no path is added by both sides.
Pull(s) ==
  LET merged == Merge3(baseTree[s], tree[s], upstreamTree)
      files == disk[s] \cup upstreamFiles
  IN  /\ behind[s] /\ Clean(s) /\ Resting(s)
      /\ \A f \in disk[s], g \in upstreamFiles : SamePath(f, g) => f = g
      /\ tree' = [tree EXCEPT ![s] = merged]
      /\ indexTree' = [indexTree EXCEPT ![s] = merged]
      /\ headTree' = [headTree EXCEPT ![s] = merged]
      /\ disk' = [disk EXCEPT ![s] = files]
      /\ indexFiles' = [indexFiles EXCEPT ![s] = files]
      /\ headFiles' = [headFiles EXCEPT ![s] = files]
      /\ baseTree' = [baseTree EXCEPT ![s] = upstreamTree]
      /\ behind' = [behind EXCEPT ![s] = FALSE]
      /\ UNCHANGED <<now, upstreamTree, upstreamFiles, target, phase, command, status, plan,
                     check, bounds>>

\* git push, a fast-forward.
Push(s) ==
  /\ ~behind[s] /\ Resting(s)
  /\ <<headTree[s], headFiles[s]>> # <<upstreamTree, upstreamFiles>>
  /\ upstreamTree' = headTree[s]
  /\ upstreamFiles' = headFiles[s]
  /\ baseTree' = [baseTree EXCEPT ![s] = headTree[s]]
  /\ behind' = [t \in Site |-> t # s]
  /\ UNCHANGED <<now, tree, disk, indexTree, indexFiles, headTree, headFiles, target, phase,
                 command, status, plan, check, bounds>>

-----------------------------------------------------------------------------
Lane(r) ==
  \/ ResolveSources(r) \/ Diff(r) \/ ChooseVersion(r) \/ WriteBase(r) \/ WriteCompanion(r)
  \/ ReloadHistory(r) \/ StageClosure(r) \/ Verify(r) \/ ApplyUnit(r) \/ RunnerEnds(r)
  \/ Reconcile(r)

Developer(s) == Edit(s) \/ HandWrite(s) \/ Commit(s) \/ Pull(s) \/ Push(s)

Next ==
  \/ Tick
  \/ \E r \in Run : Start(r) \/ Lane(r) \/ Die(r)
  \/ \E s \in Site : Developer(s)

Spec == Init /\ [][Next]_vars

\* A run goes on until it ends, and sync is called again and again, whatever else
\* is: by a deploy job, or by the hook that follows an edit of the tree.
FairSpec == Spec /\ \A r \in Run : SF_vars(Call(r, "sync")) /\ WF_vars(Lane(r))

-----------------------------------------------------------------------------
\* The generated files of a directory form a chain: each starts at the schema
\* the one before ends at, whatever is edited, staged, committed, applied or
\* interrupted between two runs (checkSyncLineageChain with sources.from: auto).
ChainContiguous ==
  \A s \in Site : \A f, g \in Generated(disk[s]) :
    /\ f.version < g.version
    /\ \A h \in Generated(disk[s]) : ~(f.version < h.version /\ h.version < g.version)
    => f.to = g.from

\* A version the target has recorded has had every file of that version executed:
\* nextMigrationFile never gives a version to two transitions, and nothing is
\* added to a version that has been applied.
VersionMeansExecuted ==
  \A s \in Site : \A f \in disk[s] : f.version \in history => f \in executed

\* A run that reports success has moved the target no further away from the
\* tree it verified against (verify, then the runner, while nobody else applies).
NoNewDrift ==
  \A r \in Run :
    phase[r] = "applied" /\ ~disturbed[r] =>
      Difference(catalog, goal[r]) \subseteq Difference(before[r], goal[r])

\* No migration was written by hand, and none has lost its companion.
Whole(files) ==
  \A f \in files :
    /\ f.part # "hand"
    /\ f.part = "base" /\ Difference(f.from, f.to) \cap Concurrent # {} =>
         \E g \in files : g.part = "companion" /\ g.version = f.version

\* A sync that wrote a migration for the tree it verified against leaves the
\* target with exactly that tree when it reports success, in a project that has
\* a first migration and none written by hand, whatever was staged, committed,
\* edited or interrupted before: what the lineage claims is what the files do.
\* Only a death between the two files of a migration, which loses the second,
\* is excluded.
SyncConverges ==
  [][\A r \in Run :
       /\ phase[r] = "reconcile" /\ phase'[r] = "applied"
       /\ command[r] = "sync" /\ ~disturbed[r]
       /\ \A f \in Files(r) : f.part # "hand"
       /\ crashes = 0 \/ Whole(Files(r))
       /\ generated[r] # {} /\ planTo[r] = goal[r]
       => catalog = goal[r]]_vars

\* A version is recorded only above all recorded ones, in every worktree of the
\* project: what ghost and out-of-order versions are refused for.
NewestOnly ==
  [][\A v \in history' \ history : \A w \in history : w < v]_vars

\* Called again and again, sync brings the target to the tree: no edit, interrupted
\* run or commit leaves a directory that sync can neither extend nor apply, but for
\* a companion that was never written and a migration written by hand.
EventuallyApplied == <>[](\A s \in Site : Whole(disk[s]) => catalog = tree[s])

\* "stages that schema state with its generated migration ... as one closure": a
\* tree that sync has staged comes with the migrations that lead to it.
ClosureComplete ==
  \A r \in Run :
    phase[r] \in {"nothing", "verify"} /\ command[r] = "sync" =>
      {f \in disk[Home[r]] : f.to = indexTree[Home[r]]} \subseteq indexFiles[Home[r]]
=============================================================================
