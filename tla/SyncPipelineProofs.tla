-------------------------- MODULE SyncPipelineProofs --------------------------
(***************************************************************************)
(* Proofs about SyncPipeline, for every number of runs, worktrees, objects *)
(* and versions: types, what verification guards against (NoNewDrift), and *)
(* the order of recorded versions (NewestOnly).  The second part is about  *)
(* one worktree with one run at a time: what a recorded version means, the *)
(* chain of the generated migrations, and that a sync leaves the target    *)
(* with the tree.  With two worktrees or two runs at a time none of that   *)
(* holds: both may choose the same second.                                 *)
(***************************************************************************)
EXTENDS SyncPipeline, IterationProofs, TLAPS

--------------------------------------------------------------------------------
(* Least and greatest natural numbers: Min and Max have the value they are named *)
(* for.                                                                          *)

\* Min is the least element.
LEMMA MinIsLeast ==
  ASSUME NEW T \in SUBSET Nat, T # {}
  PROVE  /\ Min(T) \in T
         /\ \A m \in T : Min(T) <= m
<1>1. \E n \in T : \A m \in T : n <= m
  BY LeastNatural
<1> QED
  BY <1>1 DEF Min

\* Max is the greatest element of a bounded set.
LEMMA MaxIsGreatest ==
  ASSUME NEW T \in SUBSET Nat, T # {}, NEW b \in Nat, \A m \in T : m <= b
  PROVE  /\ Max(T) \in T
         /\ \A m \in T : m <= Max(T)
<1> DEFINE Bounds == {n \in Nat : \A m \in T : m <= n}
<1>1. PICK n \in Bounds : \A k \in Bounds : n <= k
  <2>1. Bounds \in SUBSET Nat /\ b \in Bounds
    OBVIOUS
  <2> QED
    BY <2>1, LeastNatural
<1>2. n \in T
  <2> SUFFICES ASSUME n \notin T PROVE FALSE
    OBVIOUS
  <2>1. n \in Nat /\ \A m \in T : m \in Nat /\ m < n
    BY <1>1
  <2>2. n # 0
    <3>1. PICK m \in T : TRUE
      OBVIOUS
    <3> QED
      BY <2>1, <3>1
  <2>3. n - 1 \in Nat /\ \A m \in T : m <= n - 1
    BY <2>1, <2>2
  <2> QED
    BY <1>1, <2>1, <2>3
<1>3. \E x \in T : \A m \in T : x >= m
  BY <1>1, <1>2
<1> QED
  BY <1>3 DEF Max

--------------------------------------------------------------------------------
(* The operators of MigrationLineage and MigrationStatus. *)

LEMMA ExecuteType ==
  ASSUME NEW schema, NEW files
  PROVE  Execute(schema, files) \in SUBSET Object
BY DEF Execute

\* No file changes nothing.
LEMMA ExecuteNothing ==
  ASSUME NEW schema \in SUBSET Object
  PROVE  Execute(schema, {}) = schema
BY DEF Execute

\* Of two sets of files, one newer than the other, the newer one has the newest file.
LEMMA NewestDecide ==
  ASSUME NEW older \in SUBSET File, NEW newer \in SUBSET File, NEW good, newer # {},
         \A f \in older, g \in newer : f.version < g.version
  PROVE  (\E f \in older \cup newer :
             f \in good /\ \A g \in older \cup newer : g.version <= f.version)
           <=> \E f \in newer : f \in good /\ \A g \in newer : g.version <= f.version
<1>1. \A f \in older \cup newer : f.version \in Nat
  BY LineageAssumption DEF File
<1>2. ASSUME NEW f \in older \cup newer, \A g \in older \cup newer : g.version <= f.version
      PROVE  f \in newer
  BY <1>1, <1>2
<1>3. ASSUME NEW f \in newer, \A g \in newer : g.version <= f.version
      PROVE  \A g \in older \cup newer : g.version <= f.version
  BY <1>1, <1>3
<1> QED
  BY <1>2, <1>3

\* Older files first, then newer ones, is the same as all of them at once: what
\* the runner does unit by unit is what verification did in one go.
LEMMA ExecuteCompose ==
  ASSUME NEW schema, NEW older \in SUBSET File, NEW newer \in SUBSET File,
         \A f \in older, g \in newer : f.version < g.version
  PROVE  Execute(Execute(schema, older), newer) = Execute(schema, older \cup newer)
<1> SUFFICES ASSUME NEW o \in Object
             PROVE  o \in Execute(Execute(schema, older), newer)
                      <=> o \in Execute(schema, older \cup newer)
  <2>1. /\ Execute(Execute(schema, older), newer) \in SUBSET Object
        /\ Execute(schema, older \cup newer) \in SUBSET Object
    BY ExecuteType
  <2> QED
    BY <2>1
<1> DEFINE Touching(files) == {f \in files : o \in Adds(f) \cup Drops(f)}
           Adding == {f \in File : o \in Adds(f)}
           Wins(touching) == \E f \in touching :
              f \in Adding /\ \A g \in touching : g.version <= f.version
<1>1. \A s : \A files \in SUBSET File :
        o \in Execute(s, files) <=>
          IF Touching(files) = {} THEN o \in s ELSE Wins(Touching(files))
  BY DEF Execute
<1>2. Touching(older \cup newer) = Touching(older) \cup Touching(newer)
  OBVIOUS
<1>3. /\ Touching(older) \in SUBSET File /\ Touching(newer) \in SUBSET File
      /\ \A f \in Touching(older), g \in Touching(newer) : f.version < g.version
  OBVIOUS
<1>4. Touching(newer) # {} =>
        (Wins(Touching(older) \cup Touching(newer)) <=> Wins(Touching(newer)))
  <2> HIDE DEF Touching, Adding
  <2> QED
    BY <1>3, NewestDecide
<1>5. o \in Execute(Execute(schema, older), newer) <=>
        IF Touching(newer) = {} THEN o \in Execute(schema, older) ELSE Wins(Touching(newer))
  BY <1>1
<1>6. o \in Execute(schema, older) <=>
        IF Touching(older) = {} THEN o \in schema ELSE Wins(Touching(older))
  BY <1>1
<1>7. o \in Execute(schema, older \cup newer) <=>
        IF Touching(older \cup newer) = {} THEN o \in schema ELSE Wins(Touching(older \cup newer))
  BY <1>1
<1> HIDE DEF Touching, Wins
<1> QED
  BY <1>2, <1>4, <1>5, <1>6, <1>7

LEMMA VersionsType ==
  ASSUME NEW files \in SUBSET File
  PROVE  /\ VersionsOf(files) \in SUBSET (1 .. MaxVersion)
         /\ VersionsOf(files) \in SUBSET Nat
BY LineageAssumption DEF VersionsOf, File

LEMMA PendingType ==
  ASSUME NEW files, NEW versions
  PROVE  Pending(files, versions) \in SUBSET files
BY DEF Pending

\* The next version is above those of all files, and not in the past.
LEMMA NextVersionAbove ==
  ASSUME NEW files \in SUBSET File, NEW second \in Nat
  PROVE  /\ NextVersion(files, second) \in Nat
         /\ second <= NextVersion(files, second)
         /\ \A f \in files : f.version < NextVersion(files, second)
<1> DEFINE T == {second} \cup {f.version + 1 : f \in files}
<1>1. \A f \in files : f.version \in 1 .. MaxVersion
  BY DEF File
<1>2. T \in SUBSET Nat /\ T # {} /\ MaxVersion \in Nat
  BY <1>1, LineageAssumption
<1>3. \A m \in T : m <= second + MaxVersion + 1
  BY <1>1, <1>2
<1>4. second + MaxVersion + 1 \in Nat
  BY <1>2
<1>5. Max(T) \in T /\ \A m \in T : m <= Max(T)
  BY <1>2, <1>3, <1>4, MaxIsGreatest
<1>6. NextVersion(files, second) = Max(T)
  BY DEF NextVersion
<1>7. second <= Max(T) /\ \A f \in files : f.version + 1 <= Max(T)
  BY <1>5
<1>8. Max(T) \in Nat
  BY <1>2, <1>5
<1> HIDE DEF T
<1> QED
  BY <1>1, <1>6, <1>7, <1>8

\* The oldest unit: its files have one version, the least of those to do.
LEMMA OldestUnit ==
  ASSUME NEW r, todo[r] \in SUBSET File, todo[r] # {}
  PROVE  \E v \in VersionsOf(todo[r]) :
           /\ VersionsOf(NextUnit(r)) = {v}
           /\ NextUnit(r) = {f \in todo[r] : f.version = v}
           /\ \A f \in todo[r] \ NextUnit(r) : v < f.version
<1> DEFINE v == Min(VersionsOf(todo[r]))
<1>1. VersionsOf(todo[r]) \in SUBSET Nat
  BY VersionsType
<1>2. VersionsOf(todo[r]) # {}
  BY DEF VersionsOf
<1>3. v \in VersionsOf(todo[r]) /\ \A m \in VersionsOf(todo[r]) : v <= m
  BY <1>1, <1>2, MinIsLeast
<1>4. NextUnit(r) = {f \in todo[r] : f.version = v}
  BY DEF NextUnit
<1> HIDE DEF v
<1>5. VersionsOf(NextUnit(r)) = {v}
  BY <1>3, <1>4 DEF VersionsOf
<1>6. \A f \in todo[r] \ NextUnit(r) : v < f.version
  BY <1>1, <1>3, <1>4 DEF VersionsOf
<1> QED
  BY <1>3, <1>4, <1>5, <1>6

--------------------------------------------------------------------------------
(* Types. *)

Trees == [Site -> SUBSET Object]
Directories == [Site -> SUBSET File]

GitTypes ==
  /\ tree \in Trees /\ indexTree \in Trees /\ headTree \in Trees /\ baseTree \in Trees
  /\ disk \in Directories /\ indexFiles \in Directories /\ headFiles \in Directories
  /\ upstreamTree \in SUBSET Object /\ upstreamFiles \in SUBSET File
  /\ behind \in [Site -> BOOLEAN]

TargetTypes ==
  /\ history \in SUBSET (1 .. MaxVersion)
  /\ catalog \in SUBSET Object
  /\ executed \in SUBSET File

RunTypes ==
  /\ phase \in [Run -> Ended \cup Lanes]
  /\ command \in [Run -> {"sync", "apply"}]
  /\ source \in [Run -> {"index", "head", "migrations"}]
  /\ pending \in [Run -> SUBSET File] /\ todo \in [Run -> SUBSET File]
  /\ generated \in [Run -> SUBSET File]
  /\ expected \in [Run -> SUBSET (1 .. MaxVersion)]
  /\ planFrom \in [Run -> SUBSET Object] /\ planTo \in [Run -> SUBSET Object]
  /\ before \in [Run -> SUBSET Object] /\ goal \in [Run -> SUBSET Object]
  /\ version \in [Run -> 0 .. MaxVersion]
  /\ disturbed \in [Run -> BOOLEAN]

\* A run that writes has chosen a version.
VersionChosen == \A r \in Run : phase[r] \in {"base", "companion"} => version[r] \in 1 .. MaxVersion

TypeInv == /\ now \in 1 .. MaxNow
           /\ edits \in Nat /\ crashes \in Nat
           /\ GitTypes /\ TargetTypes /\ RunTypes /\ VersionChosen

LEMMA InitTypes == Init => TypeInv
<1> SUFFICES ASSUME Init PROVE TypeInv
  OBVIOUS
<1> USE SyncAssumption, LineageAssumption
<1>1. FirstFiles \in SUBSET File
  BY DEF FirstFiles, File, F
<1>2. VersionsOf(FirstFiles) \in SUBSET (1 .. MaxVersion)
  BY <1>1, VersionsType
<1>3. GitTypes
  BY <1>1 DEF Init, GitTypes, Trees, Directories
<1>4. TargetTypes
  BY <1>1, <1>2 DEF Init, TargetTypes
<1>5. RunTypes /\ VersionChosen
  BY DEF Init, RunTypes, VersionChosen, Ended
<1> QED
  BY <1>3, <1>4, <1>5 DEF Init, TypeInv

\* What a run's worktree holds.
LEMMA FilesType ==
  ASSUME TypeInv, NEW r \in Run
  PROVE  /\ Home[r] \in Site
         /\ Files(r) \in SUBSET File
         /\ tree[Home[r]] \in SUBSET Object
         /\ SourceModel(r) \in SUBSET Object
BY SyncAssumption, ExecuteType DEF TypeInv, GitTypes, Trees, Directories, Files, SourceModel

LEMMA LoadHistoryTypes ==
  ASSUME TypeInv, NEW r \in Run, NEW next \in Lanes \ {"base", "companion"}, LoadHistory(r, next)
  PROVE  /\ pending' \in [Run -> SUBSET File]
         /\ expected' \in [Run -> SUBSET (1 .. MaxVersion)]
         /\ phase' \in [Run -> Ended \cup Lanes]
         /\ \A q \in Run : phase'[q] \in {"base", "companion"} => phase[q] \in {"base", "companion"}
<1>1. Pending(Files(r), history) \in SUBSET File
  BY FilesType, PendingType
<1>2. VersionsOf(Files(r)) \in SUBSET (1 .. MaxVersion)
  BY FilesType, VersionsType
<1> QED
  BY <1>1, <1>2 DEF LoadHistory, Enter, TypeInv, RunTypes, Ended, Lanes

LEMMA CallTypes ==
  ASSUME TypeInv, NEW r \in Run, NEW c \in Commands, Call(r, c)
  PROVE  TypeInv'
<1> USE DEF TypeInv
<1> DEFINE next == IF c = "sync" THEN "sources" ELSE "closure"
<1>1. next \in Lanes \ {"base", "companion"} /\ LoadHistory(r, next)
  BY DEF Lanes, Call
<1>2. UNCHANGED <<now, tree, disk, git, target, source, planFrom, planTo, version, check, bounds>>
  BY DEF Call
<1>3. command' \in [Run -> {"sync", "apply"}] /\ generated' \in [Run -> SUBSET File]
  BY SyncAssumption DEF Call, RunTypes
<1>4. GitTypes' /\ TargetTypes'
  BY <1>2 DEF GitTypes, TargetTypes, git, target
<1>5. RunTypes'
  BY <1>1, <1>2, <1>3, LoadHistoryTypes DEF RunTypes, check
<1>6. VersionChosen'
  BY <1>1, <1>2, LoadHistoryTypes DEF VersionChosen
<1> QED
  BY <1>2, <1>4, <1>5, <1>6 DEF bounds

LEMMA ReloadTypes ==
  ASSUME TypeInv, NEW r \in Run, ReloadHistory(r)
  PROVE  TypeInv'
<1> USE DEF TypeInv
<1>1. "closure" \in Lanes \ {"base", "companion"} /\ LoadHistory(r, "closure")
  BY DEF Lanes, ReloadHistory
<1>2. UNCHANGED <<now, tree, disk, git, target, command, plan, check, bounds>>
  BY DEF ReloadHistory
<1>4. GitTypes' /\ TargetTypes'
  BY <1>2 DEF GitTypes, TargetTypes, git, target
<1>5. RunTypes'
  BY <1>1, <1>2, LoadHistoryTypes DEF RunTypes, check, plan
<1>6. VersionChosen'
  BY <1>1, <1>2, LoadHistoryTypes DEF VersionChosen, plan
<1> QED
  BY <1>2, <1>4, <1>5, <1>6 DEF bounds

LEMMA PlanTypes ==
  ASSUME TypeInv, NEW r \in Run, ResolveSources(r) \/ Diff(r) \/ ChooseVersion(r)
  PROVE  TypeInv'
<1> USE DEF TypeInv
<1>1. UNCHANGED <<now, tree, disk, git, target, command, status, generated, check, bounds>>
  BY DEF ResolveSources, Diff, ChooseVersion
<1>2. GitTypes' /\ TargetTypes'
  BY <1>1 DEF GitTypes, TargetTypes, git, target
<1>3. CASE ResolveSources(r)
  <2>1. \A files, indexed, indexT, head, headT :
           AutomaticBaseline(files, indexed, indexT, head, headT) \in {"index", "head", "migrations"}
    BY DEF AutomaticBaseline
  <2>2. source' \in [Run -> {"index", "head", "migrations"}]
    BY <1>3, <2>1 DEF ResolveSources, RunTypes
  <2>3. RunTypes' /\ VersionChosen'
    BY <1>1, <1>3, <2>2 DEF ResolveSources, Enter, RunTypes, VersionChosen, Lanes, status, check
  <2> QED
    BY <1>1, <1>2, <2>3 DEF bounds
<1>4. CASE Diff(r)
  <2>1. planFrom' \in [Run -> SUBSET Object] /\ planTo' \in [Run -> SUBSET Object]
    BY <1>4, FilesType DEF Diff, RunTypes
  <2>2. RunTypes' /\ VersionChosen'
    BY <1>1, <1>4, <2>1 DEF Diff, Enter, RunTypes, VersionChosen, Lanes, Ended, status, check
  <2> QED
    BY <1>1, <1>2, <2>2 DEF bounds
<1>5. CASE ChooseVersion(r)
  <2>1. now \in Nat /\ now >= 1 /\ MaxVersion \in Nat
    BY SyncAssumption, LineageAssumption
  <2>2. NextVersion(Files(r), now) \in 1 .. MaxVersion
    BY <1>5, <2>1, FilesType, NextVersionAbove DEF ChooseVersion
  <2>3. version' \in [Run -> 0 .. MaxVersion] /\ version'[r] \in 1 .. MaxVersion
    BY <1>5, <2>2 DEF ChooseVersion, RunTypes
  <2>4. RunTypes' /\ VersionChosen'
    BY <1>1, <1>5, <2>3 DEF ChooseVersion, Enter, RunTypes, VersionChosen, Lanes, status, check
  <2> QED
    BY <1>1, <1>2, <2>4 DEF bounds
<1> QED
  BY <1>3, <1>4, <1>5

\* The file a run writes.
LEMMA WrittenType ==
  ASSUME TypeInv, NEW r \in Run, phase[r] \in {"base", "companion"},
         NEW part \in {"base", "companion"}
  PROVE  F(version[r], part, planFrom[r], planTo[r]) \in File
BY DEF TypeInv, VersionChosen, RunTypes, File, F

LEMMA WriteTypes ==
  ASSUME TypeInv, NEW r \in Run, WriteBase(r) \/ WriteCompanion(r)
  PROVE  TypeInv'
<1> USE DEF TypeInv
<1> SUFFICES ASSUME NEW part \in {"base", "companion"},
                    NEW next \in {"companion", "reload"},
                    phase[r] \in {"base", "companion"}, Write(r, part, next)
             PROVE  TypeInv'
  BY DEF WriteBase, WriteCompanion
<1> DEFINE file == F(version[r], part, planFrom[r], planTo[r])
<1>1. file \in File
  BY WrittenType
<1> HIDE DEF file
<1>2. /\ disk' \in Directories /\ generated' \in [Run -> SUBSET File]
      /\ phase' \in [Run -> Ended \cup Lanes]
      /\ \A q \in Run : phase'[q] \in {"base", "companion"} => phase[q] \in {"base", "companion"}
  BY <1>1, FilesType DEF Write, Enter, GitTypes, Directories, RunTypes, Ended, Lanes, file
<1>3. UNCHANGED <<now, tree, git, target, command, status, source, planFrom, planTo, version,
                  check, bounds>>
  BY DEF Write
<1>4. GitTypes' /\ TargetTypes'
  BY <1>2, <1>3 DEF GitTypes, TargetTypes, git, target
<1>5. RunTypes' /\ VersionChosen'
  BY <1>2, <1>3 DEF RunTypes, VersionChosen, status, check
<1> QED
  BY <1>3, <1>4, <1>5 DEF bounds

LEMMA StageTypes ==
  ASSUME TypeInv, NEW r \in Run, StageClosure(r)
  PROVE  TypeInv'
<1> USE DEF TypeInv
<1>1. UNCHANGED <<now, tree, disk, headTree, headFiles, baseTree, behind, upstreamTree,
                  upstreamFiles, target, command, status, plan, check, bounds>>
  BY DEF StageClosure
<1>2. indexTree' \in Trees /\ indexFiles' \in Directories
  BY FilesType DEF StageClosure, GitTypes, Trees, Directories, RunTypes
<1>3. GitTypes' /\ TargetTypes'
  BY <1>1, <1>2 DEF GitTypes, TargetTypes, target
<1>4. RunTypes' /\ VersionChosen'
  BY <1>1 DEF StageClosure, Enter, RunTypes, VersionChosen, status, check, plan, Ended, Lanes
<1> QED
  BY <1>1, <1>3, <1>4 DEF bounds

LEMMA VerifyTypes ==
  ASSUME TypeInv, NEW r \in Run, Verify(r)
  PROVE  TypeInv'
<1> USE DEF TypeInv
<1>1. UNCHANGED <<now, tree, disk, git, target, command, status, plan, bounds>>
  BY DEF Verify
<1>2. GitTypes' /\ TargetTypes'
  BY <1>1 DEF GitTypes, TargetTypes, git, target
<1>3. before' \in [Run -> SUBSET Object] /\ goal' \in [Run -> SUBSET Object]
  BY FilesType DEF Verify, RunTypes, TargetTypes
<1>4. disturbed' \in [Run -> BOOLEAN] /\ todo' \in [Run -> SUBSET File]
  BY DEF Verify, RunTypes
<1>5. RunTypes' /\ VersionChosen'
  BY <1>1, <1>3, <1>4 DEF Verify, Enter, RunTypes, VersionChosen, status, plan, Ended, Lanes
<1> QED
  BY <1>1, <1>2, <1>5 DEF bounds

LEMMA ApplyTypes ==
  ASSUME TypeInv, NEW r \in Run, ApplyUnit(r)
  PROVE  TypeInv'
<1> USE DEF TypeInv
<1>1. UNCHANGED <<now, tree, disk, git, phase, command, status, plan, before, goal, bounds>>
  BY DEF ApplyUnit
<1>2. NextUnit(r) \in SUBSET File
  BY DEF NextUnit, RunTypes
<1>3. TargetTypes'
  BY <1>2, VersionsType, ExecuteType DEF ApplyUnit, TargetTypes
<1>4. disturbed' \in [Run -> BOOLEAN] /\ todo' \in [Run -> SUBSET File]
  BY DEF ApplyUnit, RunTypes
<1>5. GitTypes'
  BY <1>1 DEF GitTypes, git
<1>6. RunTypes' /\ VersionChosen'
  BY <1>1, <1>4 DEF RunTypes, VersionChosen, status, plan
<1> QED
  BY <1>1, <1>3, <1>5, <1>6 DEF bounds

LEMMA EndTypes ==
  ASSUME TypeInv, NEW r \in Run, RunnerEnds(r) \/ Reconcile(r) \/ Die(r)
  PROVE  TypeInv'
<1> USE DEF TypeInv
<1>1. /\ UNCHANGED <<now, tree, disk, git, target, command, status, plan, check, edits>>
      /\ crashes' \in Nat
  BY DEF RunnerEnds, Reconcile, Die, bounds
<1>2. \E lane \in {"reconcile", "refused", "applied", "failed"} : Enter(r, lane)
  BY DEF RunnerEnds, Reconcile, Die
<1>3. GitTypes' /\ TargetTypes'
  BY <1>1 DEF GitTypes, TargetTypes, git, target
<1>4. RunTypes' /\ VersionChosen'
  BY <1>1, <1>2 DEF Enter, RunTypes, VersionChosen, status, check, plan, Ended, Lanes
<1> QED
  BY <1>1, <1>3, <1>4

LEMMA DeveloperTypes ==
  ASSUME TypeInv, NEW s \in Site, Developer(s)
  PROVE  TypeInv'
<1> USE DEF TypeInv
<1>1. /\ UNCHANGED <<now, target, phase, command, status, plan, check, crashes>>
      /\ edits' \in Nat
  BY DEF Developer, Edit, HandWrite, Commit, Pull, Push, bounds
<1>2. TargetTypes' /\ RunTypes' /\ VersionChosen'
  BY <1>1 DEF TargetTypes, RunTypes, VersionChosen, target, status, plan, check
<1>3. /\ tree[s] \in SUBSET Object /\ disk[s] \in SUBSET File
      /\ \A o \in Object : Toggle(tree[s], o) \in SUBSET Object
  BY DEF GitTypes, Trees, Directories, Toggle
<1>4. GitTypes'
  <2>1. CASE Edit(s)
    BY <1>3, <2>1 DEF Edit, GitTypes, Trees, Directories, git
  <2>2. CASE HandWrite(s)
    <3>1. NextVersion(disk[s], now) \in 1 .. MaxVersion
      <4>1. now \in Nat /\ now >= 1 /\ MaxVersion \in Nat
        BY SyncAssumption, LineageAssumption
      <4>2. NextVersion(disk[s], now) \in Nat /\ now <= NextVersion(disk[s], now)
        BY <1>3, <4>1, NextVersionAbove
      <4>3. NextVersion(disk[s], now) <= MaxVersion
        BY <2>2 DEF HandWrite
      <4> QED
        BY <4>1, <4>2, <4>3
    <3>2. \A o \in Object :
            F(NextVersion(disk[s], now), "hand", tree[s], Toggle(tree[s], o)) \in File
      BY <1>3, <3>1 DEF F, File
    <3>3. tree' \in Trees /\ disk' \in Directories
      BY <1>3, <2>2, <3>2 DEF HandWrite, GitTypes, Trees, Directories
    <3> QED
      BY <2>2, <3>3 DEF HandWrite, GitTypes, git
  <2>3. CASE Commit(s)
    BY <2>3 DEF Commit, GitTypes, Trees, Directories
  <2>4. CASE Pull(s)
    <3>1. /\ Merge3(baseTree[s], tree[s], upstreamTree) \in SUBSET Object
          /\ disk[s] \cup upstreamFiles \in SUBSET File
      BY <1>3 DEF Merge3, GitTypes
    <3> QED
      BY <2>4, <3>1 DEF Pull, GitTypes, Trees, Directories
  <2>5. CASE Push(s)
    BY <2>5 DEF Push, GitTypes, Trees, Directories
  <2> QED
    BY <2>1, <2>2, <2>3, <2>4, <2>5 DEF Developer
<1> QED
  BY <1>1, <1>2, <1>4

LEMMA TickTypes ==
  ASSUME TypeInv, Tick
  PROVE  TypeInv'
<1> USE DEF TypeInv
<1>1. /\ UNCHANGED <<tree, disk, git, target, phase, command, status, plan, check, bounds>>
      /\ now' \in 1 .. MaxNow
  BY SyncAssumption DEF Tick
<1> QED
  BY <1>1 DEF GitTypes, TargetTypes, RunTypes, VersionChosen, git, target, status, plan, check,
              bounds

LEMMA StutterTypes ==
  ASSUME TypeInv, UNCHANGED vars
  PROVE  TypeInv'
BY DEF TypeInv, GitTypes, TargetTypes, RunTypes, VersionChosen, vars, git, target, status, plan,
       check, bounds

LEMMA TypeStep == TypeInv /\ [Next]_vars => TypeInv'
BY CallTypes, ReloadTypes, PlanTypes, WriteTypes, StageTypes, VerifyTypes, ApplyTypes, EndTypes,
   DeveloperTypes, TickTypes, StutterTypes DEF Next, Start, Lane

\* Every variable keeps its type, and a run writes no file before it has chosen
\* a version for it.
THEOREM TypeCorrect == Spec => []TypeInv
BY InitTypes, TypeStep, PTL DEF Spec

--------------------------------------------------------------------------------
(* Verification and the runner.  While nobody else applies, the catalog is     *)
(* what verification predicted for the files applied so far, and the files     *)
(* still to apply are newer than those.                                        *)

Verified == {"runner", "reconcile", "applied"}

Predicted(r) ==
  /\ todo[r] \subseteq pending[r]
  /\ phase[r] # "runner" => todo[r] = {}
  /\ \A f \in pending[r] \ todo[r], g \in todo[r] : f.version < g.version
  /\ catalog = Execute(before[r], pending[r] \ todo[r])
  /\ VerifyPasses(before[r], goal[r], pending[r])

DriftInv == \A r \in Run : phase[r] \in Verified /\ ~disturbed[r] => Predicted(r)

\* A step that leaves the target, the runner's list and the verified data of the
\* runs alone, and moves none of them into or among the lanes after verification.
LEMMA DriftKept ==
  ASSUME DriftInv,
         UNCHANGED <<catalog, todo, before, goal, disturbed>>,
         \A q \in Run : phase'[q] \in Verified => phase'[q] = phase[q] /\ pending'[q] = pending[q]
  PROVE  DriftInv'
BY DEF DriftInv, Predicted, VerifyPasses

LEMMA DriftVerify ==
  ASSUME TypeInv, DriftInv, NEW r \in Run, Verify(r)
  PROVE  DriftInv'
<1> SUFFICES ASSUME NEW q \in Run, phase'[q] \in Verified, ~disturbed'[q]
             PROVE  Predicted(q)'
  BY DEF DriftInv
<1>1. UNCHANGED <<catalog, pending>>
  BY DEF Verify, target, status
<1>2. CASE q = r
  <2>1. /\ before'[r] = catalog /\ goal'[r] = tree[Home[r]]
        /\ phase'[r] = "runner" /\ todo'[r] = pending[r]
        /\ VerifyPasses(catalog, tree[Home[r]], pending[r])
    BY <1>2 DEF Verify, Enter, TypeInv, RunTypes, Verified
  <2>2. catalog = Execute(catalog, {})
    BY ExecuteNothing DEF TypeInv, TargetTypes
  <2>3. pending'[r] \ todo'[r] = {}
    BY <1>1, <2>1
  <2>4. VerifyPasses(before[r], goal[r], pending[r])'
    BY <1>1, <2>1 DEF VerifyPasses
  <2> QED
    BY <1>1, <1>2, <2>1, <2>2, <2>3, <2>4 DEF Predicted
<1>3. CASE q # r
  <2>1. /\ before'[q] = before[q] /\ goal'[q] = goal[q] /\ disturbed'[q] = disturbed[q]
        /\ todo'[q] = todo[q] /\ phase'[q] = phase[q]
    BY <1>3 DEF Verify, Enter, TypeInv, RunTypes
  <2>2. Predicted(q)
    BY <2>1 DEF DriftInv
  <2> QED
    BY <1>1, <2>1, <2>2 DEF Predicted, VerifyPasses
<1> QED
  BY <1>2, <1>3

LEMMA DriftApply ==
  ASSUME TypeInv, DriftInv, NEW r \in Run, ApplyUnit(r)
  PROVE  DriftInv'
<1> SUFFICES ASSUME NEW q \in Run, phase'[q] \in Verified, ~disturbed'[q]
             PROVE  Predicted(q)'
  BY DEF DriftInv
<1> DEFINE unit == NextUnit(r)
           past == pending[r] \ todo[r]
<1>1. /\ UNCHANGED <<phase, pending, before, goal>>
      /\ phase[r] = "runner" /\ todo[r] # {}
      /\ catalog' = Execute(catalog, unit)
      /\ todo' = [todo EXCEPT ![r] = @ \ unit]
      /\ disturbed' = [p \in Run |-> disturbed[p] \/ p # r]
  BY DEF ApplyUnit, status
<1>2. q = r /\ ~disturbed[r]
  BY <1>1
<1>3. Predicted(r)
  BY <1>1, <1>2 DEF DriftInv, Verified
<1>4. todo[r] \in SUBSET File /\ pending[r] \in SUBSET File
  BY DEF TypeInv, RunTypes
<1>5. PICK v \in VersionsOf(todo[r]) :
        unit = {f \in todo[r] : f.version = v} /\ \A f \in todo[r] \ unit : v < f.version
  BY <1>1, <1>4, OldestUnit
<1>6. unit \subseteq todo[r] /\ unit \in SUBSET File /\ past \in SUBSET File
  BY <1>4, <1>5
<1>7. todo'[r] = todo[r] \ unit
  BY <1>1 DEF TypeInv, RunTypes
<1>8. \A f \in past, g \in unit : f.version < g.version
  BY <1>3, <1>6 DEF Predicted
<1>9. Execute(Execute(before[r], past), unit) = Execute(before[r], past \cup unit)
  BY <1>6, <1>8, ExecuteCompose
<1>10. pending'[r] \ todo'[r] = past \cup unit
  BY <1>1, <1>3, <1>6, <1>7 DEF Predicted
<1>11. catalog' = Execute(before'[r], pending'[r] \ todo'[r])
  BY <1>1, <1>3, <1>9, <1>10 DEF Predicted
<1>12. \A f \in past \cup unit, g \in todo'[r] : f.version < g.version
  BY <1>3, <1>5, <1>7 DEF Predicted
<1>13. VerifyPasses(before[r], goal[r], pending[r])'
  BY <1>1, <1>3 DEF Predicted, VerifyPasses
<1> QED
  BY <1>1, <1>2, <1>3, <1>7, <1>10, <1>11, <1>12, <1>13 DEF Predicted

LEMMA DriftEnd ==
  ASSUME TypeInv, DriftInv, NEW r \in Run, RunnerEnds(r) \/ Reconcile(r)
  PROVE  DriftInv'
<1> SUFFICES ASSUME NEW q \in Run, phase'[q] \in Verified, ~disturbed'[q]
             PROVE  Predicted(q)'
  BY DEF DriftInv
<1>1. UNCHANGED <<catalog, pending, todo, before, goal, disturbed>>
  BY DEF RunnerEnds, Reconcile, target, status, check
<1>2. phase[q] \in Verified /\ (phase'[q] # "runner" => phase[q] # "runner" \/ todo[q] = {})
  BY DEF RunnerEnds, Reconcile, Enter, TypeInv, RunTypes, Verified
<1>3. Predicted(q)
  BY <1>1, <1>2 DEF DriftInv
<1> QED
  BY <1>1, <1>2, <1>3 DEF Predicted, VerifyPasses

LEMMA DriftStep == TypeInv /\ DriftInv /\ [Next]_vars => DriftInv'
<1> SUFFICES ASSUME TypeInv, DriftInv, [Next]_vars PROVE DriftInv'
  OBVIOUS
<1> USE DEF TypeInv, RunTypes, Verified, Enter
<1>1. ASSUME NEW r \in Run, NEW c \in Commands, Call(r, c) PROVE DriftInv'
  BY <1>1, DriftKept DEF Call, LoadHistory, check, target
<1>2. ASSUME NEW r \in Run, ReloadHistory(r) PROVE DriftInv'
  BY <1>2, DriftKept DEF ReloadHistory, LoadHistory, check, target
<1>3. ASSUME NEW r \in Run, ResolveSources(r) \/ Diff(r) \/ ChooseVersion(r) PROVE DriftInv'
  BY <1>3, DriftKept DEF ResolveSources, Diff, ChooseVersion, check, target, status
<1>4. ASSUME NEW r \in Run, WriteBase(r) \/ WriteCompanion(r) PROVE DriftInv'
  BY <1>4, DriftKept DEF WriteBase, WriteCompanion, Write, check, target, status
<1>5. ASSUME NEW r \in Run, StageClosure(r) PROVE DriftInv'
  BY <1>5, DriftKept DEF StageClosure, check, target, status
<1>6. ASSUME NEW r \in Run, Die(r) PROVE DriftInv'
  BY <1>6, DriftKept DEF Die, check, target, status
<1>7. ASSUME NEW s \in Site, Developer(s) PROVE DriftInv'
  <2>1. UNCHANGED <<phase, target, status, check>>
    BY <1>7 DEF Developer, Edit, HandWrite, Commit, Pull, Push
  <2> QED
    BY <2>1, DriftKept DEF check, target, status
<1>8. CASE Tick \/ UNCHANGED vars
  BY <1>8, DriftKept DEF Tick, vars, check, target, status
<1> QED
  BY <1>1, <1>2, <1>3, <1>4, <1>5, <1>6, <1>7, <1>8, DriftVerify, DriftApply, DriftEnd
     DEF Next, Start, Lane

\* A run that reports success has made no difference between the target and the
\* tree it verified against that was not there before, as long as no other run
\* applied in between: applying unit by unit ends at the schema verification
\* computed at once.
THEOREM NoDriftCorrect == Spec => []NoNewDrift
<1>1. Init => DriftInv
  BY DEF Init, DriftInv, Verified
<1>2. DriftInv => NoNewDrift
  <2> SUFFICES ASSUME DriftInv, NEW r \in Run, phase[r] = "applied", ~disturbed[r]
               PROVE  Difference(catalog, goal[r]) \subseteq Difference(before[r], goal[r])
    BY DEF NoNewDrift
  <2>1. Predicted(r) /\ todo[r] = {}
    BY DEF DriftInv, Predicted, Verified
  <2>2. catalog = Execute(before[r], pending[r])
    BY <2>1 DEF Predicted
  <2> QED
    BY <2>1, <2>2 DEF Predicted, VerifyPasses
<1> QED
  BY <1>1, <1>2, TypeCorrect, DriftStep, PTL DEF Spec

--------------------------------------------------------------------------------
(* The order of recorded versions, when one run is in progress at a time.      *)

OneRun == \A q, r \in Run : Active(q) /\ Active(r) => q = r

\* The files a run has found pending and has not applied.
ToApply(r) == IF phase[r] \in {"runner", "reconcile"} THEN todo[r] ELSE pending[r]

\* They are newer than everything recorded.
NewerThanHistory ==
  \A r \in Run : Active(r) => \A f \in ToApply(r), w \in history : w < f.version

\* Only the call of a command makes a run active, and only when none is.
LEMMA OneRunStep ==
  ASSUME Serial, TypeInv, OneRun, [Next]_vars
  PROVE  OneRun'
<1> USE DEF OneRun, Active, TypeInv, RunTypes, Enter
<1>1. ASSUME NEW r \in Run, NEW c \in Commands, Call(r, c) PROVE OneRun'
  BY <1>1 DEF Call, LoadHistory
<1>2. ASSUME NEW r \in Run, Lane(r) \/ Die(r)
      PROVE  \A q \in Run : Active(q)' => Active(q)
  <2>1. /\ Active(r)
        /\ \A q \in Run : q # r => phase'[q] = phase[q]
    BY <1>2 DEF Lane, ResolveSources, Diff, ChooseVersion, WriteBase, WriteCompanion, Write,
                ReloadHistory, LoadHistory, StageClosure, Verify, ApplyUnit, RunnerEnds, Reconcile,
                Die, Ended
  <2> QED
    BY <2>1
<1>3. CASE Tick \/ (\E s \in Site : Developer(s)) \/ UNCHANGED vars
  BY <1>3 DEF Tick, Developer, Edit, HandWrite, Commit, Pull, Push, vars
<1> QED
  BY <1>1, <1>2, <1>3 DEF Next, Start

\* A history without errors has every pending file above it.
LEMMA LoadedIsNewer ==
  ASSUME TypeInv, NEW r \in Run, NEW next, LoadHistory(r, next), phase'[r] \notin Ended
  PROVE  \A f \in pending'[r], w \in history : w < f.version
<1>1. ~HistoryErrors(Files(r), history) /\ pending'[r] = Pending(Files(r), history)
  BY DEF LoadHistory, Enter, TypeInv, RunTypes, Ended
<1>2. \A f \in Files(r) : f.version \in Nat
  BY FilesType, LineageAssumption DEF File
<1>3. \A w \in history : w \in Nat
  BY DEF TypeInv, TargetTypes
<1> SUFFICES ASSUME NEW f \in Pending(Files(r), history), NEW w \in history
             PROVE  w < f.version
  BY <1>1
<1>4. f \in Files(r) /\ f.version \notin history
  BY DEF Pending
<1>5. ~ (f.version < w)
  BY <1>1 DEF HistoryErrors, OutOfOrder
<1> QED
  BY <1>2, <1>3, <1>4, <1>5

\* A step that records nothing, gives no run new files to apply and calls none.
LEMMA NewerKept ==
  ASSUME NewerThanHistory, history' = history,
         \A q \in Run : Active(q)' => Active(q) /\ ToApply(q)' \subseteq ToApply(q)
  PROVE  NewerThanHistory'
BY DEF NewerThanHistory

LEMMA NewerApply ==
  ASSUME TypeInv, OneRun, NewerThanHistory, NEW r \in Run, ApplyUnit(r)
  PROVE  /\ NewerThanHistory'
         /\ \A v \in history' \ history : \A w \in history : w < v
<1>1. /\ phase[r] = "runner" /\ todo[r] # {} /\ phase' = phase
      /\ history' = history \cup VersionsOf(NextUnit(r))
      /\ todo'[r] = todo[r] \ NextUnit(r)
  BY DEF ApplyUnit, TypeInv, RunTypes
<1>2. todo[r] \in SUBSET File
  BY DEF TypeInv, RunTypes
<1>3. PICK v \in VersionsOf(todo[r]) :
        /\ VersionsOf(NextUnit(r)) = {v}
        /\ \A f \in todo[r] \ NextUnit(r) : v < f.version
  BY <1>1, <1>2, OldestUnit
<1>4. Active(r) /\ ToApply(r) = todo[r] /\ ToApply(r)' = todo'[r]
  BY <1>1 DEF Active, Ended, ToApply
<1>5. \A w \in history : w < v
  BY <1>3, <1>4 DEF NewerThanHistory, VersionsOf
<1>6. \A f \in todo'[r], w \in history' : w < f.version
  <2>1. \A f \in todo'[r], w \in history : w < f.version
    BY <1>1, <1>4 DEF NewerThanHistory
  <2> QED
    BY <1>1, <1>3, <2>1
<1>7. \A q \in Run : Active(q)' => q = r
  BY <1>1, <1>4 DEF OneRun, Active
<1>8. NewerThanHistory'
  BY <1>4, <1>6, <1>7 DEF NewerThanHistory
<1> QED
  BY <1>1, <1>3, <1>5, <1>8

LEMMA NewerStep ==
  ASSUME Serial, TypeInv, OneRun, NewerThanHistory, [Next]_vars
  PROVE  NewerThanHistory'
<1> USE DEF TypeInv, RunTypes, Enter, Active
<1>1. ASSUME NEW r \in Run, NEW c \in Commands, Call(r, c) PROVE NewerThanHistory'
  <2>1. /\ \A q \in Run : ~Active(q)
        /\ \A q \in Run : q # r => phase'[q] = phase[q]
        /\ phase'[r] \notin {"runner", "reconcile"} /\ history' = history
        /\ \E next \in Lanes : LoadHistory(r, next)
    BY <1>1 DEF Call, LoadHistory, Lanes, target
  <2>2. phase'[r] \notin Ended => \A f \in pending'[r], w \in history : w < f.version
    BY <2>1, LoadedIsNewer
  <2> QED
    BY <2>1, <2>2 DEF NewerThanHistory, ToApply
<1>2. ASSUME NEW r \in Run, ReloadHistory(r) PROVE NewerThanHistory'
  <2>1. /\ \A q \in Run : q # r => /\ phase'[q] = phase[q] /\ pending'[q] = pending[q]
                                  /\ todo'[q] = todo[q]
        /\ phase'[r] \notin {"runner", "reconcile"} /\ history' = history
        /\ LoadHistory(r, "closure")
    BY <1>2 DEF ReloadHistory, LoadHistory, target, check
  <2>2. phase'[r] \notin Ended => \A f \in pending'[r], w \in history : w < f.version
    BY <2>1, LoadedIsNewer
  <2> QED
    BY <2>1, <2>2 DEF NewerThanHistory, ToApply
<1>3. ASSUME NEW r \in Run,
             \/ ResolveSources(r) \/ Diff(r) \/ ChooseVersion(r) \/ WriteBase(r)
             \/ WriteCompanion(r) \/ StageClosure(r) \/ RunnerEnds(r) \/ Reconcile(r) \/ Die(r)
      PROVE  NewerThanHistory'
  <2>1. /\ UNCHANGED <<history, pending, todo>>
        /\ Active(r)
        /\ phase'[r] \in {"runner", "reconcile"} => phase[r] \in {"runner", "reconcile"}
        /\ \/ phase'[r] \in Ended
           \/ phase[r] \in {"runner", "reconcile"} => phase'[r] \in {"runner", "reconcile"}
        /\ \A q \in Run : q # r => phase'[q] = phase[q]
    BY <1>3 DEF ResolveSources, Diff, ChooseVersion, WriteBase, WriteCompanion, Write,
                StageClosure, RunnerEnds, Reconcile, Die, target, status, check, Ended
  <2> QED
    BY <2>1, NewerKept DEF ToApply
<1>4. ASSUME NEW r \in Run, Verify(r) PROVE NewerThanHistory'
  <2>1. /\ UNCHANGED <<history, pending>>
        /\ phase[r] = "verify"
        /\ \/ phase'[r] = "runner" /\ todo'[r] = pending[r]
           \/ phase'[r] = "refused"
        /\ \A q \in Run : q # r => phase'[q] = phase[q] /\ todo'[q] = todo[q]
    BY <1>4 DEF Verify, target, status
  <2> QED
    BY <2>1, NewerKept DEF ToApply, Ended
<1>5. ASSUME NEW r \in Run, ApplyUnit(r) PROVE NewerThanHistory'
  BY <1>5, NewerApply
<1>6. CASE Tick \/ (\E s \in Site : Developer(s)) \/ UNCHANGED vars
  <2>1. UNCHANGED <<history, phase, pending, todo>>
    BY <1>6 DEF Tick, Developer, Edit, HandWrite, Commit, Pull, Push, vars, target, status, check
  <2> QED
    BY <2>1, NewerKept DEF ToApply
<1> QED
  BY <1>1, <1>2, <1>3, <1>4, <1>5, <1>6 DEF Next, Start, Lane

\* With one run at a time, from any number of worktrees, a version is recorded
\* only above all that are: a run that is not refused for its history applies
\* nothing below it.
THEOREM NewestCorrect ==
  ASSUME Serial
  PROVE  Spec => NewestOnly
<1>1. Init => OneRun /\ NewerThanHistory
  BY DEF Init, OneRun, NewerThanHistory, Active, Ended
<1>2. TypeInv /\ OneRun /\ NewerThanHistory /\ [Next]_vars => OneRun' /\ NewerThanHistory'
  BY OneRunStep, NewerStep
<1>3. TypeInv /\ OneRun /\ NewerThanHistory /\ [Next]_vars =>
        [\A v \in history' \ history : \A w \in history : w < v]_vars
  <2> SUFFICES ASSUME TypeInv, OneRun, NewerThanHistory, Next, history' # history
               PROVE  \A v \in history' \ history : \A w \in history : w < v
    BY DEF vars, target
  <2>1. \E r \in Run : ApplyUnit(r)
    BY DEF Next, Start, Call, Lane, ResolveSources, Diff, ChooseVersion, WriteBase, WriteCompanion,
           Write, ReloadHistory, StageClosure, Verify, RunnerEnds, Reconcile, Die, Tick, Developer,
           Edit, HandWrite, Commit, Pull, Push, target
  <2> QED
    BY <2>1, NewerApply
<1> QED
  BY <1>1, <1>2, <1>3, TypeCorrect, PTL DEF Spec, NewestOnly

--------------------------------------------------------------------------------
(* One worktree with one run at a time. *)

OneWorktree == Serial /\ \A s, u \in Site : s = u

NeverBehind == \A s \in Site : ~behind[s]

--------------------------------------------------------------------------------
(* What is recorded. *)

\* The lanes after which a run uses the pending list it has.
Listed == {"sources", "diff", "closure", "verify", "runner"}

\* What is recorded has a file.
HistoryOnDisk == \A s \in Site : history \subseteq VersionsOf(disk[s])

\* A run writes under a version that is not recorded.
VersionUnused == \A r \in Run : phase[r] \in {"base", "companion"} => version[r] \notin history

\* What a run applies is on disk.
ApplyOnDisk == \A r \in Run : Active(r) => ToApply(r) \subseteq Files(r)

\* Of a version that a run applies, it applies every file.
VersionsWhole ==
  \A r \in Run : phase[r] \in Listed =>
     \A f \in Files(r), g \in ToApply(r) : f.version = g.version => f \in ToApply(r)

RecordInv == /\ HistoryOnDisk /\ VersionMeansExecuted
             /\ VersionUnused /\ ApplyOnDisk /\ VersionsWhole

--------------------------------------------------------------------------------
(* The chain of the generated files. *)

Newest(f, files) == f \in Generated(files) /\ \A g \in Generated(files) : g.version <= f.version

\* No version has two generated files.
GeneratedOnce == \A s \in Site : \A f, g \in Generated(disk[s]) : f.version = g.version => f = g

\* The version a run has chosen is above those of all files but the ones written
\* by hand meanwhile.
VersionAbove ==
  \A r \in Run : phase[r] = "base" => \A f \in Files(r) : f.part # "hand" => f.version < version[r]

\* A run that will write starts where the newest generated file ends.
PlanContinues ==
  \A r \in Run : phase[r] \in {"version", "base"} =>
     \A f \in Files(r) : Newest(f, Files(r)) => f.to = planFrom[r]

ChainInv == GeneratedOnce /\ ChainContiguous /\ VersionAbove /\ PlanContinues

--------------------------------------------------------------------------------
(* What the files do. *)

Base(r) == F(version[r], "base", planFrom[r], planTo[r])

HasCompanion(f, files) == \E g \in files : g.part = "companion" /\ g.version = f.version

\* The file changes an index that only its companion may touch.
Split(f) == f.part = "base" /\ Difference(f.from, f.to) \cap Concurrent # {}

\* The project has a first migration.
HasFirst == \A s \in Site : Generated(disk[s]) # {}

\* A whole directory replays to the schema its newest lineage claims.
ReplayIsLineage ==
  \A s \in Site : Whole(disk[s]) =>
     \A f \in disk[s] : Newest(f, disk[s]) => Execute({}, disk[s]) = f.to

\* A run that will write plans from what the files do.
PlanIsReplay ==
  \A r \in Run : phase[r] \in {"version", "base"} /\ Whole(Files(r)) =>
     Execute({}, Files(r)) = planFrom[r]

\* Between the two files of a migration, the first is there, above the others,
\* and the others do what the plan started from.
HalfWritten ==
  \A r \in Run : phase[r] = "companion" =>
     /\ Base(r) \in Files(r) /\ Split(Base(r))
     /\ \A f \in Files(r) \ {Base(r)} : f.part # "hand" => f.version < version[r]
     /\ Whole(Files(r) \ {Base(r)}) => Execute({}, Files(r) \ {Base(r)}) = planFrom[r]

\* A run writes one migration, and it stays the newest generated one.
WritesOnce ==
  /\ \A r \in Run : phase[r] \in {"sources", "diff", "version", "base"} => generated[r] = {}
  /\ \A r \in Run : Active(r) /\ generated[r] # {} => Newest(Base(r), Files(r))

\* Only a death loses a companion.
CompanionKept ==
  crashes = 0 => \A s \in Site : \A f \in disk[s] :
     Split(f) => HasCompanion(f, disk[s]) \/ \E r \in Run : phase[r] = "companion" /\ f = Base(r)

\* The target is what the files it has executed make of nothing.
CatalogIsReplay ==
  /\ \A s \in Site : executed \subseteq disk[s]
  /\ VersionsOf(executed) \subseteq history
  /\ catalog = Execute({}, executed)

ReplayInv == /\ HasFirst /\ ReplayIsLineage /\ PlanIsReplay /\ HalfWritten
             /\ WritesOnce /\ CompanionKept /\ CatalogIsReplay

--------------------------------------------------------------------------------
(* How the actions move a run.  Those that write, record or read more than      *)
(* their own lane are treated one by one.                                       *)

\* While a run is in a lane no other is active, and the step is its own.
LEMMA LaneAlone ==
  ASSUME TypeInv, OneRun, NEW r \in Run, Lane(r)
  PROVE  /\ Active(r)
         /\ \A q \in Run : q # r => ~Active(q) /\ phase'[q] = phase[q]
         /\ \A q \in Run : q # r => ~Active(q)'
<1>1. /\ Active(r)
      /\ \A q \in Run : q # r => phase'[q] = phase[q]
  BY DEF Lane, ResolveSources, Diff, ChooseVersion, WriteBase, WriteCompanion, Write, Enter,
         ReloadHistory, LoadHistory, StageClosure, Verify, ApplyUnit, RunnerEnds, Reconcile,
         Active, Ended, TypeInv, RunTypes
<1> QED
  BY <1>1 DEF OneRun, Active

\* A call is made when no run is active.
LEMMA CallAlone ==
  ASSUME Serial, TypeInv, NEW r \in Run, NEW c \in Commands, Call(r, c)
  PROVE  /\ \A q \in Run : ~Active(q)
         /\ \A q \in Run : q # r => ~Active(q)'
         /\ LoadHistory(r, "sources") \/ LoadHistory(r, "closure")
         /\ UNCHANGED <<disk, history, executed, catalog, version, todo, crashes>>
BY DEF Call, LoadHistory, Enter, Active, TypeInv, RunTypes, target, check, bounds

\* A pull needs an upstream commit from another worktree.
LEMMA BehindStep ==
  ASSUME OneWorktree, TypeInv, NeverBehind, [Next]_vars
  PROVE  NeverBehind'
<1> USE DEF OneWorktree, NeverBehind
<1>1. ASSUME NEW r \in Run, Start(r) \/ Lane(r) \/ Die(r) PROVE behind' = behind
  BY <1>1 DEF Start, Call, Lane, ResolveSources, Diff, ChooseVersion, WriteBase, WriteCompanion,
     Write, ReloadHistory, StageClosure, Verify, ApplyUnit, RunnerEnds, Reconcile, Die, git
<1>2. ASSUME NEW s \in Site, Developer(s) PROVE NeverBehind'
  BY <1>2 DEF Developer, Edit, HandWrite, Commit, Pull, Push, git
<1>3. CASE Tick \/ UNCHANGED vars
  BY <1>3 DEF Tick, vars, git
<1> QED
  BY <1>1, <1>2, <1>3 DEF Next

\* A migration written by hand is the newest file of its worktree.
LEMMA HandWriteNewest ==
  ASSUME OneWorktree, TypeInv, NEW s \in Site, HandWrite(s)
  PROVE  \E file \in File :
           /\ file.part = "hand"
           /\ \A u \in Site : disk'[u] = disk[u] \cup {file}
           /\ \A u \in Site : \A f \in disk[u] : f.version < file.version
           /\ UNCHANGED <<history, executed, catalog, phase, pending, todo, version, planFrom,
                          planTo, generated, crashes>>
<1> DEFINE v == NextVersion(disk[s], now)
<1>1. now \in Nat /\ now >= 1 /\ MaxVersion \in Nat /\ disk[s] \in SUBSET File
  BY SyncAssumption, LineageAssumption DEF TypeInv, GitTypes, Directories
<1>2. v \in Nat /\ now <= v /\ \A f \in disk[s] : f.version < v
  BY <1>1, NextVersionAbove
<1>3. v <= MaxVersion
  BY DEF HandWrite
<1> HIDE DEF v
<1>4. v \in 1 .. MaxVersion
  BY <1>1, <1>2, <1>3
<1>5. PICK o \in Object :
        disk' = [disk EXCEPT ![s] = @ \cup {F(v, "hand", tree[s], Toggle(tree[s], o))}]
  BY DEF HandWrite, v
<1>6. F(v, "hand", tree[s], Toggle(tree[s], o)) \in File
  BY <1>4 DEF F, File, Toggle, TypeInv, GitTypes, Trees
<1>7. \A u \in Site : u = s
  BY DEF OneWorktree
<1>8. UNCHANGED <<history, executed, catalog, phase, pending, todo, version, planFrom, planTo,
                  generated, crashes>>
  BY DEF HandWrite, target, status, plan, check
<1> QED
  BY <1>2, <1>5, <1>6, <1>7, <1>8 DEF F, TypeInv, GitTypes, Directories

\* What a writing lane does: the file it has chosen, or nothing.
LEMMA WriteAdds ==
  ASSUME OneWorktree, TypeInv, NEW r \in Run, NEW part \in {"base", "companion"}, NEW next,
         phase[r] \in {"base", "companion"}, Write(r, part, next)
  PROVE  /\ UNCHANGED <<history, executed, catalog, pending, todo, version, planFrom, planTo,
                        source, tree, crashes>>
         /\ F(version[r], part, planFrom[r], planTo[r]) \in File
         /\ \/ /\ \E f \in Files(r) : SamePath(f, F(version[r], part, planFrom[r], planTo[r]))
               /\ phase'[r] = "failed" /\ disk' = disk /\ generated' = generated
            \/ /\ phase'[r] = next
               /\ \A s \in Site :
                    disk'[s] = disk[s] \cup {F(version[r], part, planFrom[r], planTo[r])}
               /\ generated'[r] = generated[r] \cup {F(version[r], part, planFrom[r], planTo[r])}
<1> DEFINE file == F(version[r], part, planFrom[r], planTo[r])
<1>1. file \in File
  BY WrittenType
<1>2. UNCHANGED <<history, executed, catalog, pending, todo, version, planFrom, planTo,
                  source, tree, crashes>>
  BY DEF Write, target, status, check, bounds
<1> HIDE DEF file
<1>3. \A s \in Site : s = Home[r]
  BY FilesType DEF OneWorktree
<1>4. \/ (\E f \in Files(r) : SamePath(f, file))
         /\ phase'[r] = "failed" /\ disk' = disk /\ generated' = generated
      \/ phase'[r] = next /\ disk' = [disk EXCEPT ![Home[r]] = @ \cup {file}]
         /\ generated' = [generated EXCEPT ![r] = @ \cup {file}]
  BY DEF Write, Enter, file, TypeInv, RunTypes
<1>5. phase'[r] = next /\ disk' = [disk EXCEPT ![Home[r]] = @ \cup {file}]
      /\ generated' = [generated EXCEPT ![r] = @ \cup {file}]
      => /\ \A s \in Site : disk'[s] = disk[s] \cup {file}
         /\ generated'[r] = generated[r] \cup {file}
  BY <1>3 DEF TypeInv, GitTypes, Directories, RunTypes
<1> QED
  BY <1>1, <1>2, <1>4, <1>5 DEF file

\* Steps that change nothing RecordInv reads but the lane a run is in.
LEMMA RecordKept ==
  ASSUME RecordInv, UNCHANGED <<disk, history, executed, version>>,
         \A q \in Run : Active(q)' => Active(q) /\ ToApply(q)' = ToApply(q),
         \A q \in Run : phase'[q] \in Listed => phase[q] \in Listed,
         \A q \in Run : phase'[q] \in {"base", "companion"} => phase[q] \in {"base", "companion"}
  PROVE  RecordInv'
<1>1. HistoryOnDisk' /\ VersionMeansExecuted'
  BY DEF RecordInv, HistoryOnDisk, VersionMeansExecuted
<1>2. VersionUnused' /\ ApplyOnDisk'
  BY DEF RecordInv, VersionUnused, ApplyOnDisk, Files
<1>3. VersionsWhole'
  <2>1. \A q \in Run : phase'[q] \in Listed => Active(q)'
    BY DEF Active, Ended, Listed
  <2> QED
    BY <2>1 DEF RecordInv, VersionsWhole, Files
<1> QED
  BY <1>1, <1>2, <1>3 DEF RecordInv

\* The pending list is read: every file whose version is not recorded.
LEMMA RecordLoad ==
  ASSUME TypeInv, RecordInv, NEW r \in Run, LoadHistory(r, "sources") \/ LoadHistory(r, "closure"),
         \A q \in Run : q # r => ~Active(q)',
         UNCHANGED <<disk, history, executed, version>>
  PROVE  RecordInv'
<1>1. /\ pending'[r] = Pending(Files(r), history)
      /\ phase'[r] \in {"refused", "sources", "closure"}
  BY DEF LoadHistory, Enter, TypeInv, RunTypes
<1>2. HistoryOnDisk' /\ VersionMeansExecuted'
  BY DEF RecordInv, HistoryOnDisk, VersionMeansExecuted
<1>3. \A q \in Run : phase'[q] \in Lanes => q = r
  BY DEF Active, Ended, Lanes
<1>4. VersionUnused'
  BY <1>1, <1>3 DEF VersionUnused, Lanes
<1>5. ToApply(r)' = Pending(Files(r), history) /\ Files(r)' = Files(r)
  BY <1>1 DEF ToApply, Files
<1>6. ApplyOnDisk'
  BY <1>5, PendingType DEF ApplyOnDisk
<1>7. VersionsWhole'
  BY <1>3, <1>5 DEF VersionsWhole, Listed, Lanes, Pending
<1> QED
  BY <1>2, <1>4, <1>6, <1>7 DEF RecordInv

\* A file is written under a version that is not recorded, or by hand.
LEMMA RecordWrite ==
  ASSUME OneWorktree, TypeInv, OneRun, RecordInv, NEW r \in Run, WriteBase(r) \/ WriteCompanion(r)
  PROVE  RecordInv'
<1>1. PICK part \in {"base", "companion"}, next \in {"companion", "reload"} :
        phase[r] \in {"base", "companion"} /\ Write(r, part, next)
  BY DEF WriteBase, WriteCompanion
<1> DEFINE file == F(version[r], part, planFrom[r], planTo[r])
<1>2. /\ UNCHANGED <<history, executed, pending, todo, version>>
      /\ phase'[r] \in {"failed", "companion", "reload"}
      /\ disk' = disk \/ \A s \in Site : disk'[s] = disk[s] \cup {file}
  BY <1>1, WriteAdds
<1>3. \A q \in Run : q # r => ~Active(q)'
  BY LaneAlone DEF Lane
<1>4. \A q \in Run : phase'[q] \in Lanes => q = r
  BY <1>3 DEF Active, Ended, Lanes
<1>5. file.version = version[r] /\ version[r] \notin history
  BY <1>1 DEF F, RecordInv, VersionUnused
<1> HIDE DEF file
<1>6. HistoryOnDisk'
  BY <1>2 DEF RecordInv, HistoryOnDisk, VersionsOf
<1>7. VersionMeansExecuted'
  BY <1>2, <1>5 DEF RecordInv, VersionMeansExecuted
<1>8. VersionUnused'
  BY <1>2, <1>4, <1>5 DEF VersionUnused, Lanes
<1>9. Files(r) \subseteq Files(r)'
  BY <1>2, FilesType DEF Files
<1>10. ToApply(r)' = pending[r] /\ ToApply(r) = pending[r] /\ Active(r)
  BY <1>1, <1>2 DEF ToApply, Active, Ended
<1>11. ApplyOnDisk'
  BY <1>3, <1>9, <1>10 DEF RecordInv, ApplyOnDisk
<1>12. VersionsWhole'
  BY <1>2, <1>4 DEF VersionsWhole, Listed, Lanes
<1> QED
  BY <1>6, <1>7, <1>8, <1>11, <1>12 DEF RecordInv

LEMMA RecordHand ==
  ASSUME OneWorktree, TypeInv, RecordInv, NEW s \in Site, HandWrite(s)
  PROVE  RecordInv'
<1>1. PICK file \in File :
        /\ \A u \in Site : disk'[u] = disk[u] \cup {file}
        /\ \A u \in Site : \A f \in disk[u] : f.version < file.version
        /\ UNCHANGED <<history, executed, phase, pending, todo, version>>
  BY HandWriteNewest
<1>2. \A u \in Site : \A f \in disk[u] : f.version # file.version
  <2>1. \A u \in Site : \A f \in disk[u] : f.version \in Nat
    BY LineageAssumption DEF TypeInv, GitTypes, Directories, File
  <2> QED
    BY <1>1, <2>1
<1>3. file.version \notin history
  BY <1>2 DEF RecordInv, HistoryOnDisk, VersionsOf
<1>4. \A q \in Run : Files(q)' = Files(q) \cup {file} /\ ToApply(q)' = ToApply(q)
  BY <1>1, FilesType DEF Files, ToApply
<1>5. HistoryOnDisk' /\ VersionMeansExecuted'
  BY <1>1, <1>3 DEF RecordInv, HistoryOnDisk, VersionMeansExecuted, VersionsOf
<1>6. VersionUnused' /\ ApplyOnDisk'
  BY <1>1, <1>4 DEF RecordInv, VersionUnused, ApplyOnDisk, Active
<1>7. VersionsWhole'
  <2> SUFFICES ASSUME NEW q \in Run, phase[q] \in Listed,
                      NEW f \in Files(q) \cup {file}, NEW g \in ToApply(q), f.version = g.version
               PROVE  f \in ToApply(q)
    BY <1>1, <1>4 DEF VersionsWhole
  <2>1. g \in Files(q)
    BY DEF RecordInv, ApplyOnDisk, Listed, Active, Ended
  <2>2. f # file
    BY <1>2, <2>1, FilesType DEF Files
  <2> QED
    BY <2>2 DEF RecordInv, VersionsWhole
<1> QED
  BY <1>5, <1>6, <1>7 DEF RecordInv

\* A unit is all that the directory has of its version.
LEMMA RecordApply ==
  ASSUME OneWorktree, TypeInv, OneRun, RecordInv, NEW r \in Run, ApplyUnit(r)
  PROVE  RecordInv'
<1> DEFINE unit == NextUnit(r)
<1>1. /\ phase[r] = "runner" /\ todo[r] # {} /\ UNCHANGED <<phase, disk, version>>
      /\ history' = history \cup VersionsOf(unit) /\ executed' = executed \cup unit
      /\ todo'[r] = todo[r] \ unit
  BY DEF ApplyUnit, plan, TypeInv, RunTypes
<1>2. todo[r] \in SUBSET File
  BY DEF TypeInv, RunTypes
<1>3. PICK v \in VersionsOf(todo[r]) :
        VersionsOf(unit) = {v} /\ unit = {f \in todo[r] : f.version = v}
  BY <1>1, <1>2, OldestUnit
<1>4. /\ ToApply(r) = todo[r] /\ ToApply(r)' = todo'[r] /\ Files(r)' = Files(r)
      /\ Active(r)
  BY <1>1 DEF ToApply, Files, Active, Ended
<1>5. \A s \in Site : disk[s] = Files(r)
  BY FilesType DEF OneWorktree, Files
<1>6. \A q \in Run : q # r => ~Active(q)'
  BY LaneAlone DEF Lane
<1>7. todo[r] \subseteq Files(r)
  BY <1>4 DEF RecordInv, ApplyOnDisk
<1>8. \A f \in Files(r) : f.version = v => f \in todo[r]
  BY <1>1, <1>3, <1>4 DEF RecordInv, VersionsWhole, Listed, VersionsOf
<1> HIDE DEF unit
<1>9. HistoryOnDisk'
  BY <1>1, <1>3, <1>5, <1>7 DEF RecordInv, HistoryOnDisk, VersionsOf
<1>10. VersionMeansExecuted'
  <2> SUFFICES ASSUME NEW s \in Site, NEW f \in disk[s], f.version \in history'
               PROVE  f \in executed'
    BY <1>1 DEF VersionMeansExecuted
  <2>1. CASE f.version = v
    BY <1>1, <1>3, <1>5, <1>8, <2>1
  <2>2. CASE f.version \in history
    BY <1>1, <2>2 DEF RecordInv, VersionMeansExecuted
  <2> QED
    BY <1>1, <1>3, <2>1, <2>2
<1>11. \A q \in Run : phase'[q] \in Lanes => q = r
  BY <1>6 DEF Active, Ended, Lanes
<1>12. VersionUnused'
  BY <1>1, <1>11 DEF VersionUnused, Lanes
<1>13. ApplyOnDisk'
  BY <1>1, <1>4, <1>6, <1>7 DEF ApplyOnDisk
<1>14. VersionsWhole'
  <2> SUFFICES ASSUME NEW f \in Files(r), NEW g \in todo[r] \ unit, f.version = g.version
               PROVE  f \in todo[r] \ unit
    BY <1>1, <1>4, <1>11 DEF VersionsWhole, Listed, Lanes
  <2>1. f \in todo[r]
    BY <1>1, <1>4 DEF RecordInv, VersionsWhole, Listed
  <2> QED
    BY <1>3, <2>1
<1> QED
  BY <1>9, <1>10, <1>12, <1>13, <1>14 DEF RecordInv

LEMMA RecordStep ==
  ASSUME OneWorktree, TypeInv, OneRun, NeverBehind, RecordInv, [Next]_vars
  PROVE  RecordInv'
<1> USE DEF OneWorktree
<1>1. ASSUME NEW r \in Run, NEW c \in Commands, Call(r, c) PROVE RecordInv'
  BY <1>1, CallAlone, RecordLoad
<1>2. ASSUME NEW r \in Run, ReloadHistory(r) PROVE RecordInv'
  BY <1>2, LaneAlone, RecordLoad DEF Lane, ReloadHistory, target, plan
<1>3. ASSUME NEW r \in Run, ResolveSources(r) \/ Diff(r) \/ StageClosure(r) PROVE RecordInv'
  <2>1. UNCHANGED <<disk, history, executed, version, pending, todo>>
    BY <1>3 DEF ResolveSources, Diff, StageClosure, target, status, check, plan
  <2>2. /\ \A q \in Run : q # r => ~Active(q)'
        /\ phase[r] \in Listed \ {"runner"} /\ Active(r)
        /\ phase'[r] \notin {"runner", "reconcile", "base", "companion"}
    BY <1>3, LaneAlone DEF Lane, ResolveSources, Diff, StageClosure, Enter, Listed, TypeInv, RunTypes
  <2>3. \A q \in Run : Active(q)' => Active(q) /\ ToApply(q)' = ToApply(q)
    BY <2>1, <2>2 DEF ToApply, Listed
  <2>4. \A q \in Run : phase'[q] \in Lanes => q = r
    BY <2>2 DEF Active, Ended, Lanes
  <2> QED
    BY <2>1, <2>2, <2>3, <2>4, RecordKept DEF Listed, Lanes
<1>4. ASSUME NEW r \in Run, ChooseVersion(r) PROVE RecordInv'
  <2>1. /\ UNCHANGED <<disk, history, executed, pending, todo>>
        /\ phase[r] = "version" /\ phase'[r] = "base" /\ Active(r)
        /\ version'[r] = NextVersion(Files(r), now)
    BY <1>4 DEF ChooseVersion, target, status, check, Enter, TypeInv, RunTypes, Active, Ended
  <2>2. \A q \in Run : q # r => ~Active(q)'
    BY <1>4, LaneAlone DEF Lane
  <2>3. \A q \in Run : phase'[q] \in Lanes => q = r
    BY <2>2 DEF Active, Ended, Lanes
  <2>4. \A f \in Files(r) : f.version \in Nat /\ f.version < version'[r] /\ version'[r] \in Nat
    <3>1. now \in Nat
      BY SyncAssumption DEF TypeInv
    <3>2. \A f \in Files(r) : f.version \in Nat
      BY FilesType, LineageAssumption DEF File
    <3> QED
      BY <2>1, <3>1, <3>2, FilesType, NextVersionAbove
  <2>5. version'[r] \notin history
    BY <2>4, FilesType DEF RecordInv, HistoryOnDisk, VersionsOf, Files
  <2>6. HistoryOnDisk' /\ VersionMeansExecuted' /\ VersionUnused'
    BY <2>1, <2>3, <2>5 DEF RecordInv, HistoryOnDisk, VersionMeansExecuted, VersionUnused, Lanes
  <2>7. ApplyOnDisk' /\ VersionsWhole'
    BY <2>1, <2>2, <2>3 DEF RecordInv, ApplyOnDisk, VersionsWhole, Listed, Lanes, ToApply, Files
  <2> QED
    BY <2>6, <2>7 DEF RecordInv
<1>5. ASSUME NEW r \in Run, Verify(r) PROVE RecordInv'
  <2>1. /\ UNCHANGED <<disk, history, executed, version, pending>>
        /\ phase[r] = "verify" /\ Active(r)
        /\ \/ phase'[r] = "runner" /\ todo'[r] = pending[r]
           \/ phase'[r] = "refused"
    BY <1>5 DEF Verify, target, status, plan, Enter, TypeInv, RunTypes, Active, Ended
  <2>2. \A q \in Run : q # r => ~Active(q)'
    BY <1>5, LaneAlone DEF Lane
  <2>3. \A q \in Run : Active(q)' => Active(q) /\ ToApply(q)' = ToApply(q)
    BY <2>1, <2>2 DEF ToApply, Active, Ended
  <2>4. \A q \in Run : phase'[q] \in Lanes => q = r
    BY <2>2 DEF Active, Ended, Lanes
  <2> QED
    BY <2>1, <2>3, <2>4, RecordKept DEF Listed, Lanes
<1>6. ASSUME NEW r \in Run, RunnerEnds(r) \/ Reconcile(r) PROVE RecordInv'
  <2>1. UNCHANGED <<disk, history, executed, version, pending, todo>>
    BY <1>6 DEF RunnerEnds, Reconcile, target, status, check, plan
  <2>2. /\ \A q \in Run : q # r => ~Active(q)'
        /\ Active(r) /\ phase[r] \in {"runner", "reconcile"}
        /\ phase'[r] \in Ended \cup {"reconcile"}
    BY <1>6, LaneAlone DEF Lane, RunnerEnds, Reconcile, Enter, TypeInv, RunTypes, Ended
  <2>3. \A q \in Run : Active(q)' => Active(q) /\ ToApply(q)' = ToApply(q)
    BY <2>1, <2>2 DEF ToApply, Active
  <2>4. \A q \in Run : phase'[q] \in Lanes => q = r /\ phase'[q] = "reconcile"
    BY <2>2 DEF Active, Ended, Lanes
  <2> QED
    BY <2>1, <2>3, <2>4, RecordKept DEF Listed, Lanes
<1>7. ASSUME NEW r \in Run, Die(r) PROVE RecordInv'
  <2>1. /\ UNCHANGED <<disk, history, executed, version, pending, todo>>
        /\ phase' = [phase EXCEPT ![r] = "failed"]
    BY <1>7 DEF Die, target, status, check, plan, Enter
  <2>2. \A q \in Run : phase'[q] = phase[q] \/ phase'[q] = "failed"
    BY <2>1 DEF TypeInv, RunTypes
  <2> QED
    BY <2>1, <2>2, RecordKept DEF Listed, ToApply, Active, Ended
<1>8. ASSUME NEW s \in Site, Developer(s) PROVE RecordInv'
  <2>1. CASE HandWrite(s)
    BY <2>1, RecordHand
  <2>2. CASE Edit(s) \/ Commit(s) \/ Push(s)
    <3>1. UNCHANGED <<disk, history, executed, version, pending, todo, phase>>
      BY <2>2 DEF Edit, Commit, Push, git, target, status, check, plan
    <3> QED
      BY <3>1, RecordKept DEF ToApply, Active
  <2>3. ~Pull(s)
    BY DEF Pull, NeverBehind
  <2> QED
    BY <1>8, <2>1, <2>2, <2>3 DEF Developer
<1>9. CASE Tick \/ UNCHANGED vars
  <2>1. UNCHANGED <<disk, history, executed, version, pending, todo, phase>>
    BY <1>9 DEF Tick, vars, git, target, status, check, plan
  <2> QED
    BY <2>1, RecordKept DEF ToApply, Active
<1> QED
  BY <1>1, <1>2, <1>3, <1>4, <1>5, <1>6, <1>7, <1>8, <1>9, RecordWrite, RecordApply
     DEF Next, Start, Lane

\* What all proofs about one worktree share.
Shared == TypeInv /\ OneRun /\ NewerThanHistory /\ NeverBehind /\ RecordInv

LEMMA SharedHolds ==
  ASSUME OneWorktree
  PROVE  Spec => []Shared
<1> USE DEF Shared
<1>1. Init => Shared
  <2> SUFFICES ASSUME Init PROVE Shared
    OBVIOUS
  <2>1. TypeInv
    BY InitTypes
  <2>2. OneRun /\ NewerThanHistory /\ NeverBehind
    BY DEF Init, OneRun, NewerThanHistory, NeverBehind, Active, Ended
  <2>3. \A r \in Run : phase[r] = "idle"
    BY DEF Init
  <2>4. RecordInv
    BY <2>3 DEF Init, RecordInv, HistoryOnDisk, VersionMeansExecuted, VersionUnused,
                ApplyOnDisk, VersionsWhole, Active, Ended, Listed
  <2> QED
    BY <2>1, <2>2, <2>4
<1>2. Shared /\ [Next]_vars => Shared'
  BY TypeStep, OneRunStep, NewerStep, BehindStep, RecordStep DEF OneWorktree
<1> QED
  BY <1>1, <1>2, PTL DEF Spec

\* In one worktree with one run at a time, a recorded version has had every file
\* of that version executed, whatever dies between choosing the version, writing
\* the files and applying them.
THEOREM VersionCorrect ==
  ASSUME OneWorktree
  PROVE  Spec => []VersionMeansExecuted
<1>1. Shared => VersionMeansExecuted
  BY DEF Shared, RecordInv
<1> QED
  BY <1>1, SharedHolds, PTL

--------------------------------------------------------------------------------
(* The chain. *)

\* The newest generated file is the one latestLineage finds.
LEMMA LatestIsNewest ==
  ASSUME NEW files \in SUBSET File, NEW f, Newest(f, files),
         \A g, h \in Generated(files) : g.version = h.version => g = h
  PROVE  Latest(files) = {f}
<1> DEFINE newest == {g \in Generated(files) : \A h \in Generated(files) : h.version <= g.version}
<1>1. \A g \in Generated(files) : g.version \in Nat
  BY LineageAssumption DEF Generated, File
<1>2. newest = {f}
  BY <1>1 DEF Newest
<1>3. (CHOOSE g \in newest : TRUE) \in newest
  BY <1>2
<1>4. Latest(files) = IF newest = {} THEN {} ELSE {CHOOSE g \in newest : TRUE}
  BY DEF Latest
<1> HIDE DEF newest
<1> QED
  BY <1>2, <1>3, <1>4

\* Steps that add no generated file and let no run into a writing lane.
LEMMA ChainKept ==
  ASSUME ChainInv,
         \A s \in Site : /\ Generated(disk'[s]) = Generated(disk[s])
                         /\ \A f \in disk'[s] : f.part # "hand" => f \in disk[s],
         \A q \in Run : Home[q] \in Site,
         \A q \in Run : phase'[q] \in {"version", "base"} =>
            phase'[q] = phase[q] /\ version'[q] = version[q] /\ planFrom'[q] = planFrom[q]
  PROVE  ChainInv'
<1>1. GeneratedOnce' /\ ChainContiguous'
  BY DEF ChainInv, GeneratedOnce, ChainContiguous
<1>2. \A q \in Run : Generated(Files(q)') = Generated(Files(q))
  BY DEF Files
<1>3. \A q \in Run : \A f : Newest(f, Files(q)') <=> Newest(f, Files(q))
  BY <1>2 DEF Newest
<1>4. \A f, files : Newest(f, files) => f \in files
  BY DEF Newest, Generated
<1>5. PlanContinues'
  BY <1>3, <1>4 DEF ChainInv, PlanContinues
<1>6. VersionAbove'
  BY DEF ChainInv, VersionAbove, Files
<1> QED
  BY <1>1, <1>5, <1>6 DEF ChainInv

LEMMA ChainDiff ==
  ASSUME OneWorktree, Shared, ChainInv, NEW r \in Run, Diff(r)
  PROVE  ChainInv'
<1> USE DEF Shared
<1>1. /\ UNCHANGED <<disk, version>>
      /\ phase'[r] = "version" => ~ChainBroken(Files(r), planFrom'[r], tree[Home[r]])
      /\ phase'[r] # "base"
  BY DEF Diff, Enter, TypeInv, RunTypes
<1>2. \A q \in Run : phase'[q] \in {"version", "base"} => q = r
  BY LaneAlone DEF Lane, Active, Ended
<1>3. Files(r)' = Files(r) /\ Files(r) \in SUBSET File
  BY <1>1, FilesType DEF Files
<1>4. GeneratedOnce' /\ ChainContiguous' /\ VersionAbove'
  BY <1>1, <1>2 DEF ChainInv, GeneratedOnce, ChainContiguous, VersionAbove
<1>5. PlanContinues'
  <2> SUFFICES ASSUME phase'[r] = "version", NEW f \in Files(r), Newest(f, Files(r))
               PROVE  f.to = planFrom'[r]
    BY <1>1, <1>2, <1>3 DEF PlanContinues
  <2>1. \A g, h \in Generated(Files(r)) : g.version = h.version => g = h
    BY FilesType DEF ChainInv, GeneratedOnce, Files
  <2>2. Latest(Files(r)) = {f}
    BY <1>3, <2>1, LatestIsNewest
  <2> QED
    BY <1>1, <2>2 DEF ChainBroken
<1> QED
  BY <1>4, <1>5 DEF ChainInv

LEMMA ChainChoose ==
  ASSUME OneWorktree, Shared, ChainInv, NEW r \in Run, ChooseVersion(r)
  PROVE  ChainInv'
<1> USE DEF Shared
<1>1. /\ UNCHANGED <<disk, planFrom>>
      /\ phase[r] = "version" /\ version'[r] = NextVersion(Files(r), now)
  BY DEF ChooseVersion, Enter, TypeInv, RunTypes
<1>2. \A q \in Run : phase'[q] \in {"version", "base"} => q = r
  BY LaneAlone DEF Lane, Active, Ended
<1>3. Files(r)' = Files(r)
  BY <1>1 DEF Files
<1>4. \A f \in Files(r) : f.version < version'[r]
  <2>1. now \in Nat
    BY SyncAssumption DEF TypeInv
  <2> QED
    BY <1>1, <2>1, FilesType, NextVersionAbove
<1>5. GeneratedOnce' /\ ChainContiguous'
  BY <1>1 DEF ChainInv, GeneratedOnce, ChainContiguous
<1>6. VersionAbove' /\ PlanContinues'
  BY <1>1, <1>2, <1>3, <1>4 DEF ChainInv, VersionAbove, PlanContinues
<1> QED
  BY <1>5, <1>6 DEF ChainInv

\* The new link is above the others and starts where the newest of them ends.
LEMMA ChainExtend ==
  ASSUME OneWorktree, Shared, ChainInv, NEW r \in Run, phase[r] = "base",
         \A s \in Site : disk'[s] = disk[s] \cup {Base(r)},
         \A q \in Run : phase'[q] \notin {"version", "base"}
  PROVE  ChainInv'
<1> USE DEF Shared
<1>1. Base(r).version = version[r] /\ Base(r).from = planFrom[r] /\ Base(r).part = "base"
  BY DEF Base, F
<1>2. \A s \in Site : Generated(disk'[s]) = Generated(disk[s]) \cup {Base(r)}
  BY <1>1 DEF Generated
<1>3. \A s \in Site : s = Home[r] /\ disk[s] = Files(r)
  BY FilesType DEF OneWorktree, Files
<1>4. \A s \in Site : \A f \in Generated(disk[s]) :
        f.version < version[r] /\ f.version \in Nat /\ version[r] \in Nat
  BY <1>3, FilesType, LineageAssumption
     DEF ChainInv, VersionAbove, Generated, File, TypeInv, RunTypes
<1>5. \A s \in Site : \A f \in Generated(disk[s]) :
        (\A g \in Generated(disk[s]) : ~(f.version < g.version)) => f.to = planFrom[r]
  <2> SUFFICES ASSUME NEW s \in Site, NEW f \in Generated(disk[s]),
                      \A g \in Generated(disk[s]) : ~(f.version < g.version)
               PROVE  f.to = planFrom[r]
    OBVIOUS
  <2>1. Newest(f, Files(r))
    BY <1>3, <1>4 DEF Newest
  <2> QED
    BY <2>1 DEF ChainInv, PlanContinues, Newest, Generated
<1> HIDE DEF Shared
<1>6. GeneratedOnce'
  BY <1>1, <1>2, <1>4 DEF ChainInv, GeneratedOnce
<1>7. ChainContiguous'
  <2> SUFFICES ASSUME NEW s \in Site, NEW f \in Generated(disk'[s]), NEW g \in Generated(disk'[s]),
                      f.version < g.version,
                      \A h \in Generated(disk'[s]) :
                         ~(f.version < h.version /\ h.version < g.version)
               PROVE  f.to = g.from
    BY DEF ChainContiguous
  <2>1. CASE f = Base(r)
    BY <1>1, <1>2, <1>4, <2>1
  <2>2. CASE f # Base(r) /\ g = Base(r)
    BY <1>1, <1>2, <1>4, <1>5, <2>2
  <2>3. CASE f # Base(r) /\ g # Base(r)
    BY <1>2, <2>3 DEF ChainInv, ChainContiguous
  <2> QED
    BY <2>1, <2>2, <2>3
<1> QED
  BY <1>6, <1>7 DEF ChainInv, VersionAbove, PlanContinues

LEMMA ChainWrite ==
  ASSUME OneWorktree, Shared, ChainInv, NEW r \in Run, WriteBase(r) \/ WriteCompanion(r)
  PROVE  ChainInv'
<1> USE DEF Shared
<1>1. \A q \in Run : phase'[q] \in {"version", "base"} => q = r
  BY LaneAlone DEF Lane, Active, Ended
<1>2. PICK part \in {"base", "companion"}, next \in {"companion", "reload"} :
        phase[r] = part /\ Write(r, part, next)
  BY DEF WriteBase, WriteCompanion
<1>3. \A q \in Run : phase'[q] \notin {"version", "base"}
  BY <1>1, <1>2, WriteAdds
<1>4. CASE disk' = disk
  BY <1>3, <1>4, ChainKept, FilesType
<1>5. CASE disk' # disk
  <2>1. \A s \in Site : disk'[s] = disk[s] \cup {F(version[r], part, planFrom[r], planTo[r])}
    BY <1>2, <1>5, WriteAdds
  <2>2. CASE part = "base"
    BY <1>2, <1>3, <2>1, <2>2, ChainExtend DEF Base
  <2>3. CASE part = "companion"
    <3> DEFINE file == F(version[r], "companion", planFrom[r], planTo[r])
    <3>1. file.part = "companion"
      BY DEF F
    <3>2. \A s \in Site : disk'[s] = disk[s] \cup {file}
      BY <2>1, <2>3
    <3> HIDE DEF file
    <3>3. \A s \in Site : Generated(disk'[s]) = Generated(disk[s])
      BY <3>1, <3>2 DEF Generated
    <3>4. ChainContiguous' /\ GeneratedOnce'
      BY <3>3 DEF ChainInv, ChainContiguous, GeneratedOnce
    <3> QED
      BY <1>3, <3>4 DEF ChainInv, VersionAbove, PlanContinues
  <2> QED
    BY <2>2, <2>3
<1> QED
  BY <1>4, <1>5

LEMMA ChainStep ==
  ASSUME OneWorktree, Shared, ChainInv, [Next]_vars
  PROVE  ChainInv'
<1> USE DEF Shared
<1>1. \A q \in Run : Home[q] \in Site
  BY FilesType
<1>2. ASSUME NEW r \in Run, NEW c \in Commands, Call(r, c) PROVE ChainInv'
  <2>1. UNCHANGED <<disk, version, planFrom>>
    BY <1>2 DEF Call
  <2>2. \A q \in Run : phase'[q] \notin {"version", "base"}
    BY <1>2, CallAlone DEF LoadHistory, Enter, TypeInv, RunTypes, OneWorktree, Active, Ended
  <2> QED
    BY <1>1, <2>1, <2>2, ChainKept
<1>3. ASSUME NEW r \in Run,
             \/ ResolveSources(r) \/ ReloadHistory(r) \/ StageClosure(r) \/ Verify(r)
             \/ ApplyUnit(r) \/ RunnerEnds(r) \/ Reconcile(r) \/ Die(r)
      PROVE  ChainInv'
  <2>1. UNCHANGED <<disk, version, planFrom>>
    BY <1>3 DEF ResolveSources, ReloadHistory, StageClosure, Verify, ApplyUnit, RunnerEnds,
                Reconcile, Die, plan
  <2>2. \A q \in Run : phase'[q] \in {"version", "base"} => phase'[q] = phase[q]
    BY <1>3 DEF ResolveSources, ReloadHistory, LoadHistory, StageClosure, Verify, ApplyUnit,
                RunnerEnds, Reconcile, Die, Enter, TypeInv, RunTypes
  <2> QED
    BY <1>1, <2>1, <2>2, ChainKept
<1>4. ASSUME NEW s \in Site, Developer(s) PROVE ChainInv'
  <2>1. CASE HandWrite(s)
    <3>1. PICK file \in File :
            /\ file.part = "hand"
            /\ \A u \in Site : disk'[u] = disk[u] \cup {file}
            /\ UNCHANGED <<phase, version, planFrom>>
      BY <2>1, HandWriteNewest
    <3>2. \A u \in Site : Generated(disk'[u]) = Generated(disk[u])
      BY <3>1 DEF Generated
    <3> QED
      BY <1>1, <3>1, <3>2, ChainKept
  <2>2. CASE Edit(s) \/ Commit(s) \/ Push(s)
    <3>1. UNCHANGED <<disk, version, planFrom, phase>>
      BY <2>2 DEF Edit, Commit, Push, plan
    <3> QED
      BY <1>1, <3>1, ChainKept
  <2>3. ~Pull(s)
    BY DEF Pull, NeverBehind
  <2> QED
    BY <1>4, <2>1, <2>2, <2>3 DEF Developer
<1>5. CASE Tick \/ UNCHANGED vars
  <2>1. UNCHANGED <<disk, version, planFrom, phase>>
    BY <1>5 DEF Tick, vars, plan
  <2> QED
    BY <1>1, <2>1, ChainKept
<1> QED
  BY <1>2, <1>3, <1>4, <1>5, ChainDiff, ChainChoose, ChainWrite DEF Next, Start, Lane

LEMMA ChainInit == Init => ChainInv
<1> SUFFICES ASSUME Init PROVE ChainInv
  OBVIOUS
<1>1. \A s \in Site : \A f, g \in disk[s] : f = g /\ f.version = 1
  <2>1. \A s \in Site : disk[s] = FirstFiles
    BY DEF Init
  <2>2. \A f, g \in FirstFiles : f = g /\ f.version = 1
    BY DEF FirstFiles, F
  <2> QED
    BY <2>1, <2>2
<1>2. GeneratedOnce /\ ChainContiguous
  BY <1>1 DEF GeneratedOnce, ChainContiguous, Generated
<1>3. VersionAbove /\ PlanContinues
  BY DEF Init, VersionAbove, PlanContinues
<1> QED
  BY <1>2, <1>3 DEF ChainInv

\* In one worktree with one run at a time the generated migrations stay a chain:
\* each starts at the schema the one before ends at.
THEOREM ChainCorrect ==
  ASSUME OneWorktree
  PROVE  Spec => []ChainContiguous
<1>1. Shared /\ ChainInv /\ [Next]_vars => ChainInv'
  BY ChainStep
<1>2. ChainInv => ChainContiguous
  BY DEF ChainInv
<1> QED
  BY <1>1, <1>2, ChainInit, SharedHolds, PTL DEF Spec

--------------------------------------------------------------------------------
(* What the files of a migration do to the schema they start from.              *)

LEMMA ExecuteBase ==
  ASSUME NEW v \in Nat, NEW from \in SUBSET Object, NEW to \in SUBSET Object,
         Difference(from, to) \cap Concurrent = {}
  PROVE  Execute(from, {F(v, "base", from, to)}) = to
<1> DEFINE b == F(v, "base", from, to)
<1>1. b.version <= b.version /\ b.version = v
  BY DEF F
<1>2. Adds(b) = (to \ from) \cap (Object \ Concurrent) /\ Drops(b) = (from \ to) \cap (Object \ Concurrent)
  BY DEF Adds, Drops, Touches, F
<1>3. Adds(b) = to \ from /\ Drops(b) = from \ to
  BY <1>2 DEF Difference
<1> HIDE DEF b
<1>4. \A o \in Object : o \in Execute(from, {b}) <=>
        IF o \in Adds(b) \cup Drops(b) THEN o \in Adds(b) ELSE o \in from
  BY <1>1 DEF Execute
<1>5. Execute(from, {b}) \in SUBSET Object
  BY ExecuteType
<1>6. Execute(from, {b}) = to
  BY <1>3, <1>4, <1>5
<1> QED
  BY <1>6 DEF b

LEMMA ExecutePair ==
  ASSUME NEW v \in Nat, NEW from \in SUBSET Object, NEW to \in SUBSET Object
  PROVE  Execute(from, {F(v, "base", from, to), F(v, "companion", from, to)}) = to
<1> DEFINE b == F(v, "base", from, to)
           c == F(v, "companion", from, to)
<1>1. b.version = v /\ c.version = v /\ v <= v
  BY DEF F
<1>2. /\ Adds(b) = (to \ from) \cap (Object \ Concurrent)
      /\ Drops(b) = (from \ to) \cap (Object \ Concurrent)
      /\ Adds(c) = (to \ from) \cap Concurrent
      /\ Drops(c) = (from \ to) \cap Concurrent
  BY DEF Adds, Drops, Touches, F
<1>3. Adds(b) \cup Adds(c) = to \ from /\ Drops(b) \cup Drops(c) = from \ to
  BY <1>2
<1> HIDE DEF b, c
<1>4. \A o \in Object : o \in Execute(from, {b, c}) <=>
        IF o \in Adds(b) \cup Adds(c) \cup Drops(b) \cup Drops(c)
        THEN o \in Adds(b) \cup Adds(c) ELSE o \in from
  BY <1>1 DEF Execute
<1>5. Execute(from, {b, c}) \in SUBSET Object
  BY ExecuteType
<1>6. Execute(from, {b, c}) = to
  BY <1>3, <1>4, <1>5
<1> QED
  BY <1>6 DEF b, c

\* A directory that is whole with a new migration was whole without it.
LEMMA WholeWithoutBase ==
  ASSUME NEW files, NEW b, b.part = "base", Whole(files \cup {b})
  PROVE  Whole(files)
BY DEF Whole

LEMMA WholeWithoutPair ==
  ASSUME NEW files, NEW b \in files, NEW c, b.part = "base", c.part = "companion",
         c.version \in Nat, \A f \in files \ {b} : f.part # "hand" => f.version < c.version,
         \A f \in files : f.version \in Nat,
         Whole(files \cup {c})
  PROVE  Whole(files \ {b})
<1> SUFFICES ASSUME NEW f \in files \ {b}
             PROVE  /\ f.part # "hand"
                    /\ f.part = "base" /\ Difference(f.from, f.to) \cap Concurrent # {} =>
                         \E g \in files \ {b} : g.part = "companion" /\ g.version = f.version
  BY DEF Whole
<1>1. f.part # "hand"
  BY DEF Whole
<1>2. ASSUME f.part = "base", Difference(f.from, f.to) \cap Concurrent # {}
      PROVE  \E g \in files \ {b} : g.part = "companion" /\ g.version = f.version
  <2>1. PICK g \in files \cup {c} : g.part = "companion" /\ g.version = f.version
    BY <1>2 DEF Whole
  <2>2. g # c /\ g # b
    BY <1>1, <2>1
  <2> QED
    BY <2>1, <2>2
<1> QED
  BY <1>1, <1>2

--------------------------------------------------------------------------------
(* ReplayInv, step by step. *)

\* Without a pull no file leaves a worktree.
LEMMA DiskGrows ==
  ASSUME OneWorktree, Shared, [Next]_vars
  PROVE  \A s \in Site : disk[s] \subseteq disk'[s]
<1> USE DEF Shared
<1>1. ASSUME NEW r \in Run, WriteBase(r) \/ WriteCompanion(r)
      PROVE  \A s \in Site : disk[s] \subseteq disk'[s]
  BY <1>1, WriteAdds DEF WriteBase, WriteCompanion
<1>2. ASSUME NEW s \in Site, HandWrite(s)
      PROVE  \A u \in Site : disk[u] \subseteq disk'[u]
  BY <1>2, HandWriteNewest
<1>3. ASSUME NEW r \in Run,
             \/ Start(r) \/ ResolveSources(r) \/ Diff(r) \/ ChooseVersion(r) \/ ReloadHistory(r)
             \/ StageClosure(r) \/ Verify(r) \/ ApplyUnit(r) \/ RunnerEnds(r) \/ Reconcile(r)
             \/ Die(r)
      PROVE  disk' = disk
  BY <1>3 DEF Start, Call, ResolveSources, Diff, ChooseVersion, ReloadHistory, StageClosure, Verify,
              ApplyUnit, RunnerEnds, Reconcile, Die
<1>4. ASSUME NEW s \in Site, Edit(s) \/ Commit(s) \/ Push(s) PROVE disk' = disk
  BY <1>4 DEF Edit, Commit, Push
<1>5. \A s \in Site : ~Pull(s)
  BY DEF Pull, NeverBehind
<1>6. CASE Tick \/ UNCHANGED vars
  BY <1>6 DEF Tick, vars
<1> QED
  BY <1>1, <1>2, <1>3, <1>4, <1>5, <1>6 DEF Next, Lane, Developer

LEMMA CatalogStep ==
  ASSUME OneWorktree, Shared, CatalogIsReplay, [Next]_vars
  PROVE  CatalogIsReplay'
<1>1. \A s \in Site : disk[s] \subseteq disk'[s]
  BY DiskGrows
<1> USE DEF Shared
<1>2. ASSUME NEW r \in Run, ApplyUnit(r) PROVE CatalogIsReplay'
  <2> DEFINE unit == NextUnit(r)
  <2>1. /\ phase[r] = "runner" /\ todo[r] # {}
        /\ history' = history \cup VersionsOf(unit) /\ executed' = executed \cup unit
        /\ catalog' = Execute(catalog, unit) /\ todo[r] \in SUBSET File
    BY <1>2 DEF ApplyUnit, TypeInv, RunTypes
  <2>2. unit \subseteq todo[r]
    BY DEF NextUnit
  <2>3. Active(r) /\ ToApply(r) = todo[r]
    BY <2>1 DEF Active, Ended, ToApply
  <2>4. \A s \in Site : unit \subseteq disk[s]
    BY <2>2, <2>3, FilesType DEF OneWorktree, RecordInv, ApplyOnDisk, Files
  <2>5. \A f \in executed, g \in unit : f.version < g.version
    BY <2>2, <2>3 DEF NewerThanHistory, CatalogIsReplay, VersionsOf
  <2> HIDE DEF unit
  <2>6. executed \in SUBSET File /\ unit \in SUBSET File
    BY <2>1, <2>2 DEF TypeInv, TargetTypes
  <2>7. Execute(Execute({}, executed), unit) = Execute({}, executed \cup unit)
    BY <2>5, <2>6, ExecuteCompose
  <2>8. VersionsOf(executed') \subseteq history'
    BY <2>1 DEF CatalogIsReplay, VersionsOf
  <2> QED
    BY <1>1, <2>1, <2>4, <2>7, <2>8 DEF CatalogIsReplay
<1>3. ASSUME UNCHANGED target PROVE CatalogIsReplay'
  BY <1>1, <1>3 DEF CatalogIsReplay, target
<1>4. ASSUME NEW r \in Run, Lane(r), ~ApplyUnit(r) PROVE UNCHANGED target
  BY <1>4 DEF Lane, ResolveSources, Diff, ChooseVersion, WriteBase, WriteCompanion, Write,
              ReloadHistory, StageClosure, Verify, RunnerEnds, Reconcile
<1>5. ASSUME NEW r \in Run, Start(r) \/ Die(r) PROVE UNCHANGED target
  BY <1>5 DEF Start, Call, Die
<1>6. CASE Tick \/ (\E s \in Site : Developer(s)) \/ UNCHANGED vars
  BY <1>3, <1>6 DEF Tick, Developer, Edit, HandWrite, Commit, Pull, Push, vars
<1> QED
  BY <1>2, <1>3, <1>4, <1>5, <1>6 DEF Next

LEMMA FirstStep ==
  ASSUME OneWorktree, Shared, HasFirst, [Next]_vars
  PROVE  HasFirst'
<1>1. \A s \in Site : disk[s] \subseteq disk'[s]
  BY DiskGrows
<1> QED
  BY <1>1 DEF HasFirst, Generated

\* The parts of ReplayInv that are about files and plans.
PlanInv == HasFirst /\ ReplayIsLineage /\ PlanIsReplay /\ HalfWritten /\ WritesOnce /\ CompanionKept

\* Steps that write nothing and change no plan.
LEMMA PlanKept ==
  ASSUME PlanInv, UNCHANGED <<disk, version, planFrom, planTo>>,
         \A q \in Run : phase'[q] \in {"version", "base", "companion"} => phase'[q] = phase[q],
         \A q \in Run : phase'[q] \in {"sources", "diff"} => generated'[q] = {},
         \A q \in Run : Active(q)' =>
            \/ generated'[q] = {}
            \/ Active(q) /\ generated'[q] = generated[q],
         \/ crashes' # 0
         \/ /\ crashes' = crashes
            /\ \A q \in Run : phase[q] = "companion" => phase'[q] = "companion"
  PROVE  PlanInv'
<1>1. HasFirst' /\ ReplayIsLineage'
  BY DEF PlanInv, HasFirst, ReplayIsLineage
<1>2. PlanIsReplay'
  BY DEF PlanInv, PlanIsReplay, Files
<1>3. \A q \in Run : Base(q)' = Base(q) /\ Files(q)' = Files(q)
  BY DEF Base, Files
<1>4. HalfWritten'
  BY <1>3 DEF PlanInv, HalfWritten
<1>5. WritesOnce'
  <2>1. \A q \in Run : phase'[q] \in {"version", "base"} => generated'[q] = {}
    <3> SUFFICES ASSUME NEW q \in Run, phase'[q] \in {"version", "base"}
                 PROVE  generated'[q] = {}
      OBVIOUS
    <3>1. generated[q] = {} /\ Active(q)'
      BY DEF PlanInv, WritesOnce, Active, Ended
    <3> QED
      BY <3>1
  <2> QED
    BY <1>3, <2>1 DEF PlanInv, WritesOnce
<1>6. CompanionKept'
  BY <1>3 DEF PlanInv, CompanionKept
<1> QED
  BY <1>1, <1>2, <1>4, <1>5, <1>6, FirstStep DEF PlanInv

\* What auto takes as the before-state is what a whole directory does.
LEMMA PlanDiff ==
  ASSUME OneWorktree, Shared, ChainInv, PlanInv, NEW r \in Run, Diff(r)
  PROVE  PlanInv'
<1> USE DEF Shared
<1>1. /\ UNCHANGED <<disk, version, generated, crashes>>
      /\ phase[r] = "diff" /\ phase'[r] \in {"refused", "closure", "unchained", "version"}
      /\ planFrom'[r] = SourceModel(r)
      /\ phase'[r] = "version" => ~BaselineRefused(Files(r), source[r], SourceModel(r))
  BY DEF Diff, Enter, TypeInv, RunTypes, bounds
<1>2. /\ \A q \in Run : phase'[q] \in Lanes => q = r
      /\ \A q \in Run : phase[q] = "companion" => q = r
      /\ \A q \in Run : Active(q)' => q = r
  BY LaneAlone DEF Lane, Active, Ended, Lanes
<1>3. Files(r)' = Files(r) /\ generated[r] = {}
  BY <1>1 DEF Files, PlanInv, WritesOnce
<1>4. HasFirst' /\ ReplayIsLineage'
  BY <1>1 DEF PlanInv, HasFirst, ReplayIsLineage
<1>5. WritesOnce'
  BY <1>1, <1>2, <1>3 DEF WritesOnce, Lanes
<1>6. HalfWritten' /\ CompanionKept'
  BY <1>1, <1>2 DEF PlanInv, HalfWritten, CompanionKept, Lanes
<1>7. PlanIsReplay'
  <2> SUFFICES ASSUME phase'[r] = "version", Whole(Files(r))
               PROVE  Execute({}, Files(r)) = SourceModel(r)
    BY <1>1, <1>2, <1>3 DEF PlanIsReplay, Lanes
  <2>1. CASE source[r] = "migrations"
    BY <2>1 DEF SourceModel
  <2>2. CASE source[r] # "migrations"
    <3>1. ~ReplayRequired(Files(r)) /\ Proves(Files(r), SourceModel(r))
      BY <1>1, <2>2 DEF BaselineRefused
    <3>2. Files(r) # {}
      BY FilesType DEF PlanInv, HasFirst, Generated, Files
    <3>3. Latest(Files(r)) # {}
      BY <3>1, <3>2 DEF ReplayRequired
    <3>4. PICK f \in Generated(Files(r)) : Newest(f, Files(r))
      BY <3>3 DEF Latest, Newest
    <3>5. Latest(Files(r)) = {f}
      BY <3>4, FilesType, LatestIsNewest DEF ChainInv, GeneratedOnce, Files
    <3>6. f.to = SourceModel(r)
      BY <3>1, <3>5 DEF Proves
    <3>7. Execute({}, Files(r)) = f.to
      BY <3>4, FilesType DEF PlanInv, ReplayIsLineage, Files, Generated
    <3> QED
      BY <3>6, <3>7
  <2> QED
    BY <2>1, <2>2
<1> QED
  BY <1>4, <1>5, <1>6, <1>7 DEF PlanInv

LEMMA PlanChoose ==
  ASSUME OneWorktree, Shared, PlanInv, NEW r \in Run, ChooseVersion(r)
  PROVE  PlanInv'
<1> USE DEF Shared
<1>1. /\ UNCHANGED <<disk, planFrom, planTo, generated, crashes>>
      /\ phase[r] = "version" /\ phase'[r] = "base"
  BY DEF ChooseVersion, Enter, TypeInv, RunTypes, bounds
<1>2. /\ \A q \in Run : phase'[q] \in Lanes => q = r
      /\ \A q \in Run : phase[q] = "companion" => q = r
      /\ \A q \in Run : Active(q)' => q = r
  BY LaneAlone DEF Lane, Active, Ended, Lanes
<1>3. Files(r)' = Files(r) /\ generated[r] = {}
  BY <1>1 DEF Files, PlanInv, WritesOnce
<1>4. HasFirst' /\ ReplayIsLineage' /\ PlanIsReplay'
  BY <1>1, <1>2, <1>3 DEF PlanInv, HasFirst, ReplayIsLineage, PlanIsReplay, Lanes
<1>5. WritesOnce' /\ HalfWritten' /\ CompanionKept'
  BY <1>1, <1>2, <1>3 DEF PlanInv, WritesOnce, HalfWritten, CompanionKept, Lanes
<1> QED
  BY <1>4, <1>5 DEF PlanInv

LEMMA PlanHand ==
  ASSUME OneWorktree, Shared, PlanInv, NEW s \in Site, HandWrite(s)
  PROVE  PlanInv'
<1> USE DEF Shared
<1>1. PICK file \in File :
        /\ file.part = "hand"
        /\ \A u \in Site : disk'[u] = disk[u] \cup {file}
        /\ UNCHANGED <<phase, version, planFrom, planTo, generated, crashes>>
  BY HandWriteNewest
<1>2. \A q \in Run : Files(q)' = Files(q) \cup {file} /\ Base(q)' = Base(q) /\ Base(q) # file
  BY <1>1, FilesType DEF Files, Base, F
<1>3. /\ \A u \in Site : Generated(disk'[u]) = Generated(disk[u])
      /\ \A q \in Run : Generated(Files(q)') = Generated(Files(q))
  BY <1>1, <1>2 DEF Generated
<1>4. /\ \A u \in Site : ~Whole(disk'[u])
      /\ \A q \in Run : ~Whole(Files(q)') /\ ~Whole(Files(q)' \ {Base(q)})
  BY <1>1, <1>2 DEF Whole
<1>5. HasFirst' /\ ReplayIsLineage' /\ PlanIsReplay'
  BY <1>3, <1>4 DEF PlanInv, HasFirst, ReplayIsLineage, PlanIsReplay
<1>6. HalfWritten'
  BY <1>1, <1>2, <1>4 DEF PlanInv, HalfWritten
<1>7. WritesOnce'
  BY <1>1, <1>2, <1>3 DEF PlanInv, WritesOnce, Newest, Active
<1>8. CompanionKept'
  BY <1>1, <1>2 DEF PlanInv, CompanionKept, Split, HasCompanion
<1> QED
  BY <1>5, <1>6, <1>7, <1>8 DEF PlanInv

\* The path a run writes is a new one.
LEMMA FreshPath ==
  ASSUME OneWorktree, Shared, ChainInv, PlanInv, NEW r \in Run,
         NEW part \in {"base", "companion"}, phase[r] = part
  PROVE  \A f \in Files(r) : ~SamePath(f, F(version[r], part, planFrom[r], planTo[r]))
<1> USE DEF Shared
<1> SUFFICES ASSUME NEW f \in Files(r), f.version = version[r], f.part = part
             PROVE  FALSE
  BY DEF SamePath, F
<1>1. f.version \in Nat
  BY FilesType, LineageAssumption DEF File
<1>2. CASE part = "base"
  BY <1>1, <1>2 DEF ChainInv, VersionAbove
<1>3. CASE part = "companion"
  <2>1. f # Base(r)
    BY <1>3 DEF Base, F
  <2>2. \A g \in Files(r) \ {Base(r)} : g.part # "hand" => g.version < version[r]
    BY <1>3 DEF PlanInv, HalfWritten
  <2>3. f.version < version[r]
    BY <1>3, <2>1, <2>2
  <2> QED
    BY <1>1, <2>3
<1> QED
  BY <1>2, <1>3

LEMMA PlanBase ==
  ASSUME OneWorktree, Shared, ChainInv, PlanInv, NEW r \in Run, WriteBase(r)
  PROVE  PlanInv'
<1> USE DEF Shared
<1> DEFINE b == Base(r)
           next == IF Split(b) THEN "companion" ELSE "reload"
<1>1. /\ phase[r] = "base" /\ Write(r, "base", next)
      /\ b.part = "base" /\ b.version = version[r] /\ b.from = planFrom[r] /\ b.to = planTo[r]
  <2>1. /\ b.part = "base" /\ b.version = version[r]
        /\ b.from = planFrom[r] /\ b.to = planTo[r]
    BY DEF Base, F
  <2>2. Split(b) <=> ((planFrom[r] \ planTo[r]) \cup (planTo[r] \ planFrom[r])) \cap Concurrent # {}
    BY <2>1 DEF Split, Difference
  <2> QED
    BY <2>1, <2>2 DEF WriteBase
<1>2. /\ UNCHANGED <<version, planFrom, planTo, crashes>>
      /\ b \in File /\ phase'[r] = next
      /\ \A s \in Site : disk'[s] = disk[s] \cup {b}
      /\ generated'[r] = generated[r] \cup {b}
  BY <1>1, FreshPath, WriteAdds DEF Base
<1>3. /\ \A q \in Run : phase'[q] \in Lanes => q = r
      /\ \A q \in Run : phase[q] = "companion" => q = r
      /\ \A q \in Run : Active(q)' => q = r
  BY LaneAlone DEF Lane, Active, Ended, Lanes
<1>4. \A s \in Site : disk[s] = Files(r)
  BY FilesType DEF OneWorktree, Files
<1>5. Files(r)' = Files(r) \cup {b} /\ Base(r)' = b
  BY <1>2, FilesType DEF Files, Base
<1>6. /\ Files(r) \in SUBSET File
      /\ \A f \in Files(r) : f.version \in Nat
      /\ version[r] \in Nat
  BY <1>1, <1>2, FilesType, LineageAssumption DEF File
<1>7. \A f \in Files(r) : f.part # "hand" => f.version < version[r]
  BY <1>1 DEF ChainInv, VersionAbove
<1>8. phase[r] = "base" /\ next \in {"companion", "reload"}
  BY <1>1
<1>9. Newest(b, Files(r) \cup {b})
      /\ \A f : Newest(f, Files(r) \cup {b}) => f = b
  BY <1>1, <1>6, <1>7 DEF Newest, Generated
<1> HIDE DEF Shared, b, next
<1>10. HasFirst'
  BY <1>2 DEF PlanInv, HasFirst, Generated
<1>11. ReplayIsLineage'
  <2> SUFFICES ASSUME Whole(Files(r) \cup {b})
               PROVE  Execute({}, Files(r) \cup {b}) = b.to
    BY <1>2, <1>4, <1>9 DEF ReplayIsLineage
  <2>1. ~Split(b)
    BY <1>1, <1>6, <1>7 DEF Split, Whole
  <2>2. Whole(Files(r)) /\ \A f \in Files(r) : f.part # "hand"
    BY <1>1, WholeWithoutBase DEF Whole
  <2>3. Execute({}, Files(r)) = planFrom[r]
    BY <1>1, <2>2 DEF PlanInv, PlanIsReplay
  <2>4. Execute(planFrom[r], {b}) = b.to
    <3>1. Difference(planFrom[r], planTo[r]) \cap Concurrent = {}
      BY <1>1, <2>1 DEF Split
    <3>2. planFrom[r] \in SUBSET Object /\ planTo[r] \in SUBSET Object
      BY DEF Shared, TypeInv, RunTypes
    <3> QED
      BY <1>1, <1>6, <3>1, <3>2, ExecuteBase DEF b, Base
  <2>5. Execute(Execute({}, Files(r)), {b}) = Execute({}, Files(r) \cup {b})
    BY <1>1, <1>2, <1>6, <1>7, <2>2, ExecuteCompose
  <2> QED
    BY <2>3, <2>4, <2>5
<1>12. PlanIsReplay'
  BY <1>2, <1>3, <1>8 DEF PlanIsReplay, Lanes
<1>13. HalfWritten'
  <2> SUFFICES ASSUME phase'[r] = "companion"
               PROVE  /\ Split(b)
                      /\ \A f \in (Files(r) \cup {b}) \ {b} : f.part # "hand" => f.version < version[r]
                      /\ Whole((Files(r) \cup {b}) \ {b})
                           => Execute({}, (Files(r) \cup {b}) \ {b}) = planFrom[r]
    BY <1>2, <1>3, <1>5 DEF HalfWritten, Lanes
  <2>1. Split(b)
    BY <1>2 DEF next
  <2>2. b \notin Files(r)
    BY <1>1, <1>6, <1>7
  <2>3. (Files(r) \cup {b}) \ {b} = Files(r)
    BY <2>2
  <2> QED
    BY <1>1, <1>7, <2>1, <2>3 DEF PlanInv, PlanIsReplay
<1>14. WritesOnce'
  BY <1>2, <1>3, <1>5, <1>8, <1>9 DEF WritesOnce, Lanes
<1>15. CompanionKept'
  <2> SUFFICES ASSUME crashes = 0, NEW s \in Site, NEW f \in disk[s] \cup {b}, Split(f)
               PROVE  \/ HasCompanion(f, disk[s] \cup {b})
                      \/ \E q \in Run : phase'[q] = "companion" /\ f = Base(q)'
    BY <1>2 DEF CompanionKept
  <2>1. CASE f = b
    BY <1>2, <1>5, <2>1 DEF next
  <2>2. CASE f \in disk[s]
    <3>1. HasCompanion(f, disk[s])
      BY <1>3, <1>8, <2>2 DEF PlanInv, CompanionKept
    <3> QED
      BY <3>1 DEF HasCompanion
  <2> QED
    BY <2>1, <2>2
<1> QED
  BY <1>10, <1>11, <1>12, <1>13, <1>14, <1>15 DEF PlanInv

LEMMA PlanCompanion ==
  ASSUME OneWorktree, Shared, ChainInv, PlanInv, NEW r \in Run, WriteCompanion(r)
  PROVE  PlanInv'
<1> USE DEF Shared
<1> DEFINE b == Base(r)
           c == F(version[r], "companion", planFrom[r], planTo[r])
<1>1. /\ phase[r] = "companion" /\ Write(r, "companion", "reload")
      /\ b.part = "base" /\ b.version = version[r] /\ b.to = planTo[r]
      /\ c.part = "companion" /\ c.version = version[r]
  BY DEF WriteCompanion, Base, F
<1>2. /\ UNCHANGED <<version, planFrom, planTo, crashes>>
      /\ c \in File /\ phase'[r] = "reload"
      /\ \A s \in Site : disk'[s] = disk[s] \cup {c}
  BY <1>1, FreshPath, WriteAdds
<1>3. /\ \A q \in Run : phase'[q] \in Lanes => q = r
      /\ \A q \in Run : phase[q] = "companion" => q = r
      /\ \A q \in Run : Active(q)' => q = r
  BY LaneAlone DEF Lane, Active, Ended, Lanes
<1>4. \A s \in Site : disk[s] = Files(r)
  BY FilesType DEF OneWorktree, Files
<1>5. Files(r)' = Files(r) \cup {c} /\ Base(r)' = b
  BY <1>2, FilesType DEF Files, Base
<1>6. /\ Files(r) \in SUBSET File
      /\ \A f \in Files(r) : f.version \in Nat
      /\ version[r] \in Nat
  BY <1>1, <1>2, FilesType, LineageAssumption DEF File
<1>7. /\ b \in Files(r)
      /\ \A f \in Files(r) \ {b} : f.part # "hand" => f.version < version[r]
      /\ Whole(Files(r) \ {b}) => Execute({}, Files(r) \ {b}) = planFrom[r]
  BY <1>1 DEF PlanInv, HalfWritten
<1>8. planFrom[r] \in SUBSET Object /\ planTo[r] \in SUBSET Object
  BY DEF TypeInv, RunTypes
<1>9. Newest(b, Files(r) \cup {c})
      /\ \A f : Newest(f, Files(r) \cup {c}) => f = b
  BY <1>1, <1>6, <1>7 DEF Newest, Generated
<1>10. Execute(planFrom[r], {b, c}) = b.to
  BY <1>1, <1>6, <1>8, ExecutePair DEF Base
<1> HIDE DEF Shared, b, c
<1>11. HasFirst'
  BY <1>2 DEF PlanInv, HasFirst, Generated
<1>12. ReplayIsLineage'
  <2> SUFFICES ASSUME Whole(Files(r) \cup {c})
               PROVE  Execute({}, Files(r) \cup {c}) = b.to
    BY <1>2, <1>4, <1>9 DEF ReplayIsLineage
  <2>1. Whole(Files(r) \ {b})
    BY <1>1, <1>6, <1>7, WholeWithoutPair
  <2>2. Execute({}, Files(r) \ {b}) = planFrom[r]
    BY <1>7, <2>1
  <2>3. \A f \in Files(r) \ {b} : f.version < version[r]
    BY <1>7 DEF Whole
  <2>4. Execute(Execute({}, Files(r) \ {b}), {b, c}) = Execute({}, (Files(r) \ {b}) \cup {b, c})
    <3>1. Files(r) \ {b} \in SUBSET File /\ {b, c} \in SUBSET File
      BY <1>2, <1>6, <1>7
    <3>2. \A f \in Files(r) \ {b}, g \in {b, c} : f.version < g.version
      BY <1>1, <2>3
    <3> QED
      BY <3>1, <3>2, ExecuteCompose
  <2>5. (Files(r) \ {b}) \cup {b, c} = Files(r) \cup {c}
    BY <1>7
  <2> QED
    BY <1>10, <2>2, <2>4, <2>5
<1>13. PlanIsReplay' /\ HalfWritten'
  BY <1>2, <1>3 DEF PlanIsReplay, HalfWritten, Lanes
<1>14. WritesOnce'
  BY <1>2, <1>3, <1>5, <1>9 DEF WritesOnce, Lanes
<1>15. CompanionKept'
  <2> SUFFICES ASSUME crashes = 0, NEW s \in Site, NEW f \in disk[s] \cup {c}, Split(f)
               PROVE  HasCompanion(f, disk[s] \cup {c})
    BY <1>2 DEF CompanionKept
  <2>1. CASE f = b
    BY <1>1, <2>1 DEF HasCompanion
  <2>2. CASE f # b
    <3>1. f \in disk[s]
      BY <1>1 DEF Split
    <3>2. HasCompanion(f, disk[s])
      BY <1>3, <2>2, <3>1 DEF PlanInv, CompanionKept, b
    <3> QED
      BY <3>2 DEF HasCompanion
  <2> QED
    BY <2>1, <2>2
<1> QED
  BY <1>11, <1>12, <1>13, <1>14, <1>15 DEF PlanInv


LEMMA PlanStep ==
  ASSUME OneWorktree, Shared, ChainInv, PlanInv, [Next]_vars
  PROVE  PlanInv'
<1> USE DEF Shared
<1>1. ASSUME NEW r \in Run, NEW c \in Commands, Call(r, c) PROVE PlanInv'
  <2>1. UNCHANGED <<disk, version, planFrom, planTo, crashes>> /\ generated'[r] = {}
    BY <1>1 DEF Call, bounds, TypeInv, RunTypes
  <2>2. /\ \A q \in Run : ~Active(q)
        /\ \A q \in Run : Active(q)' => q = r
        /\ phase'[r] \in {"refused", "sources", "closure"}
    BY <1>1, CallAlone DEF LoadHistory, Enter, TypeInv, RunTypes, OneWorktree
  <2>3. \A q \in Run : phase'[q] \in Lanes => q = r
    BY <2>2 DEF Active, Ended, Lanes
  <2>4. \A q \in Run : phase[q] # "companion"
    BY <2>2 DEF Active, Ended
  <2> QED
    BY <2>1, <2>2, <2>3, <2>4, PlanKept DEF Lanes
<1>2. ASSUME NEW r \in Run,
             \/ ResolveSources(r) \/ ReloadHistory(r) \/ StageClosure(r) \/ Verify(r)
             \/ ApplyUnit(r) \/ RunnerEnds(r) \/ Reconcile(r)
      PROVE  PlanInv'
  <2>1. UNCHANGED <<disk, version, planFrom, planTo, generated, crashes>>
    BY <1>2 DEF ResolveSources, ReloadHistory, StageClosure, Verify, ApplyUnit, RunnerEnds,
                Reconcile, plan, bounds
  <2>2. Lane(r)
    BY <1>2 DEF Lane
  <2>3. /\ phase[r] # "companion" /\ phase'[r] \notin {"sources", "version", "base", "companion"}
        /\ phase'[r] = "diff" => phase[r] = "sources"
    BY <1>2 DEF ResolveSources, ReloadHistory, LoadHistory, StageClosure, Verify, ApplyUnit,
                RunnerEnds, Reconcile, Enter, TypeInv, RunTypes
  <2>4. \A q \in Run : q # r => phase'[q] = phase[q]
    BY <2>2, LaneAlone
  <2>5. \A q \in Run : phase'[q] \in Lanes => q = r
    BY <2>2, LaneAlone DEF Active, Ended, Lanes
  <2>6. \A q \in Run : Active(q)' => Active(q) /\ generated'[q] = generated[q]
    BY <2>1, <2>2, LaneAlone
  <2>7. \A q \in Run : phase'[q] \in {"sources", "diff"} => generated'[q] = {}
    BY <2>1, <2>3, <2>5 DEF PlanInv, WritesOnce, Lanes
  <2>8. \A q \in Run : phase'[q] \in {"version", "base", "companion"} => phase'[q] = phase[q]
    BY <2>3, <2>4
  <2>9. \A q \in Run : phase[q] = "companion" => phase'[q] = "companion"
    BY <2>3, <2>4
  <2> QED
    BY <2>1, <2>6, <2>7, <2>8, <2>9, PlanKept
<1>3. ASSUME NEW r \in Run, Die(r) PROVE PlanInv'
  <2>1. /\ UNCHANGED <<disk, version, planFrom, planTo, generated>>
        /\ phase' = [phase EXCEPT ![r] = "failed"]
        /\ crashes' = crashes + 1 /\ crashes \in Nat
    BY <1>3 DEF Die, plan, Enter, TypeInv
  <2>2. \A q \in Run : phase'[q] = phase[q] \/ phase'[q] = "failed"
    BY <2>1 DEF TypeInv, RunTypes
  <2>3. \A q \in Run : phase'[q] \in {"sources", "diff"} => generated'[q] = {}
    BY <2>1, <2>2 DEF PlanInv, WritesOnce
  <2>4. crashes' # 0
    BY <2>1
  <2> QED
    BY <2>1, <2>2, <2>3, <2>4, PlanKept DEF Active, Ended
<1>4. ASSUME UNCHANGED <<disk, version, planFrom, planTo, generated, crashes, phase>>
      PROVE  PlanInv'
  BY <1>4, PlanKept DEF PlanInv, WritesOnce, Active
<1>5. ASSUME NEW s \in Site, Developer(s) PROVE PlanInv'
  <2>1. CASE Edit(s) \/ Commit(s) \/ Push(s)
    BY <1>4, <2>1 DEF Edit, Commit, Push, plan, bounds
  <2>2. ~Pull(s)
    BY DEF Pull, NeverBehind
  <2> QED
    BY <1>5, <2>1, <2>2, PlanHand DEF Developer
<1>6. CASE Tick \/ UNCHANGED vars
  BY <1>4, <1>6 DEF Tick, vars, plan, bounds
<1> QED
  BY <1>1, <1>2, <1>3, <1>5, <1>6, PlanDiff, PlanChoose, PlanBase, PlanCompanion
     DEF Next, Start, Lane

\* The first migration is a base, made of nothing, without concurrent indexes.
LEMMA FirstReplays ==
  ASSUME First # {}
  PROVE  /\ FirstFiles = {F(1, "base", {}, First)}
         /\ ~Split(F(1, "base", {}, First))
         /\ Execute({}, FirstFiles) = First
<1>1. FirstFiles = {F(1, "base", {}, First)}
  BY DEF FirstFiles
<1>2. First \in SUBSET Object /\ Difference({}, First) \cap Concurrent = {}
  BY SyncAssumption DEF Difference
<1>3. Execute({}, {F(1, "base", {}, First)}) = First
  BY <1>2, ExecuteBase
<1> QED
  BY <1>1, <1>2, <1>3 DEF Split, F

LEMMA ReplayInit ==
  ASSUME First # {}, Init
  PROVE  PlanInv /\ CatalogIsReplay
<1> DEFINE f == F(1, "base", {}, First)
<1>1. /\ \A s \in Site : disk[s] = {f}
      /\ executed = {f} /\ catalog = First /\ history = VersionsOf({f})
      /\ \A r \in Run : phase[r] = "idle"
  BY FirstReplays DEF Init
<1>2. /\ f.part = "base" /\ f.to = First /\ ~Split(f)
      /\ Execute({}, {f}) = First
  BY FirstReplays DEF F
<1> HIDE DEF f
<1>3. HasFirst /\ CatalogIsReplay
  BY <1>1, <1>2 DEF HasFirst, Generated, CatalogIsReplay
<1>4. ReplayIsLineage /\ CompanionKept
  BY <1>1, <1>2 DEF ReplayIsLineage, Newest, Generated, CompanionKept
<1>5. PlanIsReplay /\ HalfWritten /\ WritesOnce
  BY <1>1 DEF PlanIsReplay, HalfWritten, WritesOnce, Active, Ended
<1> QED
  BY <1>3, <1>4, <1>5 DEF PlanInv

\* When nothing is pending, the target is what the directory makes of nothing.
LEMMA NothingPending ==
  ASSUME Shared, CatalogIsReplay, NEW r \in Run, Pending(Files(r), history) = {}
  PROVE  catalog = Execute({}, Files(r))
<1> USE DEF Shared
<1>1. Home[r] \in Site
  BY FilesType
<1>2. \A f \in Files(r) : f.version \in history
  BY DEF Pending
<1>3. Files(r) = executed
  BY <1>1, <1>2 DEF RecordInv, VersionMeansExecuted, CatalogIsReplay, Files
<1> QED
  BY <1>3 DEF CatalogIsReplay

\* In one worktree with one run at a time, in a project that has a first
\* migration, a sync that reports success for a migration it wrote leaves the
\* target with the tree it verified against.
THEOREM SyncCorrect ==
  ASSUME OneWorktree, First # {}
  PROVE  Spec => SyncConverges
<1> DEFINE Converges ==
             \A r \in Run :
               /\ phase[r] = "reconcile" /\ phase'[r] = "applied"
               /\ command[r] = "sync" /\ ~disturbed[r]
               /\ \A f \in Files(r) : f.part # "hand"
               /\ crashes = 0 \/ Whole(Files(r))
               /\ generated[r] # {} /\ planTo[r] = goal[r]
               => catalog = goal[r]
<1>1. Init => ChainInv /\ PlanInv /\ CatalogIsReplay
  BY ChainInit, ReplayInit
<1>2. Shared /\ ChainInv /\ PlanInv /\ CatalogIsReplay /\ [Next]_vars
        => ChainInv' /\ PlanInv' /\ CatalogIsReplay'
  BY ChainStep, PlanStep, CatalogStep
<1>3. Shared /\ ChainInv /\ PlanInv /\ CatalogIsReplay /\ [Next]_vars => [Converges]_vars
  <2> SUFFICES ASSUME Shared, PlanInv, CatalogIsReplay, [Next]_vars,
                      NEW r \in Run,
                      phase[r] = "reconcile", phase'[r] = "applied",
                      \A f \in Files(r) : f.part # "hand",
                      crashes = 0 \/ Whole(Files(r)),
                      generated[r] # {}, planTo[r] = goal[r]
               PROVE  catalog = goal[r]
    OBVIOUS
  <2>1. Reconcile(r)
    <3>1. ~Start(r) /\ ~Die(r) /\ (Lane(r) => Reconcile(r))
      BY DEF Start, Call, Active, Ended, Die, Enter, Shared, TypeInv, RunTypes, Lane,
             ResolveSources, Diff, ChooseVersion, WriteBase, WriteCompanion, ReloadHistory,
             StageClosure, Verify, ApplyUnit, RunnerEnds
    <3>2. ASSUME NEW q \in Run, q # r, Start(q) \/ Lane(q) \/ Die(q) PROVE FALSE
      BY <3>2, LaneAlone DEF Start, Call, LoadHistory, Die, Enter, Shared, TypeInv, RunTypes,
         Active, Ended
    <3>3. phase' # phase
      BY DEF Shared, TypeInv, RunTypes
    <3>4. ~Tick /\ ~UNCHANGED vars /\ \A s \in Site : ~Developer(s)
      BY <3>3 DEF Tick, vars, Developer, Edit, HandWrite, Commit, Pull, Push
    <3> QED
      BY <3>1, <3>2, <3>4 DEF Next
  <2>2. Pending(Files(r), history) = {}
    BY <2>1 DEF Reconcile, Enter, Shared, TypeInv, RunTypes
  <2>3. catalog = Execute({}, Files(r))
    BY <2>2, NothingPending
  <2>4. Whole(Files(r))
    <3> SUFFICES ASSUME crashes = 0 PROVE Whole(Files(r))
      OBVIOUS
    <3>1. \A q \in Run : phase[q] # "companion"
      BY DEF Shared, OneRun, Active, Ended
    <3>2. Home[r] \in Site
      BY FilesType DEF Shared
    <3> QED
      BY <3>1, <3>2 DEF PlanInv, CompanionKept, Whole, Split, HasCompanion, Files
  <2>5. Newest(Base(r), Files(r))
    BY DEF PlanInv, WritesOnce, Active, Ended
  <2>6. Execute({}, Files(r)) = planTo[r]
    <3>1. Base(r) \in Files(r) /\ Base(r).to = planTo[r] /\ Home[r] \in Site
      BY <2>5, FilesType DEF Newest, Generated, Base, F, Shared
    <3> QED
      BY <2>4, <2>5, <3>1 DEF PlanInv, ReplayIsLineage, Files
  <2> QED
    BY <2>3, <2>6
<1>4. SyncConverges <=> [][Converges]_vars
  BY DEF SyncConverges
<1> HIDE DEF Converges
<1> QED
  BY <1>1, <1>2, <1>3, <1>4, SharedHolds, PTL DEF Spec
================================================================================
