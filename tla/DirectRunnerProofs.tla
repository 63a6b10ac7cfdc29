------------------------- MODULE DirectRunnerProofs -------------------------
(***************************************************************************)
(* For every set of files, runners and objects, every transaction mode and *)
(* every number of failures: DirectRunner is type correct, what the        *)
(* recorder of a version knew of it is executed, versions are recorded in  *)
(* order, the direct runner implements MigrationLedger and, if the files   *)
(* create only what is not there and no version was recorded without its   *)
(* companion, the catalog ends as the files describe it.                   *)
(***************************************************************************)
EXTENDS DirectRunner, IterationProofs, FiniteSetTheorems, TLAPS

LEMMA EffectType ==
  ASSUME NEW f \in File, NEW i \in 1 .. Len(Sql[f]), NEW before \in Value
  PROVE  Effect(Sql[f][i], before) \in Value
<1>1. <<f, i>> \in LinesOfAll(File)
  BY DEF LinesOfAll, LinesOf
<1>2. Sql[f][i].val \in Value
  BY <1>1 DEF Value
<1>3. Absent \in Value
  BY DEF Value
<1> QED
  BY <1>2, <1>3 DEF Effect

LEMMA SeenType ==
  ASSUME TypeOK, NEW r \in Runner, NEW o \in Object
  PROVE  Seen(r, o) \in Value
BY DEF TypeOK, Seen, View

LEMMA LeaveUnitType ==
  ASSUME TypeOK, NEW r \in Runner, LeaveUnit(r)
  PROVE  /\ unit' \in [Runner -> {NoVersion} \cup Versions]
         /\ file' \in [Runner -> {NoFile} \cup File]
         /\ line' \in [Runner -> Nat]
         /\ sent' \in [Runner -> SUBSET LinesOfAll(File)]
         /\ view' \in [Runner -> View]
<1>1. EmptyView \in View
  BY DEF EmptyView, View
<1> QED
  BY <1>1 DEF TypeOK, LeaveUnit

LEMMA CommittedType ==
  ASSUME TypeOK, NEW r \in Runner, Committed(r), phase[r] = "record",
         unit[r] \in Versions
  PROVE  /\ history' \in SUBSET Versions
         /\ schema' \in [Object -> Value]
         /\ executed' \in SUBSET LinesOfAll(File)
         /\ missed' \in SUBSET File
BY SeenType DEF TypeOK, Committed, Recorded, UnitFiles

LEMMA InitType == Init => TypeOK
<1> SUFFICES ASSUME Init PROVE TypeOK
  OBVIOUS
<1>1. EmptyView \in View
  BY DEF EmptyView, View
<1>2. Absent \in Value
  BY DEF Value
<1>3. schema \in [Object -> Value]
  BY <1>2 DEF Init
<1>4. phase \in [Runner -> Phases]
  BY DEF Init, Phases, IdlePhases
<1>5. view \in [Runner -> View]
  BY <1>1 DEF Init
<1>6. failures \in 0 .. MaxFailures
  BY RunnerAssumption DEF Init
<1> QED
  BY <1>3, <1>4, <1>5, <1>6 DEF Init, TypeOK

-----------------------------------------------------------------------------
(* Types. *)

LEMMA CurrentFile ==
  ASSUME IInv, NEW r \in Runner, phase[r] \in UnitPhases
  PROVE  /\ unit[r] \in Versions
         /\ file[r] \in File
         /\ file[r] \in todo[r]
         /\ file[r].version = unit[r]
         /\ Len(Sql[file[r]]) \in Nat
         /\ line[r] \in 0 .. Len(Sql[file[r]])
BY SqlAssumption DEF IInv, TypeOK, UnitOK, UnitFiles, OldestVersion, VersionsOf, Versions

\* The statement ExecuteStatement sends is one of the files' statements.
LEMMA CurrentStatement ==
  ASSUME IInv, NEW r \in Runner, ExecuteStatement(r)
  PROVE  /\ file[r] \in File
         /\ line[r] + 1 \in 1 .. Len(Sql[file[r]])
         /\ NextStatement(r).obj \in Object
         /\ Effect(NextStatement(r), Seen(r, NextStatement(r).obj)) \in Value
         /\ <<file[r], line[r] + 1>> \in LinesOf(file[r])
         /\ <<file[r], line[r] + 1>> \in LinesOfAll(File)
<1>1. phase[r] \in UnitPhases /\ line[r] < Len(Sql[file[r]])
  BY DEF ExecuteStatement, UnitPhases
<1>2. file[r] \in File /\ line[r] + 1 \in 1 .. Len(Sql[file[r]])
  BY <1>1, CurrentFile
<1>3. NextStatement(r).obj \in Object
  BY <1>2, StatementAssumption DEF NextStatement
<1>4. Seen(r, NextStatement(r).obj) \in Value
  BY <1>3, SeenType DEF IInv
<1>5. Effect(NextStatement(r), Seen(r, NextStatement(r).obj)) \in Value
  BY <1>2, <1>4, EffectType DEF NextStatement
<1> QED
  BY <1>2, <1>3, <1>5 DEF LinesOf, LinesOfAll

LEMMA ExecuteType ==
  ASSUME IInv, NEW r \in Runner, ExecuteStatement(r)
  PROVE  TypeOK'
<1> DEFINE obj   == NextStatement(r).obj
           after == Effect(NextStatement(r), Seen(r, obj))
           place == <<file[r], line[r] + 1>>
<1>1. obj \in Object /\ after \in Value /\ place \in LinesOfAll(File)
  BY CurrentStatement
<1>2. schema' \in [Object -> Value] /\ executed' \in SUBSET LinesOfAll(File)
  <2>1. CASE InTransaction(r)
    BY <2>1 DEF ExecuteStatement, IInv, TypeOK
  <2>2. CASE ~InTransaction(r)
    <3>1. schema' = [schema EXCEPT ![obj] = after] /\ executed' = executed \cup {place}
      BY <2>2 DEF ExecuteStatement
    <3> QED
      BY <1>1, <3>1 DEF IInv, TypeOK
  <2> QED
    BY <2>1, <2>2
<1>3. view' \in [Runner -> View]
  <2>1. CASE InTransaction(r)
    <3> DEFINE new == [o \in DOMAIN view[r] \cup {obj} |-> IF o = obj THEN after ELSE view[r][o]]
    <3>1. view' = [view EXCEPT ![r] = new]
      BY <2>1 DEF ExecuteStatement
    <3>2. PICK D \in SUBSET Object : view[r] \in [D -> Value]
      BY DEF IInv, TypeOK, View
    <3>3. D \cup {obj} \in SUBSET Object /\ new \in [D \cup {obj} -> Value]
      BY <1>1, <3>2
    <3>4. new \in View
      BY <3>3 DEF View
    <3> QED
      BY <3>1, <3>4 DEF IInv, TypeOK
  <2>2. CASE ~InTransaction(r)
    BY <2>2 DEF ExecuteStatement, IInv, TypeOK
  <2> QED
    BY <2>1, <2>2
<1>4. sent' = [sent EXCEPT ![r] = @ \cup {place}] /\ line' = [line EXCEPT ![r] = @ + 1]
  BY DEF ExecuteStatement
<1>5. sent' \in [Runner -> SUBSET LinesOfAll(File)] /\ line' \in [Runner -> Nat]
  BY <1>1, <1>4 DEF IInv, TypeOK
<1> QED
  BY <1>2, <1>3, <1>5 DEF ExecuteStatement, IInv, TypeOK, observed

LEMMA AbandonType ==
  ASSUME TypeOK, NEW r \in Runner, Abandon(r)
  PROVE  /\ phase' \in [Runner -> Phases]
         /\ todo' \in [Runner -> SUBSET File]
         /\ spoiled' \in BOOLEAN
         /\ unit' \in [Runner -> {NoVersion} \cup Versions]
         /\ file' \in [Runner -> {NoFile} \cup File]
         /\ line' \in [Runner -> Nat]
         /\ sent' \in [Runner -> SUBSET LinesOfAll(File)]
         /\ view' \in [Runner -> View]
BY LeaveUnitType DEF Abandon, TypeOK, Phases, IdlePhases

LEMMA UnitAppliedType ==
  ASSUME TypeOK, NEW r \in Runner, UnitApplied(r)
  PROVE  /\ phase' \in [Runner -> Phases]
         /\ todo' \in [Runner -> SUBSET File]
         /\ unit' \in [Runner -> {NoVersion} \cup Versions]
         /\ file' \in [Runner -> {NoFile} \cup File]
         /\ line' \in [Runner -> Nat]
         /\ sent' \in [Runner -> SUBSET LinesOfAll(File)]
         /\ view' \in [Runner -> View]
BY LeaveUnitType DEF UnitApplied, TypeOK, Phases

LEMMA NextType == IInv /\ [Next]_vars => TypeOK'
<1> SUFFICES ASSUME IInv, [Next]_vars PROVE TypeOK'
  OBVIOUS
<1>0. TypeOK
  BY DEF IInv
<1>1. CASE WriteMigration
  BY <1>0, <1>1 DEF WriteMigration, target, unitVars, observed, TypeOK
<1>1a. CASE WriteCompanion
  BY <1>0, <1>1a DEF WriteCompanion, unitVars, observed, TypeOK
<1>2. ASSUME NEW r \in Runner, ReadStatus(r) PROVE TypeOK'
  <2>1. phase' \in [Runner -> Phases]
    BY <1>0, <1>2 DEF ReadStatus, Phases, IdlePhases, TypeOK
  <2>2. todo' \in [Runner -> SUBSET File] /\ seen' \in [Runner -> SUBSET File]
    BY <1>0, <1>2 DEF ReadStatus, Pending, TypeOK
  <2>3. overlapped' \in [Runner -> BOOLEAN]
    BY <1>0, <1>2, Zenon DEF ReadStatus, TypeOK
  <2> QED
    BY <1>0, <1>2, <2>1, <2>2, <2>3 DEF ReadStatus, target, unitVars, TypeOK
<1>3. ASSUME NEW r \in Runner, Connect(r) PROVE TypeOK'
  BY <1>0, <1>3 DEF Connect, Phases, target, unitVars, observed, TypeOK
<1>4. ASSUME NEW r \in Runner, BeginUnit(r) PROVE TypeOK'
  BY <1>0, <1>4 DEF BeginUnit, Phases, UnitPhases, VersionsOf, Versions, target, observed, TypeOK
<1>5. ASSUME NEW r \in Runner, ExecuteStatement(r) PROVE TypeOK'
  BY <1>5, ExecuteType
<1>6. ASSUME NEW r \in Runner, NextUnitFile(r) PROVE TypeOK'
  <2> DEFINE later == {g \in UnitFiles(todo[r], unit[r]) : FileBefore(file[r], g)}
  <2>1. CASE later = {}
    BY <1>0, <1>6, <2>1
    DEF NextUnitFile, Phases, UnitPhases, target, observed, TypeOK
  <2>2. CASE later # {}
    <3>1. PICK g \in later : file' = [file EXCEPT ![r] = g]
      BY <1>6, <2>2 DEF NextUnitFile
    <3>2. g \in File
      BY <1>0 DEF UnitFiles, TypeOK
    <3>3. line' = [line EXCEPT ![r] = 0]
      BY <1>6, <2>2 DEF NextUnitFile
    <3>4. UNCHANGED <<disk, target, phase, todo, unit, sent, view, failures, observed, spoiled>>
      BY <1>6, <2>2 DEF NextUnitFile
    <3> QED
      BY <1>0, <3>1, <3>2, <3>3, <3>4 DEF target, observed, TypeOK
  <2> QED
    BY <2>1, <2>2
<1>7. ASSUME NEW r \in Runner, CommitUnit(r) PROVE TypeOK'
  <2>1. phase[r] = "record" /\ unit[r] \in Versions
    BY <1>7, CurrentFile DEF CommitUnit, UnitPhases
  <2> QED
    BY <1>0, <1>7, <2>1, CommittedType, UnitAppliedType DEF CommitUnit, observed, TypeOK
<1>8. ASSUME NEW r \in Runner, RecordUnit(r) PROVE TypeOK'
  <2>1. unit[r] \in Versions
    BY <1>8, CurrentFile DEF RecordUnit, UnitPhases
  <2> QED
    BY <1>0, <1>8, <2>1, UnitAppliedType DEF RecordUnit, Recorded, UnitFiles, observed, TypeOK
<1>9. ASSUME NEW r \in Runner, Finish(r) PROVE TypeOK'
  <2>1. spoiled' \in BOOLEAN
    BY <1>0, <1>9, Zenon DEF Finish, StopsShort, TypeOK
  <2> QED
    BY <1>0, <1>9, <2>1 DEF Finish, Phases, IdlePhases, target, unitVars, observed, TypeOK
<1>10. ASSUME NEW r \in Runner, Fail(r) PROVE TypeOK'
  BY <1>0, <1>10, AbandonType, RunnerAssumption DEF Fail, target, observed, TypeOK
<1>11. ASSUME NEW r \in Runner, LoseCommitAnswer(r) PROVE TypeOK'
  <2>1. phase[r] = "record" /\ unit[r] \in Versions
    BY <1>11, CurrentFile DEF LoseCommitAnswer, UnitPhases
  <2> QED
    BY <1>0, <1>11, <2>1, CommittedType, AbandonType, RunnerAssumption
    DEF LoseCommitAnswer, observed, TypeOK
<1>12. ASSUME NEW r \in Runner, DeadlockVictim(r) PROVE TypeOK'
  BY <1>0, <1>12, AbandonType DEF DeadlockVictim, target, observed, TypeOK
<1>13. CASE UNCHANGED vars
  BY <1>0, <1>13 DEF vars, target, unitVars, observed, TypeOK
<1> QED
  BY <1>1, <1>1a, <1>2, <1>3, <1>4, <1>5, <1>6, <1>7, <1>8, <1>9, <1>10, <1>11, <1>12, <1>13
  DEF Next, Step

-----------------------------------------------------------------------------
(* Runs. *)

RunOK(r) == TodoOK(r) /\ UnitOK(r) /\ SentOK(r)

RunState(r) == <<phase[r], todo[r], unit[r], file[r], line[r], sent[r], seen[r]>>

\* A run that takes no step keeps its invariant while the target moves forward.
LEMMA BystanderOK ==
  ASSUME NEW q \in Runner, RunOK(q), disk' = disk, history \subseteq history',
         executed \subseteq executed', UNCHANGED RunState(q)
  PROVE  RunOK(q)'
BY DEF RunOK, RunState, TodoOK, UnitOK, SentOK, InTransaction

\* A run applies what it has seen of its unit, and everything older is in the
\* history.
LEMMA UnitWhole ==
  ASSUME IInv, NEW r \in Runner, phase[r] \in UnitPhases
  PROVE  /\ UnitFiles(todo[r], unit[r]) = UnitFiles(seen[r], unit[r])
         /\ UnitFiles(todo[r], unit[r]) \subseteq UnitFiles(disk, unit[r])
         /\ \A f \in disk : f.version < unit[r] => f.version \in history
         /\ unit[r] \in VersionsOf(disk)
<1>1. /\ unit[r] \in VersionsOf(todo[r])
      /\ \A w \in VersionsOf(todo[r]) : unit[r] <= w
  BY DEF IInv, UnitOK, OldestVersion
<1>2. PICK f \in todo[r] : f.version = unit[r]
  BY <1>1 DEF VersionsOf
<1>3. TodoOK(r)
  BY DEF IInv
<1>4. UnitFiles(todo[r], unit[r]) = UnitFiles(seen[r], unit[r])
  BY <1>2, <1>3 DEF TodoOK, UnitFiles
<1>5. UnitFiles(todo[r], unit[r]) \subseteq UnitFiles(disk, unit[r])
  BY <1>3 DEF TodoOK, UnitFiles
<1>6. ASSUME NEW g \in disk, g.version < unit[r] PROVE g.version \in history
  <2>1. g.version \in Nat /\ unit[r] \in Nat
    BY <1>2, <1>3, FileAssumption DEF TodoOK, IInv, TypeOK
  <2>2. g.version \notin VersionsOf(todo[r])
    BY <1>1, <1>6, <2>1
  <2> QED
    BY <1>2, <1>3, <1>6, <2>2 DEF TodoOK
<1>7. unit[r] \in VersionsOf(disk)
  BY <1>2, <1>3 DEF TodoOK, VersionsOf
<1> QED
  BY <1>4, <1>5, <1>6, <1>7

LEMMA FileOrderTotal ==
  ASSUME NEW f \in File, NEW g \in File, f.version = g.version
  PROVE  /\ f = g \/ FileBefore(f, g) \/ FileBefore(g, f)
         /\ ~(FileBefore(f, g) /\ FileBefore(g, f))
         /\ ~FileBefore(f, f)
<1>1. f.name \in Nat /\ g.name \in Nat /\ f.concurrent \in BOOLEAN /\ g.concurrent \in BOOLEAN
  BY FileAssumption
<1>2. (f.concurrent = g.concurrent /\ f.name = g.name) => f = g
  BY FileAssumption
<1> QED
  BY <1>1, <1>2 DEF FileBefore

LEMMA ReadStatusOK ==
  ASSUME IInv, NEW r \in Runner, ReadStatus(r)
  PROVE  RunOK(r)'
<1>1. /\ todo'[r] = Pending(disk, history) /\ seen'[r] = disk
      /\ phase'[r] \notin UnitPhases
  BY DEF ReadStatus, IInv, TypeOK, UnitPhases
<1>2. UNCHANGED <<disk, history, sent>> /\ sent[r] = {}
  <2>1. phase[r] \notin UnitPhases
    BY DEF ReadStatus, Active, IdlePhases, UnitPhases
  <2> QED
    BY <2>1 DEF ReadStatus, target, unitVars, IInv, SentOK
<1>3. TodoOK(r)'
  BY <1>1, <1>2 DEF TodoOK, Pending, VersionsOf
<1>4. UnitOK(r)' /\ SentOK(r)'
  BY <1>1, <1>2 DEF UnitOK, SentOK, UnitPhases
<1> QED
  BY <1>3, <1>4 DEF RunOK

LEMMA BeginUnitOK ==
  ASSUME IInv, NEW r \in Runner, BeginUnit(r)
  PROVE  RunOK(r)'
<1>1. PICK v \in VersionsOf(todo[r]), f \in todo[r] :
        /\ OldestVersion(v, todo[r])
        /\ FirstOf(f, UnitFiles(todo[r], v))
        /\ unit' = [unit EXCEPT ![r] = v]
        /\ file' = [file EXCEPT ![r] = f]
  BY DEF BeginUnit
<1>2. /\ unit'[r] = v /\ file'[r] = f /\ line'[r] = 0 /\ phase'[r] = "sql"
      /\ UNCHANGED <<disk, history, executed, todo, sent, seen>>
  BY <1>1 DEF BeginUnit, IInv, TypeOK, target, observed
<1>3. sent[r] = {}
  BY DEF BeginUnit, IInv, SentOK, UnitPhases
<1>4. TodoOK(r)'
  BY <1>2 DEF TodoOK, IInv
<1>5. UnitOK(r)'
  <2>1. Len(Sql[f]) \in Nat
    BY SqlAssumption, <1>1 DEF IInv, TypeOK
  <2> QED
    BY <1>1, <1>2, <2>1 DEF UnitOK, FirstOf
<1>6. ASSUME NEW g \in UnitFiles(todo[r], v) PROVE ~FileBefore(g, f)
  <2>1. g \in File /\ f \in File /\ g.version = v /\ f.version = v
    BY <1>1 DEF UnitFiles, FirstOf, IInv, TypeOK
  <2> QED
    BY <1>1, <2>1, FileOrderTotal DEF FirstOf
<1>7. SentOK(r)'
  BY <1>2, <1>3, <1>6 DEF SentOK, UnitPhases
<1> QED
  BY <1>4, <1>5, <1>7 DEF RunOK

LEMMA ExecuteOK ==
  ASSUME IInv, NEW r \in Runner, ExecuteStatement(r)
  PROVE  RunOK(r)' /\ executed \subseteq executed'
<1> DEFINE place == <<file[r], line[r] + 1>>
<1>1. /\ phase[r] = "sql"
      /\ UNCHANGED <<disk, history, phase, todo, unit, file, seen>>
      /\ line'[r] = line[r] + 1
      /\ sent'[r] = sent[r] \cup {place}
  BY DEF ExecuteStatement, IInv, TypeOK, observed
<1>2. /\ executed \subseteq executed'
      /\ ~InTransaction(r) => executed' = executed \cup {place}
  BY DEF ExecuteStatement
<1>3. InTransaction(r)' <=> InTransaction(r)
  BY <1>1 DEF InTransaction
<1>4. /\ file[r] \in UnitFiles(todo[r], unit[r])
      /\ place \in LinesOf(file[r])
      /\ line[r] \in Nat /\ Len(Sql[file[r]]) \in Nat
      /\ line[r] < Len(Sql[file[r]])
  <2>1. phase[r] \in UnitPhases /\ line[r] < Len(Sql[file[r]])
    BY <1>1 DEF ExecuteStatement, UnitPhases
  <2>2. place \in LinesOf(file[r])
    BY CurrentStatement
  <2>3. line[r] \in Nat /\ Len(Sql[file[r]]) \in Nat
    BY <2>1, CurrentFile
  <2>4. file[r] \in UnitFiles(todo[r], unit[r])
    BY <2>1 DEF IInv, UnitOK
  <2> QED
    BY <2>1, <2>2, <2>3, <2>4
<1>5. TodoOK(r)'
  BY <1>1 DEF TodoOK, IInv
<1>6. UnitOK(r)'
  BY <1>1, <1>4 DEF UnitOK, IInv
<1>7. SentOK(r)'
  <2>1. SentOK(r)
    BY DEF IInv
  <2>2. \A i \in 1 .. line'[r] : i \in 1 .. line[r] \/ i = line[r] + 1
    BY <1>1, <1>4
  <2>3. \A i \in 1 .. line'[r] : <<file'[r], i>> \in sent'[r]
    BY <1>1, <2>1, <2>2 DEF SentOK
  <2>4. place \in LinesOfAll(UnitFiles(todo[r], unit[r]))
    BY <1>4 DEF LinesOfAll
  <2>5. phase'[r] # "record" /\ phase'[r] \in UnitPhases
    BY <1>1 DEF UnitPhases
  <2>6. ~InTransaction(r)' => sent'[r] \subseteq executed'
    BY <1>1, <1>2, <1>3, <2>1 DEF SentOK, UnitPhases
  <2>7. sent'[r] \subseteq LinesOfAll(UnitFiles(todo'[r], unit'[r]))
    BY <1>1, <2>1, <2>4 DEF SentOK, UnitPhases
  <2>8. \A g \in UnitFiles(todo'[r], unit'[r]) : FileBefore(g, file'[r]) => LinesOf(g) \subseteq sent'[r]
    BY <1>1, <2>1 DEF SentOK
  <2> QED
    BY <2>3, <2>5, <2>6, <2>7, <2>8 DEF SentOK
<1> QED
  BY <1>2, <1>5, <1>6, <1>7 DEF RunOK
LEMMA NextUnitFileOK ==
  ASSUME IInv, NEW r \in Runner, NextUnitFile(r)
  PROVE  RunOK(r)'
<1> DEFINE U     == UnitFiles(todo[r], unit[r])
           later == {g \in U : FileBefore(file[r], g)}
<1>1. /\ phase[r] = "sql" /\ phase[r] \in UnitPhases
      /\ line[r] = Len(Sql[file[r]])
      /\ UNCHANGED <<disk, history, executed, todo, unit, sent, seen>>
  BY DEF NextUnitFile, target, UnitPhases, observed
<1>2. TodoOK(r)'
  BY <1>1 DEF TodoOK, IInv
<1>3. /\ OldestVersion(unit[r], todo[r])
      /\ file[r] \in U
      /\ SentOK(r)
  BY <1>1 DEF IInv, UnitOK
<1>4. U \subseteq File /\ \A g \in U : g.version = unit[r] /\ Len(Sql[g]) \in Nat
  BY SqlAssumption DEF UnitFiles, IInv, TypeOK
<1>5. LinesOf(file[r]) \subseteq sent[r]
  BY <1>1, <1>3 DEF SentOK, LinesOf
<1>6. \A g \in U : FileBefore(g, file[r]) => LinesOf(g) \subseteq sent[r]
  BY <1>1, <1>3 DEF SentOK
<1>7. \A g \in U : g = file[r] \/ FileBefore(g, file[r]) \/ g \in later
  BY <1>3, <1>4, FileOrderTotal
<1>8. CASE later = {}
  <2>1. phase'[r] = "record" /\ UNCHANGED <<file, line>>
    BY <1>8 DEF NextUnitFile, IInv, TypeOK
  <2>2. \A g \in U : LinesOf(g) \subseteq sent[r]
    BY <1>5, <1>6, <1>7, <1>8
  <2>3. LinesOfAll(U) \subseteq sent[r]
    BY <2>2 DEF LinesOfAll
  <2>4. UnitOK(r)'
    BY <1>1, <2>1 DEF UnitOK, IInv
  <2>5. SentOK(r)'
    BY <1>1, <1>3, <2>1, <2>3 DEF SentOK, UnitPhases, InTransaction
  <2> QED
    BY <1>2, <2>4, <2>5 DEF RunOK
<1>9. CASE later # {}
  <2>1. PICK g \in later : FirstOf(g, later) /\ file' = [file EXCEPT ![r] = g]
    BY <1>9 DEF NextUnitFile
  <2>2. file'[r] = g /\ line'[r] = 0 /\ UNCHANGED phase
    BY <1>9, <2>1 DEF NextUnitFile, IInv, TypeOK
  <2>3. UnitOK(r)'
    BY <1>1, <1>3, <1>4, <2>2 DEF UnitOK
  <2>4. ASSUME NEW h \in U, FileBefore(h, g) PROVE LinesOf(h) \subseteq sent[r]
    <3>1. h \notin later
      <4> SUFFICES ASSUME h \in later PROVE FALSE
        OBVIOUS
      <4>1. h = g \/ FileBefore(g, h)
        BY <2>1 DEF FirstOf
      <4> QED
        BY <1>4, <2>4, <4>1, FileOrderTotal
    <3> QED
      BY <1>5, <1>6, <1>7, <3>1
  <2>5. SentOK(r)'
    BY <1>1, <1>3, <2>2, <2>4 DEF SentOK, UnitPhases, InTransaction
  <2> QED
    BY <1>2, <2>3, <2>5 DEF RunOK
<1> QED
  BY <1>8, <1>9

LEMMA UnitAppliedOK ==
  ASSUME IInv, NEW r \in Runner, UnitApplied(r), phase[r] = "record",
         disk' = disk, seen' = seen, history' = history \cup {unit[r]}
  PROVE  RunOK(r)'
<1>1. /\ phase'[r] = "ready" /\ sent'[r] = {}
      /\ todo'[r] = {f \in todo[r] : f.version # unit[r]}
  BY DEF UnitApplied, LeaveUnit, IInv, TypeOK
<1>2. TodoOK(r)
  BY DEF IInv
<1>3. ASSUME NEW f \in todo'[r], NEW g \in disk, g.version < f.version
      PROVE  g.version \in VersionsOf(todo'[r]) \cup history'
  <2>1. g.version \in VersionsOf(todo[r]) \cup history
    BY <1>1, <1>2, <1>3 DEF TodoOK
  <2> QED
    BY <1>1, <2>1 DEF VersionsOf
<1>4. TodoOK(r)'
  BY <1>1, <1>2, <1>3 DEF TodoOK
<1> QED
  BY <1>1, <1>4 DEF RunOK, UnitOK, SentOK, UnitPhases

LEMMA AbandonOK ==
  ASSUME IInv, NEW r \in Runner, Abandon(r), UNCHANGED <<disk, seen>>
  PROVE  RunOK(r)'
<1>1. phase'[r] = "failed" /\ sent'[r] = {} /\ todo'[r] = {}
  BY DEF Abandon, LeaveUnit, IInv, TypeOK
<1>2. TodoOK(r)'
  BY <1>1 DEF IInv, TodoOK
<1> QED
  BY <1>1, <1>2 DEF RunOK, UnitOK, SentOK, UnitPhases

-----------------------------------------------------------------------------
(* The history and the statements that took effect. *)

LedgerOK == OnDisk /\ HistorySound /\ HistoryInOrder /\ PartialOnlyAtFrontier

\* Committing or recording a unit keeps the ledger in order: what of it has not
\* run is in files the run has not seen.
LEMMA RecordedUnitOK ==
  ASSUME IInv, NEW r \in Runner, phase[r] = "record", disk' = disk,
         Recorded(r), executed' = executed \cup sent[r]
  PROVE  LedgerOK'
<1> DEFINE v == unit[r]
<1>1. /\ UnitFiles(todo[r], v) = UnitFiles(seen[r], v)
      /\ UnitFiles(todo[r], v) \subseteq UnitFiles(disk, v)
      /\ \A f \in disk : f.version < v => f.version \in history
      /\ v \in VersionsOf(disk)
  BY UnitWhole DEF UnitPhases
<1>2. LinesOfAll(UnitFiles(todo[r], v)) = sent[r]
  BY DEF IInv, SentOK, UnitPhases
<1>3. history' = history \cup {v}
  BY DEF Recorded
<1>4. OnDisk'
  <2>1. history' \subseteq VersionsOf(disk)
    BY <1>1, <1>3 DEF IInv, OnDisk
  <2>2. executed' \subseteq LinesOfAll(disk)
    BY <1>1, <1>2 DEF IInv, OnDisk, LinesOfAll, UnitFiles
  <2>3. missed' \subseteq Applied(disk, history')
    BY <1>3 DEF IInv, OnDisk, Recorded, Applied, UnitFiles
  <2> QED
    BY <2>1, <2>2, <2>3 DEF OnDisk
<1>5. HistorySound'
  <2> SUFFICES ASSUME NEW f \in disk \ missed', f.version \in history'
               PROVE  LinesOf(f) \subseteq executed'
    BY DEF HistorySound
  <2>1. CASE f.version \in history
    BY <2>1 DEF IInv, HistorySound, Recorded
  <2>2. CASE f.version \notin history
    <3>1. f.version = v /\ f \in seen[r]
      BY <1>3, <2>2 DEF Recorded, UnitFiles
    <3>2. f \in UnitFiles(todo[r], v)
      BY <1>1, <3>1 DEF UnitFiles
    <3> QED
      BY <1>2, <3>2 DEF LinesOfAll
  <2> QED
    BY <2>1, <2>2
<1>6. HistoryInOrder'
  BY <1>1, <1>3 DEF IInv, HistoryInOrder
<1>7. \A p \in sent[r] : p[1].version = v
  BY <1>2 DEF LinesOfAll, LinesOf, UnitFiles
<1>8. PartialOnlyAtFrontier'
  BY <1>3, <1>7 DEF IInv, PartialOnlyAtFrontier
<1> QED
  BY <1>4, <1>5, <1>6, <1>8 DEF LedgerOK

\* A statement outside a transaction is one of the next unit to record, or one
\* of a unit that another run has recorded.
LEMMA ExecuteLedgerOK ==
  ASSUME IInv, NEW r \in Runner, ExecuteStatement(r)
  PROVE  LedgerOK'
<1> DEFINE place == <<file[r], line[r] + 1>>
<1>1. UNCHANGED <<disk, history, missed>> /\ phase[r] = "sql" /\ phase[r] \in UnitPhases
  BY DEF ExecuteStatement, UnitPhases
<1>2. CASE InTransaction(r)
  BY <1>1, <1>2 DEF ExecuteStatement, IInv, LedgerOK, OnDisk, HistorySound, HistoryInOrder,
                    PartialOnlyAtFrontier
<1>3. CASE ~InTransaction(r)
  <2>1. executed' = executed \cup {place}
    BY <1>3 DEF ExecuteStatement
  <2>2. /\ UnitFiles(todo[r], unit[r]) \subseteq UnitFiles(disk, unit[r])
        /\ \A f \in disk : f.version < unit[r] => f.version \in history
    BY <1>1, UnitWhole
  <2>3. file[r] \in todo[r] /\ file[r].version = unit[r] /\ place \in LinesOf(file[r])
    BY <1>1, CurrentFile, CurrentStatement
  <2>4. ~Transactional(UnitFiles(disk, unit[r]))
    BY <1>1, <1>3, <2>2 DEF InTransaction, Transactional
  <2>5. OnDisk'
    BY <1>1, <2>1, <2>3 DEF IInv, OnDisk, TodoOK, LinesOfAll
  <2>6. HistorySound' /\ HistoryInOrder'
    BY <1>1, <2>1 DEF IInv, HistorySound, HistoryInOrder
  <2>7. place[1].version = unit[r]
    BY <2>3
  <2>8. PartialOnlyAtFrontier'
    BY <1>1, <2>1, <2>2, <2>4, <2>7 DEF IInv, PartialOnlyAtFrontier
  <2> QED
    BY <2>5, <2>6, <2>8 DEF LedgerOK
<1> QED
  BY <1>2, <1>3

LEMMA LedgerKept ==
  ASSUME IInv, UNCHANGED <<disk, history, executed, missed>>
  PROVE  LedgerOK'
BY DEF IInv, LedgerOK, OnDisk, HistorySound, HistoryInOrder, PartialOnlyAtFrontier

\* A new file disturbs no run if it is newer than every file on disk or of a
\* version that is there.
LEMMA NewFileRunsOK ==
  ASSUME IInv, NEW f \in File, disk' = disk \cup {f},
         f.version \in VersionsOf(disk) \/ \A g \in disk : g.version < f.version,
         UNCHANGED <<history, executed, phase, todo, unit, file, line, sent, seen>>
  PROVE  \A r \in Runner : RunOK(r)'
<1> SUFFICES ASSUME NEW r \in Runner PROVE RunOK(r)'
  OBVIOUS
<1>1. TodoOK(r) /\ UnitOK(r) /\ SentOK(r)
  BY DEF IInv
<1>2. \A g \in File : g.version \in Nat
  BY FileAssumption
<1>3. ASSUME NEW t \in todo[r], NEW g \in disk', g.version < t.version
      PROVE  g.version \in VersionsOf(todo[r]) \cup history
  <2>1. t \in disk /\ t \in File
    BY <1>1 DEF TodoOK, IInv, TypeOK
  <2>2. CASE g \in disk
    BY <1>1, <1>3, <2>2 DEF TodoOK
  <2>3. CASE g = f
    <3>1. f.version \in VersionsOf(disk)
      BY <1>2, <1>3, <2>1, <2>3
    <3>2. PICK h \in disk : h.version = f.version
      BY <3>1 DEF VersionsOf
    <3> QED
      BY <1>1, <1>3, <2>3, <3>2 DEF TodoOK
  <2> QED
    BY <2>2, <2>3
<1>4. TodoOK(r)'
  BY <1>1, <1>3 DEF TodoOK
<1>5. UnitOK(r)' /\ SentOK(r)'
  BY <1>1 DEF UnitOK, SentOK, InTransaction
<1> QED
  BY <1>4, <1>5 DEF RunOK

\* The first file of a unit newer than every file on disk disturbs nothing.
LEMMA WriteMigrationOK ==
  ASSUME IInv, WriteMigration
  PROVE  LedgerOK' /\ \A r \in Runner : RunOK(r)'
<1>1. PICK v \in Versions \ VersionsOf(disk), f \in File :
        (\A g \in disk : g.version < v) /\ f.version = v /\ disk' = disk \cup {f}
  BY DEF WriteMigration, FirstOf, UnitFiles
<1>2. UNCHANGED <<history, executed, missed, phase, todo, unit, file, line, sent, seen>>
  BY DEF WriteMigration, target, unitVars, observed
<1>3. disk \subseteq File /\ \A g \in File : g.version \in Nat
  BY FileAssumption DEF IInv, TypeOK
<1>4. \A g \in disk : ~(v < g.version) /\ g.version # v
  BY <1>1, <1>3
<1>5. v \notin history
  BY <1>1 DEF IInv, OnDisk
<1>6. \A g \in disk' : g \in disk \/ g.version = v
  BY <1>1
<1>7. \A p \in executed : p[1] \in disk
  BY DEF IInv, OnDisk, LinesOfAll, LinesOf
<1>8. \A p \in executed : UnitFiles(disk', p[1].version) = UnitFiles(disk, p[1].version)
  BY <1>1, <1>4, <1>7 DEF UnitFiles
<1>9. OnDisk'
  BY <1>1, <1>2 DEF IInv, OnDisk, VersionsOf, LinesOfAll, Applied
<1>10. HistorySound'
  BY <1>2, <1>5, <1>6 DEF IInv, HistorySound
<1>11. HistoryInOrder'
  BY <1>2, <1>4, <1>5, <1>6 DEF IInv, HistoryInOrder
<1>12. PartialOnlyAtFrontier'
  BY <1>2, <1>4, <1>6, <1>7, <1>8 DEF IInv, PartialOnlyAtFrontier
<1>13. \A r \in Runner : RunOK(r)'
  BY <1>1, <1>2, NewFileRunsOK
<1> QED
  BY <1>9, <1>10, <1>11, <1>12, <1>13 DEF LedgerOK

\* So does a companion: if its version is recorded already, it is missed.
LEMMA WriteCompanionOK ==
  ASSUME IInv, WriteCompanion
  PROVE  LedgerOK' /\ \A r \in Runner : RunOK(r)'
<1>1. PICK f \in File \ disk :
        /\ f.version \in VersionsOf(disk)
        /\ disk' = disk \cup {f}
        /\ missed' = IF f.version \in history THEN missed \cup {f} ELSE missed
  BY DEF WriteCompanion
<1>2. UNCHANGED <<history, executed, phase, todo, unit, file, line, sent, seen>>
  BY DEF WriteCompanion, unitVars, observed
<1>3. PICK h \in disk : h.version = f.version
  BY <1>1 DEF VersionsOf
<1>4. OnDisk'
  BY <1>1, <1>2 DEF IInv, OnDisk, VersionsOf, LinesOfAll, Applied
<1>5. HistorySound'
  BY <1>1, <1>2 DEF IInv, HistorySound
<1>6. HistoryInOrder'
  BY <1>1, <1>2, <1>3 DEF IInv, HistoryInOrder
<1>7. \A v : Transactional(UnitFiles(disk', v)) => Transactional(UnitFiles(disk, v))
  BY <1>1 DEF Transactional, UnitFiles
<1>8. PartialOnlyAtFrontier'
  BY <1>1, <1>2, <1>3, <1>7 DEF IInv, PartialOnlyAtFrontier
<1>9. \A r \in Runner : RunOK(r)'
  BY <1>1, <1>2, NewFileRunsOK
<1> QED
  BY <1>4, <1>5, <1>6, <1>8, <1>9 DEF LedgerOK

-----------------------------------------------------------------------------
(* The inductive invariant. *)

LEMMA OthersOK ==
  ASSUME IInv, NEW r \in Runner, disk' = disk, history \subseteq history',
         executed \subseteq executed',
         \A q \in Runner \ {r} : UNCHANGED RunState(q),
         RunOK(r)'
  PROVE  \A q \in Runner : RunOK(q)'
BY BystanderOK DEF IInv, RunOK

LEMMA RunsAndLedger ==
  IInv /\ [Next]_vars => LedgerOK' /\ \A q \in Runner : RunOK(q)'
<1> SUFFICES ASSUME IInv, [Next]_vars
             PROVE  LedgerOK' /\ \A q \in Runner : RunOK(q)'
  OBVIOUS
<1>1. CASE WriteMigration
  BY <1>1, WriteMigrationOK
<1>1a. CASE WriteCompanion
  BY <1>1a, WriteCompanionOK
<1>2. ASSUME NEW r \in Runner, ReadStatus(r)
      PROVE  LedgerOK' /\ \A q \in Runner : RunOK(q)'
  <2>1. \A q \in Runner \ {r} : UNCHANGED RunState(q)
    BY <1>2 DEF ReadStatus, unitVars, RunState, IInv, TypeOK
  <2>2. UNCHANGED <<disk, history, executed, missed>>
    BY <1>2 DEF ReadStatus, target
  <2> QED
    BY <1>2, <2>1, <2>2, ReadStatusOK, OthersOK, LedgerKept
<1>3. ASSUME NEW r \in Runner, Connect(r)
      PROVE  LedgerOK' /\ \A q \in Runner : RunOK(q)'
  <2>1. \A q \in Runner \ {r} : UNCHANGED RunState(q)
    BY <1>3 DEF Connect, unitVars, observed, RunState, IInv, TypeOK
  <2>2. UNCHANGED <<disk, history, executed, missed, todo, sent, seen>>
    BY <1>3 DEF Connect, target, unitVars, observed
  <2>3. RunOK(r)'
    BY <1>3, <2>2 DEF Connect, IInv, TypeOK, RunOK, TodoOK, UnitOK, SentOK, UnitPhases
  <2> QED
    BY <2>1, <2>2, <2>3, OthersOK, LedgerKept
<1>4. ASSUME NEW r \in Runner, BeginUnit(r)
      PROVE  LedgerOK' /\ \A q \in Runner : RunOK(q)'
  <2>1. \A q \in Runner \ {r} : UNCHANGED RunState(q)
    BY <1>4 DEF BeginUnit, observed, RunState, IInv, TypeOK
  <2>2. UNCHANGED <<disk, history, executed, missed>>
    BY <1>4 DEF BeginUnit, target
  <2> QED
    BY <1>4, <2>1, <2>2, BeginUnitOK, OthersOK, LedgerKept
<1>5. ASSUME NEW r \in Runner, ExecuteStatement(r)
      PROVE  LedgerOK' /\ \A q \in Runner : RunOK(q)'
  <2>1. \A q \in Runner \ {r} : UNCHANGED RunState(q)
    BY <1>5 DEF ExecuteStatement, observed, RunState, IInv, TypeOK
  <2>2. UNCHANGED <<disk, history>>
    BY <1>5 DEF ExecuteStatement
  <2> QED
    BY <1>5, <2>1, <2>2, ExecuteOK, ExecuteLedgerOK, OthersOK
<1>6. ASSUME NEW r \in Runner, NextUnitFile(r)
      PROVE  LedgerOK' /\ \A q \in Runner : RunOK(q)'
  <2>1. \A q \in Runner \ {r} : UNCHANGED RunState(q)
    BY <1>6 DEF NextUnitFile, observed, RunState, IInv, TypeOK
  <2>2. UNCHANGED <<disk, history, executed, missed>>
    BY <1>6 DEF NextUnitFile, target
  <2> QED
    BY <1>6, <2>1, <2>2, NextUnitFileOK, OthersOK, LedgerKept
<1>7. ASSUME NEW r \in Runner, CommitUnit(r)
      PROVE  LedgerOK' /\ \A q \in Runner : RunOK(q)'
  <2>1. \A q \in Runner \ {r} : UNCHANGED RunState(q)
    BY <1>7 DEF CommitUnit, observed, UnitApplied, LeaveUnit, RunState, IInv, TypeOK
  <2>2. /\ phase[r] = "record" /\ UNCHANGED <<disk, seen>>
        /\ Recorded(r) /\ history' = history \cup {unit[r]}
        /\ executed' = executed \cup sent[r]
        /\ UnitApplied(r)
    BY <1>7 DEF CommitUnit, Committed, Recorded, observed
  <2> QED
    BY <2>1, <2>2, UnitAppliedOK, RecordedUnitOK, OthersOK
<1>8. ASSUME NEW r \in Runner, RecordUnit(r)
      PROVE  LedgerOK' /\ \A q \in Runner : RunOK(q)'
  <2>1. \A q \in Runner \ {r} : UNCHANGED RunState(q)
    BY <1>8 DEF RecordUnit, observed, UnitApplied, LeaveUnit, RunState, IInv, TypeOK
  <2>2. /\ phase[r] = "record" /\ UNCHANGED <<disk, seen>>
        /\ Recorded(r) /\ history' = history \cup {unit[r]}
        /\ executed' = executed
        /\ UnitApplied(r)
    BY <1>8 DEF RecordUnit, Recorded, observed
  <2>3. sent[r] \subseteq executed
    BY <1>8 DEF RecordUnit, IInv, SentOK, UnitPhases
  <2>4. executed' = executed \cup sent[r]
    BY <2>2, <2>3
  <2> QED
    BY <2>1, <2>2, <2>4, UnitAppliedOK, RecordedUnitOK, OthersOK
<1>9. ASSUME NEW r \in Runner, Finish(r)
      PROVE  LedgerOK' /\ \A q \in Runner : RunOK(q)'
  <2>1. \A q \in Runner \ {r} : UNCHANGED RunState(q)
    BY <1>9 DEF Finish, unitVars, observed, RunState, IInv, TypeOK
  <2>2. UNCHANGED <<disk, history, executed, missed, todo, sent, seen>>
    BY <1>9 DEF Finish, target, unitVars, observed
  <2>3. RunOK(r)'
    BY <1>9, <2>2 DEF Finish, IInv, TypeOK, RunOK, TodoOK, UnitOK, SentOK, UnitPhases
  <2> QED
    BY <2>1, <2>2, <2>3, OthersOK, LedgerKept
<1>10. ASSUME NEW r \in Runner, Fail(r) \/ DeadlockVictim(r)
       PROVE  LedgerOK' /\ \A q \in Runner : RunOK(q)'
  <2>1. Abandon(r) /\ UNCHANGED <<disk, history, executed, missed, seen>>
    BY <1>10 DEF Fail, DeadlockVictim, target, observed
  <2>2. \A q \in Runner \ {r} : UNCHANGED RunState(q)
    BY <2>1 DEF Abandon, LeaveUnit, RunState, IInv, TypeOK
  <2> QED
    BY <2>1, <2>2, AbandonOK, OthersOK, LedgerKept
<1>11. ASSUME NEW r \in Runner, LoseCommitAnswer(r)
       PROVE  LedgerOK' /\ \A q \in Runner : RunOK(q)'
  <2>1. /\ Abandon(r) /\ UNCHANGED <<disk, seen>> /\ phase[r] = "record"
        /\ Recorded(r) /\ history \subseteq history'
        /\ executed' = executed \cup sent[r]
    BY <1>11 DEF LoseCommitAnswer, Committed, Recorded, observed
  <2>2. \A q \in Runner \ {r} : UNCHANGED RunState(q)
    BY <2>1 DEF Abandon, LeaveUnit, RunState, IInv, TypeOK
  <2> QED
    BY <2>1, <2>2, AbandonOK, RecordedUnitOK, OthersOK
<1>12. CASE UNCHANGED vars
  <2>1. /\ UNCHANGED <<disk, history, executed, missed>>
        /\ \A q \in Runner : UNCHANGED RunState(q)
    BY <1>12 DEF vars, target, unitVars, observed, RunState
  <2> QED
    BY <2>1, LedgerKept, BystanderOK DEF IInv, RunOK
<1> QED
  BY <1>1, <1>1a, <1>2, <1>3, <1>4, <1>5, <1>6, <1>7, <1>8, <1>9, <1>10, <1>11, <1>12
  DEF Next, Step

LEMMA InitInv == Init => IInv
<1> SUFFICES ASSUME Init PROVE IInv
  OBVIOUS
<1>1. TypeOK
  BY InitType
<1>2. \A r \in Runner : TodoOK(r) /\ UnitOK(r) /\ SentOK(r)
  BY DEF Init, TodoOK, UnitOK, SentOK, UnitPhases
<1> QED
  BY <1>1, <1>2 DEF Init, Applied, IInv, OnDisk, HistorySound, HistoryInOrder, PartialOnlyAtFrontier

\* The inductive invariant holds throughout.
THEOREM Invariance == Spec => []IInv
<1>1. IInv /\ [Next]_vars => IInv'
  BY NextType, RunsAndLedger DEF IInv, RunOK, LedgerOK
<1> QED
  BY InitInv, <1>1, PTL DEF Spec

\* No action of any run leaves the types the code declares.
THEOREM TypeCorrect == Spec => []TypeOK
<1>1. IInv => TypeOK
  BY DEF IInv
<1> QED
  BY Invariance, <1>1, PTL

\* However many runs fail, crash or overlap, the statements of a recorded version
\* have run, except those of a file that was written after the run that recorded
\* the version had read the directory.
THEOREM RecordedMeansExecuted == Spec => []HistorySound
<1>1. IInv => HistorySound
  BY DEF IInv
<1> QED
  BY Invariance, <1>1, PTL

\* The history table is always a prefix of the versions on disk.
THEOREM RecordedInOrder == Spec => []HistoryInOrder
<1>1. IInv => HistoryInOrder
  BY DEF IInv
<1> QED
  BY Invariance, <1>1, PTL

\* An interrupted run leaves statements behind only of the next unit, and only
\* when that unit cannot run in a transaction.
THEOREM PartialWorkAtFrontier == Spec => []PartialOnlyAtFrontier
<1>1. IInv => PartialOnlyAtFrontier
  BY DEF IInv
<1> QED
  BY Invariance, <1>1, PTL
-----------------------------------------------------------------------------
(* The order of the lines, and what one more line leaves of an object. *)

LEMMA LineFacts ==
  ASSUME NEW files \in SUBSET File, NEW p \in LinesOfAll(files)
  PROVE  /\ p[1] \in files /\ p[1] \in File /\ p \in LinesOf(p[1])
         /\ p = <<p[1], p[2]>> /\ p[2] \in 1 .. Len(Sql[p[1]]) /\ p[2] \in Nat
         /\ p[1].version \in Nat
         /\ p \in LinesOfAll(File)
<1>1. PICK f \in files : p \in LinesOf(f)
  BY DEF LinesOfAll
<1>2. PICK i \in 1 .. Len(Sql[f]) : p = <<f, i>>
  BY <1>1 DEF LinesOf
<1>3. Len(Sql[f]) \in Nat /\ f.version \in Nat
  BY SqlAssumption, FileAssumption
<1> QED
  BY <1>1, <1>2, <1>3 DEF LinesOfAll

\* The files' order is a strict total order of their lines.
LEMMA LineOrder ==
  ASSUME NEW p \in LinesOfAll(File), NEW q \in LinesOfAll(File)
  PROVE  /\ p = q \/ LineBefore(p, q) \/ LineBefore(q, p)
         /\ ~(LineBefore(p, q) /\ LineBefore(q, p))
         /\ ~LineBefore(p, p)
<1> DEFINE f == p[1]
           g == q[1]
<1>1. /\ f \in File /\ g \in File /\ p = <<f, p[2]>> /\ q = <<g, q[2]>>
      /\ p[2] \in Nat /\ q[2] \in Nat
  BY LineFacts
<1>2. /\ f.version \in Nat /\ f.name \in Nat /\ f.concurrent \in BOOLEAN
      /\ g.version \in Nat /\ g.name \in Nat /\ g.concurrent \in BOOLEAN
      /\ (f.version = g.version /\ f.concurrent = g.concurrent /\ f.name = g.name) => f = g
  BY <1>1, FileAssumption
<1> HIDE DEF f, g
<1>3. f = g => (f.version = g.version /\ f.name = g.name /\ f.concurrent = g.concurrent)
  OBVIOUS
<1>4. LineBefore(p, q) <=> \/ f.version < g.version
                           \/ f.version = g.version /\ FileBefore(f, g)
                           \/ f = g /\ p[2] < q[2]
  BY DEF LineBefore, f, g
<1>5. LineBefore(q, p) <=> \/ g.version < f.version
                           \/ f.version = g.version /\ FileBefore(g, f)
                           \/ f = g /\ q[2] < p[2]
  BY DEF LineBefore, f, g
<1>6. f # g /\ f.version = g.version => (FileBefore(f, g) \/ FileBefore(g, f))
  BY <1>2 DEF FileBefore
<1>7. ~FileBefore(f, f) /\ ~FileBefore(g, g) /\ ~(FileBefore(f, g) /\ FileBefore(g, f))
  BY <1>2 DEF FileBefore
<1>8. LineBefore(p, p) <=> FileBefore(f, f)
  <2>1. ~(f.version < f.version) /\ ~(p[2] < p[2])
    BY <1>1, <1>2
  <2> QED
    BY <2>1 DEF LineBefore, f
<1>9. p = q \/ LineBefore(p, q) \/ LineBefore(q, p)
  <2>1. CASE f = g
    <3>1. p[2] = q[2] \/ p[2] < q[2] \/ q[2] < p[2]
      BY <1>1
    <3> QED
      BY <1>1, <1>4, <1>5, <2>1, <3>1
  <2>2. CASE f # g
    <3>1. f.version = g.version \/ f.version < g.version \/ g.version < f.version
      BY <1>2
    <3> QED
      BY <1>4, <1>5, <1>6, <2>2, <3>1
  <2> QED
    BY <2>1, <2>2
<1>10. ~(LineBefore(p, q) /\ LineBefore(q, p))
  <2>1. /\ ~(f.version < g.version /\ g.version < f.version)
        /\ ~(p[2] < q[2] /\ q[2] < p[2])
        /\ f.version = g.version => ~(f.version < g.version) /\ ~(g.version < f.version)
    BY <1>1, <1>2
  <2> QED
    BY <1>3, <1>4, <1>5, <1>7, <2>1
<1> QED
  BY <1>7, <1>8, <1>9, <1>10

LEMMA LineBeforeTransitive ==
  ASSUME NEW p \in LinesOfAll(File), NEW q \in LinesOfAll(File), NEW d \in LinesOfAll(File),
         LineBefore(p, q), LineBefore(q, d)
  PROVE  LineBefore(p, d)
<1> DEFINE f == p[1]
           g == q[1]
           h == d[1]
<1>1. /\ f \in File /\ g \in File /\ h \in File
      /\ p[2] \in Nat /\ q[2] \in Nat /\ d[2] \in Nat
  BY LineFacts
<1>2. /\ f.version \in Nat /\ f.name \in Nat /\ f.concurrent \in BOOLEAN
      /\ g.version \in Nat /\ g.name \in Nat /\ g.concurrent \in BOOLEAN
      /\ h.version \in Nat /\ h.name \in Nat /\ h.concurrent \in BOOLEAN
  BY <1>1, FileAssumption
<1>3. FileBefore(f, g) /\ FileBefore(g, h) => FileBefore(f, h)
  BY <1>2 DEF FileBefore
<1>4. p[2] < q[2] /\ q[2] < d[2] => p[2] < d[2]
  BY <1>1
<1>5. LineBefore(p, q) <=> \/ f.version < g.version
                           \/ f.version = g.version /\ FileBefore(f, g)
                           \/ f = g /\ p[2] < q[2]
  BY DEF LineBefore
<1>6. LineBefore(q, d) <=> \/ g.version < h.version
                           \/ g.version = h.version /\ FileBefore(g, h)
                           \/ g = h /\ q[2] < d[2]
  BY DEF LineBefore
<1>7. LineBefore(p, d) <=> \/ f.version < h.version
                           \/ f.version = h.version /\ FileBefore(f, h)
                           \/ f = h /\ p[2] < d[2]
  BY DEF LineBefore
<1> HIDE DEF f, g, h
<1> QED
  BY <1>2, <1>3, <1>4, <1>5, <1>6, <1>7

LEMMA LeftByKept ==
  ASSUME NEW val, NEW o, NEW settled, NEW ran, NEW settled2, NEW ran2,
         LeftBy(val, o, settled, ran), settled2 \cap About(o) \subseteq settled,
         ran \subseteq ran2
  PROVE  LeftBy(val, o, settled2, ran2)
BY DEF LeftBy

\* A line that the runs have just passed, if it is settled, comes after all
\* that were: what it leaves is its own result, or what an equal creation left before.
LEMMA LeftByNext ==
  ASSUME NEW place \in LinesOfAll(File), NEW val, NEW settled, NEW ran, NEW settled2, NEW ran2,
         LeftBy(val, Statement(place).obj, settled, ran),
         \A q \in settled \cap About(Statement(place).obj) : ~LineBefore(place, q),
         settled2 \cap About(Statement(place).obj) \subseteq settled \cup {place},
         place \in settled2 => \A q \in LinesOfAll(File) : LineBefore(q, place) => q \in settled,
         ran \cup {place} \subseteq ran2
  PROVE  LeftBy(Effect(Statement(place), val), Statement(place).obj, settled2, ran2)
<1> DEFINE o == Statement(place).obj
           new == Effect(Statement(place), val)
<1>1. place \in About(o) /\ ~LineBefore(place, place)
  BY LineOrder DEF About
<1>2. CASE new = Result(place)
  <2>1. \A q \in settled2 \cap About(o) : ~LineBefore(place, q)
    BY <1>1
  <2> QED
    BY <1>1, <1>2, <2>1 DEF LeftBy
<1>3. CASE new # Result(place)
  <2>1. Statement(place).op = "create" /\ val # Absent /\ new = val
    BY <1>3 DEF Effect, Result
  <2>2. PICK p \in ran \cap About(o) :
          val = Result(p) /\ \A q \in settled \cap About(o) : ~LineBefore(p, q)
    BY <2>1 DEF LeftBy
  <2>3. place \in settled2 => ~LineBefore(p, place)
    <3> SUFFICES ASSUME place \in settled2, LineBefore(p, place) PROVE FALSE
      OBVIOUS
    <3>1. PICK d \in LinesOfAll(File) :
            /\ Statement(d).obj = o /\ Result(d) \in {Absent, Result(place)}
            /\ d = p \/ LineBefore(p, d)
            /\ LineBefore(d, place)
      BY <2>1, CreateAssumption DEF About
    <3>2. d \in settled \cap About(o)
      BY <3>1 DEF About
    <3>3. d # p
      BY <1>3, <2>1, <2>2, <3>1
    <3> QED
      BY <2>2, <3>1, <3>2, <3>3
  <2>4. \A q \in settled2 \cap About(o) : ~LineBefore(p, q)
    BY <2>2, <2>3
  <2> QED
    BY <2>1, <2>2, <2>4 DEF LeftBy
<1> QED
  BY <1>2, <1>3

-----------------------------------------------------------------------------
(* The replay of the files, line by line. *)

LEMMA LinesFinite ==
  ASSUME NEW files \in SUBSET File
  PROVE  IsFiniteSet(LinesOfAll(files))
<1>1. ASSUME NEW f \in files PROVE IsFiniteSet(LinesOf(f))
  <2> DEFINE line_(i) == <<f, i>>
             at == [i \in 1 .. Len(Sql[f]) |-> <<f, i>>]
  <2>1. Len(Sql[f]) \in Nat
    BY SqlAssumption
  <2>2. IsFiniteSet(1 .. Len(Sql[f]))
    BY <2>1, FS_Interval
  <2>3. at \in Surjection(1 .. Len(Sql[f]), LinesOf(f))
    BY DEF Surjection, LinesOf
  <2> QED
    BY <2>2, <2>3, FS_Surjection
<1>2. IsFiniteSet(files)
  BY FileAssumption, FS_Subset
<1> DEFINE all == {LinesOf(f) : f \in files}
           of == [f \in files |-> LinesOf(f)]
<1>3. of \in Surjection(files, all)
  BY DEF Surjection
<1>4. IsFiniteSet(all)
  BY <1>2, <1>3, FS_Surjection
<1> QED
  BY <1>1, <1>4, FS_UNION DEF LinesOfAll

Earlier(p, lines) == {q \in lines : LineBefore(q, p)}

\* Each number from 1 to the number of lines is the place of exactly one line.
LEMMA Places ==
  ASSUME NEW lines \in SUBSET LinesOfAll(File)
  PROVE  /\ IsFiniteSet(lines) /\ Cardinality(lines) \in Nat
         /\ \A p \in lines : Cardinality(Earlier(p, lines)) + 1 \in 1 .. Cardinality(lines)
         /\ \A p, q \in lines : LineBefore(p, q)
              => Cardinality(Earlier(p, lines)) < Cardinality(Earlier(q, lines))
         /\ \A n \in 1 .. Cardinality(lines) :
              LineAt(n, lines) \in lines /\ Cardinality(Earlier(LineAt(n, lines), lines)) = n - 1
<1> DEFINE N == Cardinality(lines)
           place(p) == Cardinality(Earlier(p, lines))
           rank == [p \in lines |-> place(p) + 1]
<1>0. IsFiniteSet(LinesOfAll(File))
  BY LinesFinite
<1>1. IsFiniteSet(lines) /\ N \in Nat
  BY <1>0, FS_Subset, FS_CardinalityType
<1>2. ASSUME NEW p \in lines PROVE IsFiniteSet(Earlier(p, lines)) /\ place(p) \in Nat
  <2>1. Earlier(p, lines) \in SUBSET lines
    BY DEF Earlier
  <2> QED
    BY <1>1, <2>1, FS_Subset, FS_CardinalityType
<1>3. ASSUME NEW p \in lines PROVE place(p) + 1 \in 1 .. N
  <2>1. Earlier(p, lines) \cup {p} \in SUBSET lines
    BY DEF Earlier
  <2>2. p \notin Earlier(p, lines)
    BY LineOrder DEF Earlier
  <2>3. Cardinality(Earlier(p, lines) \cup {p}) = place(p) + 1
    BY <1>2, <2>2, FS_AddElement
  <2>4. Cardinality(Earlier(p, lines) \cup {p}) <= N
    BY <1>1, <2>1, FS_Subset
  <2> QED
    BY <1>1, <1>2, <2>3, <2>4
<1>4. ASSUME NEW p \in lines, NEW q \in lines, LineBefore(p, q) PROVE place(p) < place(q)
  <2>1. \A d \in lines : LineBefore(d, p) => LineBefore(d, q)
    BY <1>4, LineBeforeTransitive
  <2>2. Earlier(p, lines) \cup {p} \in SUBSET Earlier(q, lines)
    BY <1>4, <2>1 DEF Earlier
  <2>3. p \notin Earlier(p, lines)
    BY LineOrder DEF Earlier
  <2>4. Cardinality(Earlier(p, lines) \cup {p}) = place(p) + 1
    BY <1>2, <2>3, FS_AddElement
  <2>5. Cardinality(Earlier(p, lines) \cup {p}) <= place(q)
    BY <1>2, <2>2, FS_Subset
  <2> QED
    BY <1>2, <2>4, <2>5
<1> HIDE DEF place
<1>5. rank \in Injection(lines, 1 .. N)
  <2>1. rank \in [lines -> 1 .. N]
    BY <1>3
  <2>2. ASSUME NEW p \in lines, NEW q \in lines, rank[p] = rank[q] PROVE p = q
    <3>1. place(p) = place(q) /\ place(p) \in Nat
      BY <1>2, <2>2
    <3>2. ~LineBefore(p, q) /\ ~LineBefore(q, p)
      BY <1>4, <3>1
    <3> QED
      BY <3>2, LineOrder
  <2> QED
    BY <2>1, <2>2 DEF Injection, IsInjective
<1>6. IsFiniteSet(1 .. N) /\ Cardinality(1 .. N) = N
  <2>1. 1 \in Int /\ N \in Int
    BY <1>1
  <2>2. IsFiniteSet(1 .. N) /\ Cardinality(1 .. N) = IF 1 > N THEN 0 ELSE N - 1 + 1
    BY <2>1, FS_Interval
  <2> QED
    BY <1>1, <2>2
<1>7. rank \in Surjection(lines, 1 .. N)
  <2> HIDE DEF rank
  <2> QED
    BY <1>5, <1>6, FS_Injection
<1>8. ASSUME NEW n \in 1 .. N
      PROVE  LineAt(n, lines) \in lines /\ place(LineAt(n, lines)) = n - 1
  <2>1. PICK p \in lines : rank[p] = n
    BY <1>7 DEF Surjection
  <2>2. place(p) = n - 1
    BY <1>2, <2>1
  <2>3. LineAt(n, lines) = CHOOSE q \in lines : place(q) = n - 1
    BY DEF LineAt, place, Earlier
  <2> QED
    BY <2>2, <2>3
<1> QED
  BY <1>1, <1>3, <1>4, <1>8 DEF place

\* The catalogs after each line.
Catalogs(files) ==
  {g \in [0 .. Cardinality(LinesOfAll(files)) -> [Object -> Value]] :
     /\ g[0] = [o \in Object |-> Absent]
     /\ \A n \in 1 .. Cardinality(LinesOfAll(files)) :
          g[n] = LET stmt == Statement(LineAt(n, LinesOfAll(files)))
                 IN  [g[n - 1] EXCEPT ![stmt.obj] = Effect(stmt, @)]}

LEMMA StatementType ==
  ASSUME NEW p \in LinesOfAll(File), NEW cat \in [Object -> Value]
  PROVE  /\ Statement(p).obj \in Object
         /\ [cat EXCEPT ![Statement(p).obj] = Effect(Statement(p), @)] \in [Object -> Value]
<1>1. p[1] \in File /\ p[2] \in 1 .. Len(Sql[p[1]])
  BY LineFacts
<1>2. Statement(p).obj \in Object
  BY <1>1, StatementAssumption DEF Statement
<1>3. Effect(Statement(p), cat[Statement(p).obj]) \in Value
  BY <1>1, <1>2, EffectType DEF Statement
<1> QED
  BY <1>2, <1>3

LEMMA ReplayCatalogs ==
  ASSUME NEW files \in SUBSET File
  PROVE  \E g \in Catalogs(files) : Replay(files) = g[Cardinality(LinesOfAll(files))]
<1> DEFINE lines == LinesOfAll(files)
           N == Cardinality(lines)
           X == [Object -> Value]
           start == [o \in Object |-> Absent]
           next(n, cat) == LET stmt == Statement(LineAt(n, lines))
                           IN  [cat EXCEPT ![stmt.obj] = Effect(stmt, @)]
           step == [p \in Nat \X X |-> IF p[1] \in 1 .. N THEN next(p[1], p[2]) ELSE p[2]]
           after[n \in 0 .. N] == IF n = 0 THEN start ELSE next(n, after[n - 1])
<1>0. lines \in SUBSET LinesOfAll(File)
  BY LineFacts
<1>1. N \in Nat /\ \A n \in 1 .. N : LineAt(n, lines) \in LinesOfAll(File)
  BY <1>0, Places
<1>2. start \in X
  BY DEF Value
<1>3. ASSUME NEW n \in 1 .. N, NEW cat \in X PROVE next(n, cat) \in X
  BY <1>1, StatementType
<1>4. Replay(files) = after[N]
  BY DEF Replay
<1> HIDE DEF lines, N, next
<1>5. step \in [Nat \X X -> X]
  BY <1>3
<1> HIDE DEF X, start
<1>6. PICK g \in Rounds(X, start, step, N) : TRUE
  <2>1. Rounds(X, start, step, N) # {}
    <3> HIDE DEF step
    <3> QED
      BY <1>1, <1>2, <1>5, RoundsExist
  <2> QED
    BY <2>1
<1>7. g \in [0 .. N -> X] /\ g[0] = start
  BY DEF Rounds
<1>8. ASSUME NEW n \in 1 .. N PROVE g[n] = next(n, g[n - 1])
  <2>1. n \in Nat /\ n - 1 \in 0 .. N
    BY <1>1
  <2>2. g[n - 1] \in X
    BY <1>7, <2>1
  <2>3. g[n] = step[<<n, g[n - 1]>>]
    BY DEF Rounds
  <2> QED
    BY <2>1, <2>2, <2>3
<1>9. g = [n \in 0 .. N |-> IF n = 0 THEN start ELSE next(n, g[n - 1])]
  <2>1. \A n \in 0 .. N : n = 0 \/ n \in 1 .. N
    BY <1>1
  <2> QED
    BY <1>7, <1>8, <2>1
<1>10. after = [n \in 0 .. N |-> IF n = 0 THEN start ELSE next(n, after[n - 1])]
  <2> SUFFICES \E ff : ff = [n \in 0 .. N |-> IF n = 0 THEN start ELSE next(n, ff[n - 1])]
    OBVIOUS
  <2> QED
    BY <1>9
<1> HIDE DEF after, step
<1>11. ASSUME NEW n \in 1 .. N, after[n - 1] \in X PROVE after[n] = next(n, after[n - 1])
  <2>1. n \in 0 .. N /\ n # 0
    BY <1>1
  <2> QED
    BY <1>10, <2>1
<1>12. 0 \in 0 .. N /\ N \in 0 .. N
  BY <1>1
<1>13. after[0] = start
  BY <1>10, <1>12
<1>14. ASSUME NEW n \in 1 .. N, after[n - 1] \in X
       PROVE  after[n] = step[<<n, after[n - 1]>>]
  <2>1. n \in Nat
    BY <1>1
  <2> QED
    BY <1>11, <1>14, <2>1 DEF step
<1>15. \A n \in 0 .. N : after[n] \in X
  <2>1. \A n \in 1 .. N : after[n - 1] \in X => after[n] = step[<<n, after[n - 1]>>]
    BY <1>14
  <2>2. N \in Nat
    BY <1>1
  <2> QED
    BY <1>2, <1>5, <1>13, <2>1, <2>2, LoopStays, SMTT(60)
<1>16. \A n \in 1 .. N : after[n] = next(n, after[n - 1])
  <2>1. \A n \in 1 .. N : n - 1 \in 0 .. N
    BY <1>1
  <2> QED
    BY <1>11, <1>15, <2>1
<1>17. after \in [0 .. N -> X]
  <2>1. DOMAIN after = 0 .. N /\ after = [n \in DOMAIN after |-> after[n]]
    BY <1>10
  <2> QED
    BY <1>15, <2>1
<1>18. after \in Catalogs(files)
  BY <1>13, <1>16, <1>17 DEF Catalogs, X, N, lines, next, start
<1> QED
  BY <1>4, <1>18 DEF N, lines

\* A beginning of the files.
Closed(files) ==
  \A f \in files, g \in File :
    g.version < f.version \/ (g.version = f.version /\ FileBefore(g, f)) => g \in files

\* What the first lines of a beginning of the files leave of an object is the
\* result of the last one about it: a line that creates finds nothing.
LEMMA CatalogLeft ==
  ASSUME NEW files \in SUBSET File, Closed(files), NEW g \in Catalogs(files), NEW o \in Object
  PROVE  \A n \in 0 .. Cardinality(LinesOfAll(files)) :
           LET first == {p \in LinesOfAll(files) : Cardinality(Earlier(p, LinesOfAll(files))) < n}
           IN  LeftBy(g[n][o], o, first, first)
<1> DEFINE lines == LinesOfAll(files)
           N == Cardinality(lines)
           place(p) == Cardinality(Earlier(p, lines))
           first(n) == {p \in lines : place(p) < n}
           T == {n \in Nat : n <= N => LeftBy(g[n][o], o, first(n), first(n))}
<1>0. lines \in SUBSET LinesOfAll(File)
  BY LineFacts
<1>1. N \in Nat /\ \A p \in lines : place(p) + 1 \in 1 .. N
  BY <1>0, Places
<1>2. \A p \in lines : place(p) \in Nat
  <2> SUFFICES ASSUME NEW p \in lines PROVE place(p) \in Nat
    OBVIOUS
  <2>1. IsFiniteSet(lines) /\ Earlier(p, lines) \in SUBSET lines
    BY <1>0, Places DEF Earlier
  <2> QED
    BY <2>1, FS_Subset, FS_CardinalityType
<1>3. \A p, q \in lines : LineBefore(p, q) => place(p) < place(q)
  BY <1>0, Places
<1>4. \A n \in 1 .. N : LineAt(n, lines) \in lines /\ place(LineAt(n, lines)) = n - 1
  BY <1>0, Places
<1>5. /\ g \in [0 .. N -> [Object -> Value]] /\ g[0] = [x \in Object |-> Absent]
      /\ \A n \in 1 .. N : g[n] = [g[n - 1] EXCEPT
           ![Statement(LineAt(n, lines)).obj] = Effect(Statement(LineAt(n, lines)), @)]
  BY DEF Catalogs
<1>6. \A p \in lines, q \in LinesOfAll(File) : LineBefore(q, p) => q \in lines
  <2> SUFFICES ASSUME NEW p \in lines, NEW q \in LinesOfAll(File), LineBefore(q, p)
               PROVE  q \in lines
    OBVIOUS
  <2>1. p[1] \in files /\ q[1] \in File /\ q \in LinesOf(q[1])
    BY LineFacts
  <2>2. q[1] \in files
    BY <2>1 DEF LineBefore, Closed
  <2> QED
    BY <2>1, <2>2 DEF LinesOfAll
<1> HIDE DEF place, lines, N
<1>7. 0 \in T
  <2>1. g[0][o] = Absent
    BY <1>5
  <2>2. first(0) = {}
    BY <1>2
  <2> QED
    BY <2>1, <2>2 DEF LeftBy
<1>8. ASSUME NEW n \in T PROVE n + 1 \in T
  <2> SUFFICES ASSUME n + 1 <= N PROVE LeftBy(g[n + 1][o], o, first(n + 1), first(n + 1))
    OBVIOUS
  <2>1. /\ n \in Nat /\ n <= N /\ n + 1 \in 1 .. N /\ (n + 1) - 1 = n /\ n \in 0 .. N
        /\ LeftBy(g[n][o], o, first(n), first(n))
    BY <1>1
  <2> DEFINE p == LineAt(n + 1, lines)
  <2>2. p \in lines /\ place(p) = n /\ p \in LinesOfAll(File)
    BY <1>0, <1>4, <2>1
  <2>3. g[n + 1] = [g[n] EXCEPT ![Statement(p).obj] = Effect(Statement(p), @)] /\ g[n] \in [Object -> Value]
    BY <1>5, <2>1
  <2> HIDE DEF p, T
  <2>4. first(n + 1) = first(n) \cup {p}
    <3>1. ASSUME NEW q \in lines, place(q) < n + 1 PROVE q = p \/ place(q) < n
      <4>1. q = p \/ LineBefore(p, q) \/ LineBefore(q, p)
        BY <1>0, <2>2, LineOrder
      <4> QED
        BY <1>2, <1>3, <2>1, <2>2, <3>1, <4>1
    <3> QED
      BY <1>2, <2>1, <2>2, <3>1
  <2>5. \A q \in first(n) : ~LineBefore(p, q)
    <3>1. \A q \in first(n) : q \in lines /\ place(q) < n
      OBVIOUS
    <3> QED
      BY <1>2, <1>3, <2>2, <3>1
  <2>6. \A q \in LinesOfAll(File) : LineBefore(q, p) => q \in first(n)
    <3> SUFFICES ASSUME NEW q \in LinesOfAll(File), LineBefore(q, p) PROVE q \in first(n)
      OBVIOUS
    <3>1. q \in lines
      BY <1>6, <2>2
    <3>2. place(q) < n
      BY <1>3, <2>2, <3>1
    <3> QED
      BY <3>1, <3>2
  <2> HIDE DEF first
  <2>7. CASE o = Statement(p).obj
    <3>1. g[n + 1][o] = Effect(Statement(p), g[n][o])
      BY <2>3, <2>7
    <3>2. LeftBy(Effect(Statement(p), g[n][o]), o, first(n + 1), first(n + 1))
      BY <2>1, <2>2, <2>4, <2>5, <2>6, <2>7, LeftByNext
    <3> QED
      BY <3>1, <3>2
  <2>8. CASE o # Statement(p).obj
    <3>1. g[n + 1][o] = g[n][o]
      BY <2>3, <2>8
    <3>2. first(n + 1) \cap About(o) \subseteq first(n)
      BY <2>4, <2>8 DEF About
    <3> QED
      BY <2>1, <2>4, <3>1, <3>2, LeftByKept
  <2> QED
    BY <2>7, <2>8
<1> HIDE DEF T
<1>9. T = Nat
  <2>1. T \in SUBSET Nat
    BY DEF T
  <2> QED
    BY <1>7, <1>8, <2>1, AllNaturals
<1>10. \A n \in 0 .. N : LeftBy(g[n][o], o, first(n), first(n))
  <2>1. \A n \in 0 .. N : n \in Nat /\ n <= N
    BY <1>1
  <2> QED
    BY <1>9, <2>1 DEF T
<1> QED
  BY <1>10 DEF N, lines, place

\* When all that ran is settled, what an object was left with is its place in the replay.
LEMMA ReplayLeft ==
  ASSUME NEW files \in SUBSET File, Closed(files), NEW o \in Object, NEW val,
         NEW ran \in SUBSET LinesOfAll(files),
         LeftBy(val, o, LinesOfAll(files), ran)
  PROVE  val = Replay(files)[o]
<1> DEFINE lines == LinesOfAll(files)
           N == Cardinality(lines)
           first == {p \in lines : Cardinality(Earlier(p, lines)) < N}
<1>0. lines \in SUBSET LinesOfAll(File)
  BY LineFacts
<1>1. N \in Nat /\ \A p \in lines : Cardinality(Earlier(p, lines)) + 1 \in 1 .. N
  BY <1>0, Places
<1>2. \A p \in lines : Cardinality(Earlier(p, lines)) \in Nat
  <2> SUFFICES ASSUME NEW p \in lines PROVE Cardinality(Earlier(p, lines)) \in Nat
    OBVIOUS
  <2>1. IsFiniteSet(lines) /\ Earlier(p, lines) \in SUBSET lines
    BY <1>0, Places DEF Earlier
  <2> QED
    BY <2>1, FS_Subset, FS_CardinalityType
<1>3. first = lines
  BY <1>1, <1>2
<1>4. PICK g \in Catalogs(files) : Replay(files) = g[N]
  BY ReplayCatalogs
<1>5. LeftBy(g[N][o], o, first, first)
  <2>1. N \in 0 .. N
    BY <1>1
  <2> QED
    BY <2>1, CatalogLeft
<1> DEFINE last == g[N][o]
<1>6. LeftBy(last, o, lines, lines) /\ LeftBy(val, o, lines, ran) /\ ran \subseteq lines
  BY <1>3, <1>5
<1> HIDE DEF lines, last
<1>7. val = last
  <2>1. CASE lines \cap About(o) = {}
    BY <1>6, <2>1 DEF LeftBy
  <2>2. CASE lines \cap About(o) # {}
    <3>1. PICK p \in lines \cap About(o) : last = Result(p) /\ \A q \in lines \cap About(o) : ~LineBefore(p, q)
      BY <1>6, <2>2 DEF LeftBy
    <3>2. PICK q \in ran \cap About(o) : val = Result(q) /\ \A d \in lines \cap About(o) : ~LineBefore(q, d)
      BY <1>6, <2>2 DEF LeftBy
    <3>3. p = q
      BY <1>0, <1>6, <3>1, <3>2, LineOrder
    <3> QED
      BY <3>1, <3>2, <3>3
  <2> QED
    BY <2>1, <2>2
<1> QED
  BY <1>4, <1>7 DEF last

LEMMA ReplayType ==
  ASSUME NEW files \in SUBSET File
  PROVE  Replay(files) \in [Object -> Value]
<1>1. PICK g \in Catalogs(files) : Replay(files) = g[Cardinality(LinesOfAll(files))]
  BY ReplayCatalogs
<1>2. Cardinality(LinesOfAll(files)) \in Nat
  <2>1. LinesOfAll(files) \in SUBSET LinesOfAll(File)
    BY LineFacts
  <2> QED
    BY <2>1, Places
<1>3. Cardinality(LinesOfAll(files)) \in 0 .. Cardinality(LinesOfAll(files))
  BY <1>2
<1> QED
  BY <1>1, <1>3 DEF Catalogs

-----------------------------------------------------------------------------
(* Runs keep apart: what a run knows of the others and what it has passed. *)

RunApart(r) == SeenOK(r) /\ ViewOK(r) /\ AloneOK(r)

\* What a run that takes no step keeps.
LEMMA BystanderApart ==
  ASSUME NEW q \in Runner, RunApart(q), disk' = disk,
         UNCHANGED <<RunState(q), overlapped[q], view[q]>>,
         history \subseteq history', missed \subseteq missed',
         \A p \in Runner : Active(p)' => Active(p),
         Active(q) => overlapped[q] \/ history' = history
  PROVE  RunApart(q)'
<1>1. SeenOK(q)'
  BY DEF RunApart, RunState, SeenOK, Active
<1>2. ViewOK(q)'
  BY DEF RunApart, RunState, ViewOK, InTransaction
<1>3. AloneOK(q)'
  <2>1. Active(q)' <=> Active(q)
    BY DEF RunState, Active
  <2> QED
    BY <2>1 DEF RunApart, RunState, AloneOK, Applied
<1> QED
  BY <1>1, <1>2, <1>3 DEF RunApart

\* Nothing but the step of r changes.
OnlyRun(r) ==
  /\ disk' = disk /\ history \subseteq history' /\ missed \subseteq missed'
  /\ \A q \in Runner \ {r} : UNCHANGED <<RunState(q), overlapped[q], view[q]>>

LEMMA ApartKept ==
  ASSUME RunsApart, NEW r \in Runner, OnlyRun(r), Active(r), RunApart(r)',
         DOMAIN view'[r] \subseteq DOMAIN view[r]
  PROVE  RunsApart'
<1>1. \A p \in Runner : Active(p)' => Active(p)
  BY DEF OnlyRun, RunState, Active
<1>2. ASSUME NEW q \in Runner \ {r} PROVE RunApart(q)'
  <2>1. RunApart(q) /\ (Active(q) => overlapped[q])
    BY DEF RunsApart, RunApart, AloneOK
  <2> QED
    BY <1>1, <2>1, BystanderApart DEF OnlyRun
<1>3. Beginnings(disk')
  BY DEF RunsApart, OnlyRun
<1>4. ViewsDisjoint'
  <2>1. \A q \in Runner : DOMAIN view'[q] \subseteq DOMAIN view[q]
    BY DEF OnlyRun
  <2> QED
    BY <2>1 DEF RunsApart, ViewsDisjoint
<1> QED
  BY <1>2, <1>3, <1>4 DEF RunsApart, RunApart

\* The list and what the run saw stay, or the run gives its list up.
LEMMA SeenKept ==
  ASSUME NEW r \in Runner, SeenOK(r), seen'[r] = seen[r], history \subseteq history',
         \/ todo'[r] = todo[r] /\ (Active(r)' => Active(r))
         \/ todo'[r] = {} /\ ~Active(r)'
  PROVE  SeenOK(r)'
BY DEF SeenOK

\* A run that is in no unit and has no transaction.
LEMMA OutOfUnit ==
  ASSUME NEW r \in Runner, phase'[r] \notin UnitPhases, view'[r] = EmptyView
  PROVE  ViewOK(r)'
BY DEF ViewOK, InTransaction, UnitPhases

LEMMA NoView ==
  ASSUME IInv, RunsApart, NEW r \in Runner, phase[r] \notin UnitPhases
  PROVE  view[r] = EmptyView /\ sent[r] = {}
BY DEF RunsApart, ViewOK, InTransaction, IInv, SentOK

LEMMA AloneKept ==
  ASSUME NEW r \in Runner, AloneOK(r), disk' = disk, history' = history, missed' = missed,
         UNCHANGED <<todo[r], seen[r], overlapped[r]>>,
         Active(r)' => Active(r), \A p \in Runner \ {r} : Active(p)' => Active(p)
  PROVE  AloneOK(r)'
BY DEF AloneOK, Applied

LEMMA ReadStatusApart ==
  ASSUME IInv, RunsApart, NEW r \in Runner, ReadStatus(r)
  PROVE  RunsApart'
<1>1. /\ ~Active(r) /\ UNCHANGED <<disk, history, missed, unit, file, line, sent, view>>
      /\ todo'[r] = Pending(disk, history) /\ seen'[r] = disk
      /\ phase'[r] \in {"refused", "done", "planned"}
      /\ \A q \in Runner \ {r} : UNCHANGED <<RunState(q), view[q]>>
  BY DEF ReadStatus, target, unitVars, RunState, IInv, TypeOK
<1>2. phase[r] \notin UnitPhases /\ phase'[r] \notin UnitPhases
  BY <1>1 DEF Active, IdlePhases, UnitPhases
<1>3. \A q \in Runner \ {r} : Active(q)' <=> Active(q)
  BY <1>1 DEF RunState, Active
<1>4. Active(r)' <=> phase'[r] = "planned"
  BY <1>1 DEF Active, IdlePhases
<1>5. /\ overlapped'[r] = (\E q \in Runner \ {r} : Active(q))
      /\ \A q \in Runner \ {r} : overlapped'[q] =
           (overlapped[q] \/ (Active(q) /\ phase'[r] = "planned"))
  BY <1>1 DEF ReadStatus, IInv, TypeOK
<1>6. RunApart(r)'
  <2>1. SeenOK(r)'
    <3>1. \A f \in disk, g \in disk : f \in Pending(disk, history) /\ f.version <= g.version
            => g \in Pending(disk, history)
      <4> SUFFICES ASSUME NEW f \in disk, NEW g \in disk, f.version <= g.version,
                          f.version \notin history, g.version \in history
                   PROVE  FALSE
        BY DEF Pending
      <4>1. f.version \in Nat /\ g.version \in Nat
        BY FileAssumption DEF IInv, TypeOK
      <4>2. f.version < g.version
        BY <4>1
      <4> QED
        BY <4>2 DEF IInv, HistoryInOrder
    <3> QED
      BY <1>1, <3>1 DEF SeenOK, RunsApart, Beginnings, Pending
  <2>2. ViewOK(r)'
    BY <1>1, <1>2, NoView, OutOfUnit
  <2>3. AloneOK(r)'
    BY <1>1, <1>3, <1>5 DEF AloneOK, Applied, Pending
  <2> QED
    BY <2>1, <2>2, <2>3 DEF RunApart
<1>7. ASSUME NEW q \in Runner \ {r} PROVE RunApart(q)'
  <2>1. RunApart(q)
    BY DEF RunsApart, RunApart
  <2>2. SeenOK(q)' /\ ViewOK(q)'
    BY <1>1, <1>3, <2>1 DEF RunApart, RunState, SeenOK, ViewOK, InTransaction
  <2>3. AloneOK(q)'
    <3>1. Active(q)' => Active(q)
      BY <1>3
    <3>2. \A p \in Runner \ {q} : Active(p)' => Active(p) \/ (p = r /\ phase'[r] = "planned")
      BY <1>3, <1>4
    <3>3. overlapped'[q] = (overlapped[q] \/ (Active(q) /\ phase'[r] = "planned"))
      BY <1>5
    <3>4. UNCHANGED <<todo[q], seen[q]>>
      BY <1>1 DEF RunState
    <3> QED
      BY <1>1, <2>1, <3>1, <3>2, <3>3, <3>4 DEF RunApart, AloneOK, Applied
  <2> QED
    BY <2>2, <2>3 DEF RunApart
<1> QED
  BY <1>1, <1>6, <1>7 DEF RunsApart, RunApart, Beginnings, ViewsDisjoint

\* Connect and Finish: only the phase changes, and not into a unit.
LEMMA OutsideApart ==
  ASSUME IInv, RunsApart, NEW r \in Runner, Connect(r) \/ Finish(r)
  PROVE  RunsApart'
<1>1. /\ OnlyRun(r) /\ UNCHANGED <<disk, history, missed, todo, view, seen, overlapped>>
      /\ phase'[r] \notin UnitPhases /\ phase[r] \notin UnitPhases /\ Active(r)
  BY DEF Connect, Finish, OnlyRun, RunState, target, unitVars, observed, IInv, TypeOK,
         UnitPhases, Active, IdlePhases
<1>2. \A p \in Runner : Active(p)' => Active(p)
  BY <1>1 DEF OnlyRun, RunState, Active
<1>3. RunApart(r)'
  <2>1. SeenOK(r) /\ AloneOK(r)
    BY DEF RunsApart
  <2>2. SeenOK(r)'
    BY <1>1, <1>2, <2>1, SeenKept
  <2>3. AloneOK(r)'
    BY <1>1, <1>2, <2>1, AloneKept
  <2> QED
    BY <1>1, <1>2, NoView, OutOfUnit, <2>2, <2>3 DEF RunApart, RunsApart
<1> QED
  BY <1>1, <1>3, ApartKept

LEMMA BeginUnitApart ==
  ASSUME IInv, RunsApart, NEW r \in Runner, BeginUnit(r)
  PROVE  RunsApart'
<1>1. /\ OnlyRun(r) /\ UNCHANGED <<disk, history, missed, todo, sent, view, seen, overlapped>>
      /\ phase'[r] = "sql" /\ phase[r] = "ready"
  BY DEF BeginUnit, OnlyRun, RunState, target, observed, IInv, TypeOK
<1>2. Active(r) /\ phase[r] \notin UnitPhases
  BY <1>1 DEF Active, IdlePhases, UnitPhases
<1>3. \A p \in Runner : Active(p)' => Active(p)
  BY <1>1, <1>2 DEF OnlyRun, RunState, Active
<1>4. ViewOK(r)'
  BY <1>1, <1>2, NoView DEF ViewOK
<1>5. RunApart(r)'
  <2>1. SeenOK(r) /\ AloneOK(r)
    BY DEF RunsApart
  <2>2. SeenOK(r)'
    BY <1>1, <1>3, <2>1, SeenKept
  <2>3. AloneOK(r)'
    BY <1>1, <1>3, <2>1, AloneKept
  <2> QED
    BY <1>1, <1>3, <1>4, <2>2, <2>3 DEF RunApart, RunsApart
<1> QED
  BY <1>1, <1>2, <1>5, ApartKept

LEMMA NextUnitFileApart ==
  ASSUME IInv, RunsApart, NEW r \in Runner, NextUnitFile(r)
  PROVE  RunsApart'
<1> DEFINE later == {g \in UnitFiles(todo[r], unit[r]) : FileBefore(file[r], g)}
<1>1. /\ OnlyRun(r) /\ UNCHANGED <<disk, history, missed, todo, unit, sent, view, seen, overlapped>>
      /\ phase[r] = "sql"
      /\ \/ later = {} /\ phase'[r] = "record"
         \/ phase'[r] = "sql" /\ line'[r] = 0 /\ file'[r] \in later
  BY DEF NextUnitFile, OnlyRun, RunState, target, observed, IInv, TypeOK, FirstOf
<1>2. Active(r) /\ phase[r] \in UnitPhases /\ phase'[r] \in UnitPhases
  BY <1>1 DEF Active, IdlePhases, UnitPhases
<1>3. \A p \in Runner : Active(p)' => Active(p)
  BY <1>1, <1>2 DEF OnlyRun, RunState, Active
<1>4. InTransaction(r)' <=> InTransaction(r)
  BY <1>1, <1>2 DEF InTransaction
<1>5. ASSUME phase'[r] = "sql", NEW p \in sent[r] PROVE FileBefore(p[1], file'[r])
  <2>1. file'[r] \in UnitFiles(todo[r], unit[r]) /\ FileBefore(file[r], file'[r])
    BY <1>1, <1>5
  <2>2. FileBefore(p[1], file[r]) \/ p[1] = file[r]
    BY <1>1 DEF RunsApart, ViewOK
  <2>3. /\ p[1] \in File /\ file[r] \in File /\ file'[r] \in File
    <3>1. sent[r] \subseteq LinesOfAll(File) /\ todo[r] \subseteq File
      BY DEF IInv, TypeOK
    <3> QED
      BY <1>2, <2>1, <3>1, CurrentFile, LineFacts DEF UnitFiles
  <2>4. \A f \in File : f.name \in Nat /\ f.concurrent \in BOOLEAN
    BY FileAssumption
  <2> QED
    BY <2>1, <2>2, <2>3, <2>4 DEF FileBefore
<1>6. ViewOK(r)'
  BY <1>1, <1>4, <1>5 DEF RunsApart, ViewOK
<1>7. RunApart(r)'
  <2>1. SeenOK(r) /\ AloneOK(r)
    BY DEF RunsApart
  <2>2. SeenOK(r)'
    BY <1>1, <1>3, <2>1, SeenKept
  <2>3. AloneOK(r)'
    BY <1>1, <1>3, <2>1, AloneKept
  <2> QED
    BY <1>1, <1>3, <1>6, <2>2, <2>3 DEF RunApart, RunsApart
<1> QED
  BY <1>1, <1>2, <1>7, ApartKept

LEMMA ExecuteApart ==
  ASSUME IInv, RunsApart, NEW r \in Runner, ExecuteStatement(r)
  PROVE  RunsApart'
<1> DEFINE o == NextStatement(r).obj
           place == <<file[r], line[r] + 1>>
<1>1. /\ OnlyRun(r) /\ UNCHANGED <<disk, history, missed, phase, todo, unit, file, seen, overlapped>>
      /\ phase[r] = "sql" /\ ~LockedFor(r, o)
      /\ sent'[r] = sent[r] \cup {place} /\ line'[r] = line[r] + 1 /\ line[r] \in Nat
  BY DEF ExecuteStatement, OnlyRun, RunState, target, observed, IInv, TypeOK
<1>2. /\ InTransaction(r) => DOMAIN view'[r] = DOMAIN view[r] \cup {o}
      /\ ~InTransaction(r) => view' = view
  BY DEF ExecuteStatement, IInv, TypeOK
<1>3. Statement(place).obj = o
  BY DEF Statement, NextStatement
<1>4. \A p \in Runner : Active(p)' => Active(p)
  BY <1>1 DEF Active
<1>5. InTransaction(r)' <=> InTransaction(r)
  BY <1>1 DEF InTransaction
<1>6. ViewOK(r)'
  <2>1. \A p \in sent'[r] : FileBefore(p[1], file[r]) \/ (p[1] = file[r] /\ p[2] <= line'[r])
    <3>1. ASSUME NEW p \in sent[r], p[2] <= line[r] PROVE p[2] <= line'[r]
      <4>1. p[2] \in Nat
        BY LineFacts DEF IInv, TypeOK
      <4> QED
        BY <1>1, <3>1, <4>1
    <3> QED
      BY <1>1, <3>1 DEF RunsApart, ViewOK
  <2>2. ~InTransaction(r)' => view'[r] = EmptyView
    BY <1>2, <1>5 DEF RunsApart, ViewOK
  <2>3. InTransaction(r)' => \A p \in sent'[r] : Statement(p).obj \in DOMAIN view'[r]
    <3> HIDE DEF place, o
    <3> QED
      BY <1>1, <1>2, <1>3, <1>5 DEF RunsApart, ViewOK
  <2> QED
    BY <1>1, <2>1, <2>2, <2>3 DEF ViewOK
<1>7. RunApart(r)'
  <2>1. SeenOK(r) /\ AloneOK(r)
    BY DEF RunsApart
  <2>2. SeenOK(r)'
    BY <1>1, <1>4, <2>1, SeenKept
  <2>3. AloneOK(r)'
    BY <1>1, <1>4, <2>1, AloneKept
  <2> QED
    BY <1>1, <1>4, <1>6, <2>2, <2>3 DEF RunApart, RunsApart
<1>8. ASSUME NEW q \in Runner \ {r} PROVE RunApart(q)'
  BY <1>1, <1>4, BystanderApart DEF RunsApart, RunApart, OnlyRun
<1>9. ViewsDisjoint'
  <2>1. \A q \in Runner \ {r} : view'[q] = view[q] /\ o \notin DOMAIN view[q]
    BY <1>1 DEF OnlyRun, LockedFor
  <2> QED
    BY <1>2, <2>1 DEF RunsApart, ViewsDisjoint
<1> QED
  BY <1>1, <1>7, <1>8, <1>9 DEF RunsApart, RunApart, Beginnings

\* CommitUnit and RecordUnit: the unit is recorded and leaves the list.
LEMMA AppliedApart ==
  ASSUME IInv, RunsApart, NEW r \in Runner, phase[r] = "record", UnitApplied(r),
         UNCHANGED <<disk, seen, overlapped>>, Recorded(r)
  PROVE  RunsApart'
<1>1. /\ OnlyRun(r) /\ phase'[r] = "ready" /\ view'[r] = EmptyView
      /\ todo'[r] = {f \in todo[r] : f.version # unit[r]}
      /\ history' = history \cup {unit[r]}
  BY DEF UnitApplied, LeaveUnit, Recorded, OnlyRun, RunState, IInv, TypeOK
<1>2. Active(r) /\ phase[r] \in UnitPhases /\ phase'[r] \notin UnitPhases
  BY <1>1 DEF Active, IdlePhases, UnitPhases
<1>3. \A p \in Runner : Active(p)' => Active(p)
  BY <1>1, <1>2 DEF OnlyRun, RunState, Active
<1>4. SeenOK(r) /\ AloneOK(r)
  BY DEF RunsApart
<1>5. SeenOK(r)'
  <2>1. \A f \in todo'[r], g \in seen[r] : f.version <= g.version => g \in todo'[r]
    <3> SUFFICES ASSUME NEW f \in todo[r], NEW g \in seen[r], f.version # unit[r],
                        f.version <= g.version
                 PROVE  g \in todo[r] /\ g.version # unit[r]
      BY <1>1
    <3>1. g \in todo[r]
      BY <1>4 DEF SeenOK
    <3>2. unit[r] <= f.version
      BY <1>2 DEF IInv, UnitOK, OldestVersion, VersionsOf
    <3>3. f.version \in Nat /\ g.version \in Nat /\ unit[r] \in Nat
      <4>1. unit[r] \in Versions /\ f \in File /\ g \in File
        BY <1>2, <3>1, CurrentFile DEF IInv, TypeOK
      <4> QED
        BY <4>1, FileAssumption DEF Versions
    <3> QED
      BY <3>1, <3>2, <3>3
  <2>2. \A f \in seen[r] \ todo'[r] : f.version \in history'
    BY <1>1, <1>2, <1>4 DEF SeenOK
  <2> QED
    BY <1>1, <1>4, <2>1, <2>2 DEF SeenOK
<1>6. ViewOK(r)'
  BY <1>1, <1>2, OutOfUnit
<1>7. AloneOK(r)'
  <2> SUFFICES ASSUME ~overlapped[r], missed' = {}
               PROVE  Applied(disk, history') \subseteq seen[r] \ todo'[r]
    BY <1>2, <1>3, <1>4 DEF AloneOK, OnlyRun
  <2>1. Applied(disk, history) \subseteq seen[r] \ todo[r]
    BY <1>1, <1>2, <1>4 DEF AloneOK, OnlyRun
  <2>2. CASE unit[r] \in history
    BY <1>1, <2>1, <2>2 DEF Applied
  <2>3. CASE unit[r] \notin history
    <3>1. UnitFiles(disk, unit[r]) \subseteq seen[r]
      BY <2>3 DEF Recorded
    <3> QED
      BY <1>1, <2>1, <3>1 DEF Applied, UnitFiles
  <2> QED
    BY <2>2, <2>3
<1>8. ASSUME NEW q \in Runner \ {r} PROVE RunApart(q)'
  <2>1. RunApart(q) /\ (Active(q) => overlapped[q])
    BY <1>2 DEF RunsApart, RunApart, AloneOK
  <2> QED
    BY <1>1, <1>3, <2>1, BystanderApart DEF OnlyRun
<1>9. DOMAIN view'[r] = {}
  BY <1>1 DEF EmptyView
<1> QED
  BY <1>1, <1>2, <1>5, <1>6, <1>7, <1>9, ApartKept DEF RunApart

\* The error paths, with or without the commit that went before.
LEMMA AbandonApart ==
  ASSUME IInv, RunsApart, NEW r \in Runner, Active(r), Abandon(r),
         UNCHANGED <<disk, seen, overlapped>>,
         history \subseteq history', missed \subseteq missed'
  PROVE  RunsApart'
<1>1. OnlyRun(r) /\ phase'[r] = "failed" /\ view'[r] = EmptyView /\ todo'[r] = {}
  BY DEF Abandon, LeaveUnit, OnlyRun, RunState, IInv, TypeOK
<1>2. ~Active(r)' /\ phase'[r] \notin UnitPhases
  BY <1>1 DEF Active, IdlePhases, UnitPhases
<1>3. SeenOK(r)' /\ ViewOK(r)' /\ AloneOK(r)'
  <2>1. SeenOK(r)
    BY DEF RunsApart
  <2> QED
    BY <1>1, <1>2, <2>1, SeenKept, OutOfUnit DEF AloneOK
<1>4. DOMAIN view'[r] = {}
  BY <1>1 DEF EmptyView
<1> QED
  BY <1>1, <1>3, <1>4, ApartKept DEF RunApart

\* What a run knows does not change when a file is written.
LEMMA NewFileApart ==
  ASSUME IInv, RunsApart, Beginnings(disk'),
         UNCHANGED <<history, phase, todo, unitVars, observed>>,
         missed' = {} => missed = {} /\ Applied(disk', history') = Applied(disk, history)
  PROVE  RunsApart'
<1>1. ASSUME NEW r \in Runner PROVE RunApart(r)'
  <2>1. SeenOK(r)'
    <3>1. Active(r)' <=> Active(r)
      BY DEF Active
    <3>2. UNCHANGED <<seen, todo, history>> /\ SeenOK(r)
      BY DEF RunsApart, observed
    <3> QED
      BY <3>1, <3>2, SeenKept
  <2>2. ViewOK(r)'
    BY DEF RunsApart, ViewOK, InTransaction, unitVars
  <2>3. AloneOK(r)'
    BY DEF RunsApart, AloneOK, Active, observed
  <2> QED
    BY <2>1, <2>2, <2>3 DEF RunApart
<1>2. ViewsDisjoint'
  BY DEF RunsApart, ViewsDisjoint, unitVars
<1> QED
  BY <1>1, <1>2 DEF RunsApart, RunApart

LEMMA WriteMigrationApart ==
  ASSUME IInv, RunsApart, WriteMigration
  PROVE  RunsApart' /\ Applied(disk', history') = Applied(disk, history)
<1>1. PICK v \in Versions \ VersionsOf(disk), n \in File :
        /\ \A g \in disk : g.version < v
        /\ \A w \in Versions : w < v => w \in VersionsOf(disk)
        /\ FirstOf(n, UnitFiles(File, v))
        /\ disk' = disk \cup {n}
  BY DEF WriteMigration
<1>2. UNCHANGED <<history, missed, phase, todo, unitVars, observed>>
  BY DEF WriteMigration, target
<1>3. v \notin history /\ n.version = v
  BY <1>1 DEF IInv, OnDisk, FirstOf, UnitFiles
<1>4. Applied(disk', history') = Applied(disk, history)
  BY <1>1, <1>2, <1>3 DEF Applied
<1>5. Beginnings(disk')
  <2> SUFFICES ASSUME NEW f \in disk', NEW g \in File
               PROVE  /\ g.version < f.version => g.version \in VersionsOf(disk')
                      /\ g.version = f.version /\ FileBefore(g, f) => g \in disk'
    BY DEF Beginnings
  <2>1. CASE f \in disk
    BY <1>1, <2>1 DEF RunsApart, Beginnings, VersionsOf
  <2>2. CASE f = n
    <3>1. g.version < v => g.version \in VersionsOf(disk')
      BY <1>1 DEF Versions, VersionsOf
    <3>2. ~(g.version = v /\ FileBefore(g, n))
      <4> SUFFICES ASSUME g.version = v, FileBefore(g, n) PROVE FALSE
        OBVIOUS
      <4>1. g = n \/ FileBefore(n, g)
        BY <1>1 DEF FirstOf, UnitFiles
      <4> QED
        BY <1>1, <1>3, <4>1, FileOrderTotal
    <3> QED
      BY <1>3, <2>2, <3>1, <3>2
  <2> QED
    BY <1>1, <2>1, <2>2
<1> QED
  BY <1>2, <1>4, <1>5, NewFileApart

LEMMA WriteCompanionApart ==
  ASSUME IInv, RunsApart, WriteCompanion
  PROVE  /\ RunsApart'
         /\ missed \subseteq missed'
         /\ missed' = {} => Applied(disk', history') = Applied(disk, history)
<1>1. PICK n \in File \ disk :
        /\ n.version \in VersionsOf(disk)
        /\ FirstOf(n, UnitFiles(File \ disk, n.version))
        /\ disk' = disk \cup {n}
        /\ missed' = IF n.version \in history THEN missed \cup {n} ELSE missed
  BY DEF WriteCompanion
<1>2. UNCHANGED <<history, phase, todo, unitVars, observed>>
  BY DEF WriteCompanion
<1>3. missed' = {} => Applied(disk', history') = Applied(disk, history)
  BY <1>1, <1>2 DEF Applied
<1>4. Beginnings(disk')
  <2> SUFFICES ASSUME NEW f \in disk', NEW g \in File
               PROVE  /\ g.version < f.version => g.version \in VersionsOf(disk')
                      /\ g.version = f.version /\ FileBefore(g, f) => g \in disk'
    BY DEF Beginnings
  <2>1. CASE f \in disk
    BY <1>1, <2>1 DEF RunsApart, Beginnings, VersionsOf
  <2>2. CASE f = n
    <3>1. PICK h \in disk : h.version = n.version
      BY <1>1 DEF VersionsOf
    <3>2. g.version < n.version => g.version \in VersionsOf(disk')
      BY <1>1, <3>1 DEF RunsApart, Beginnings, VersionsOf
    <3>3. g.version = n.version /\ FileBefore(g, n) => g \in disk
      <4> SUFFICES ASSUME g.version = n.version, FileBefore(g, n), g \notin disk PROVE FALSE
        OBVIOUS
      <4>1. g = n \/ FileBefore(n, g)
        BY <1>1 DEF FirstOf, UnitFiles
      <4> QED
        BY <1>1, <4>1, FileOrderTotal
    <3> QED
      BY <1>1, <2>2, <3>2, <3>3
  <2> QED
    BY <1>1, <2>1, <2>2
<1> QED
  BY <1>1, <1>2, <1>3, <1>4, NewFileApart

LEMMA InitApart == Init => RunsApart
<1> SUFFICES ASSUME Init PROVE RunsApart
  OBVIOUS
<1>1. \A r \in Runner : SeenOK(r) /\ ViewOK(r) /\ AloneOK(r)
  BY DEF Init, SeenOK, Beginnings, ViewOK, AloneOK, InTransaction, UnitPhases, Active, IdlePhases
<1>2. ViewsDisjoint
  BY DEF Init, ViewsDisjoint, EmptyView
<1> QED
  BY <1>1, <1>2 DEF Init, RunsApart

LEMMA NextApart ==
  ASSUME IInv, RunsApart, [Next]_vars
  PROVE  RunsApart'
<1>1. CASE WriteMigration
  BY <1>1, WriteMigrationApart
<1>1a. CASE WriteCompanion
  BY <1>1a, WriteCompanionApart
<1>2. ASSUME NEW r \in Runner, ReadStatus(r) PROVE RunsApart'
  BY <1>2, ReadStatusApart
<1>3. ASSUME NEW r \in Runner, Connect(r) \/ Finish(r) PROVE RunsApart'
  BY <1>3, OutsideApart
<1>4. ASSUME NEW r \in Runner, BeginUnit(r) PROVE RunsApart'
  BY <1>4, BeginUnitApart
<1>5. ASSUME NEW r \in Runner, ExecuteStatement(r) PROVE RunsApart'
  BY <1>5, ExecuteApart
<1>6. ASSUME NEW r \in Runner, NextUnitFile(r) PROVE RunsApart'
  BY <1>6, NextUnitFileApart
<1>7. ASSUME NEW r \in Runner, CommitUnit(r) \/ RecordUnit(r) PROVE RunsApart'
  BY <1>7, AppliedApart DEF CommitUnit, RecordUnit, Committed, observed
<1>8. ASSUME NEW r \in Runner, Fail(r) \/ LoseCommitAnswer(r) \/ DeadlockVictim(r)
      PROVE  RunsApart'
  <2>1. Active(r)
    BY <1>8 DEF Fail, LoseCommitAnswer, DeadlockVictim, WaitsFor, Active, IdlePhases
  <2>2. Abandon(r) /\ UNCHANGED <<disk, seen, overlapped>>
    BY <1>8 DEF Fail, LoseCommitAnswer, DeadlockVictim, observed
  <2>3. history \subseteq history' /\ missed \subseteq missed'
    BY <1>8 DEF Fail, LoseCommitAnswer, DeadlockVictim, Committed, Recorded, target
  <2> QED
    BY <2>1, <2>2, <2>3, AbandonApart
<1>9. CASE UNCHANGED vars
  <2>1. \A r \in Runner : SeenOK(r)' /\ ViewOK(r)' /\ AloneOK(r)'
    BY <1>9 DEF vars, target, unitVars, observed, RunsApart, SeenOK, ViewOK, AloneOK,
                InTransaction, Active, Applied
  <2>2. Beginnings(disk') /\ ViewsDisjoint'
    BY <1>9 DEF vars, unitVars, RunsApart, ViewsDisjoint
  <2> QED
    BY <2>1, <2>2 DEF RunsApart
<1> QED
  BY <1>1, <1>1a, <1>2, <1>3, <1>4, <1>5, <1>6, <1>7, <1>8, <1>9 DEF Next, Step

-----------------------------------------------------------------------------
(* What a run has passed is a beginning of the lines. *)

\* A run that need not stop short has seen all files before one that it has seen
\* and that everything older than which is recorded.
LEMMA EarlierSeen ==
  ASSUME IInv, RunsApart, Sane, NEW r \in Runner, Active(r), NEW f \in seen[r],
         \A h \in disk : h.version < f.version => h.version \in history,
         NEW g \in File,
         g.version < f.version \/ (g.version = f.version /\ FileBefore(g, f))
  PROVE  g \in seen[r]
<1>1. f \in disk /\ SeenOK(r) /\ AloneOK(r) /\ Beginnings(disk)
  BY DEF IInv, TodoOK, RunsApart
<1>2. CASE g.version = f.version /\ FileBefore(g, f)
  BY <1>1, <1>2 DEF SeenOK, Beginnings
<1>3. CASE g.version < f.version
  <2>1. PICK h \in disk : h.version = g.version
    BY <1>1, <1>3 DEF Beginnings, VersionsOf
  <2>2. g.version \in history
    BY <1>3, <2>1
  <2>3. g \in disk
    BY <1>1, <1>3, <2>2 DEF Sane, Whole, Hole
  <2>4. CASE overlapped[r]
    BY <2>3, <2>4 DEF Sane, StopsShort
  <2>5. CASE ~overlapped[r]
    BY <1>1, <2>2, <2>3, <2>5 DEF Sane, Whole, AloneOK, Applied
  <2> QED
    BY <2>4, <2>5
<1> QED
  BY <1>2, <1>3

\* A run has passed all lines before one of its unit's that it has got to.
LEMMA UnitEarlier ==
  ASSUME IInv, RunsApart, Sane, NEW r \in Runner, phase[r] \in UnitPhases,
         NEW p \in LinesOfAll(UnitFiles(todo[r], unit[r])),
         \/ phase[r] = "record"
         \/ FileBefore(p[1], file[r])
         \/ p[1] = file[r] /\ p[2] <= line[r] + 1,
         NEW q \in LinesOfAll(File), LineBefore(q, p)
  PROVE  q \in Sending(r)
<1> DEFINE files == UnitFiles(todo[r], unit[r])
<1>1. /\ todo[r] \subseteq seen[r] /\ seen[r] \subseteq disk /\ disk \subseteq File
      /\ files \subseteq File
  BY DEF IInv, TypeOK, TodoOK, UnitFiles
<1>2. /\ p[1] \in files /\ p[1] \in File /\ p[1].version \in Nat /\ p[2] \in Nat
      /\ q[1] \in File /\ q[1].version \in Nat /\ q[2] \in 1 .. Len(Sql[q[1]]) /\ q[2] \in Nat
      /\ q \in LinesOf(q[1]) /\ q = <<q[1], q[2]>>
  BY <1>1, LineFacts
<1>3. p[1] \in todo[r] /\ p[1] \in seen[r] /\ p[1].version = unit[r]
  BY <1>1, <1>2 DEF UnitFiles
<1>4. q[1].version <= p[1].version
  BY <1>2 DEF LineBefore
<1>5. q[1] \in seen[r]
  <2>1. Active(r)
    BY DEF Active, IdlePhases, UnitPhases
  <2>2. \A h \in disk : h.version < p[1].version => h.version \in history
    BY <1>3, UnitWhole
  <2>3. q[1] = p[1] \/ q[1].version < p[1].version
        \/ (q[1].version = p[1].version /\ FileBefore(q[1], p[1]))
    BY DEF LineBefore
  <2> QED
    BY <1>2, <1>3, <2>1, <2>2, <2>3, EarlierSeen
<1>6. CASE q[1].version # p[1].version
  <2>1. q[1] \notin todo[r]
    <3> SUFFICES ASSUME q[1] \in todo[r] PROVE FALSE
      OBVIOUS
    <3>1. unit[r] <= q[1].version
      BY DEF IInv, UnitOK, OldestVersion, VersionsOf
    <3> QED
      BY <1>2, <1>3, <1>4, <1>6, <3>1
  <2> QED
    BY <1>2, <1>5, <2>1 DEF Sending, LinesOfAll
<1>7. CASE q[1].version = p[1].version
  <2>1. q[1] \in todo[r]
    BY <1>2, <1>3, <1>5, <1>7 DEF RunsApart, SeenOK
  <2>2. q[1] \in files
    BY <1>3, <1>7, <2>1 DEF UnitFiles
  <2>3. SentOK(r)
    BY DEF IInv
  <2>4. CASE phase[r] = "record"
    BY <1>2, <2>2, <2>3, <2>4 DEF SentOK, Sending, LinesOfAll
  <2>5. CASE phase[r] = "sql"
    <3>1. FileBefore(q[1], p[1]) \/ (q[1] = p[1] /\ q[2] < p[2])
      BY <1>2, <1>7 DEF LineBefore
    <3>2. FileBefore(p[1], file[r]) \/ (p[1] = file[r] /\ p[2] <= line[r] + 1)
      BY <2>5
    <3>3. \A f, g, h \in File : FileBefore(f, g) /\ FileBefore(g, h) => FileBefore(f, h)
      <4>1. \A f \in File : f.name \in Nat /\ f.concurrent \in BOOLEAN
        BY FileAssumption
      <4> QED
        BY <4>1 DEF FileBefore
    <3>4. file[r] \in File /\ line[r] \in Nat
      BY CurrentFile DEF IInv, TypeOK
    <3>5. CASE FileBefore(q[1], file[r])
      <4>1. LinesOf(q[1]) \subseteq sent[r]
        BY <2>2, <2>3, <2>5, <3>5 DEF SentOK
      <4> QED
        BY <1>2, <4>1 DEF Sending
    <3>6. CASE q[1] = file[r] /\ q[2] < p[2] /\ p[2] <= line[r] + 1
      <4>1. q[2] \in 1 .. line[r]
        BY <1>2, <3>4, <3>6
      <4>2. <<file[r], q[2]>> \in sent[r]
        BY <2>3, <2>5, <4>1 DEF SentOK
      <4> QED
        BY <1>2, <3>6, <4>2 DEF Sending
    <3> QED
      BY <1>2, <3>1, <3>2, <3>3, <3>4, <3>5, <3>6
  <2> QED
    BY <2>4, <2>5 DEF UnitPhases
<1> QED
  BY <1>6, <1>7

\* What a run has passed is a beginning of the lines.
LEMMA PassedClosed ==
  ASSUME IInv, RunsApart, Sane, NEW r \in Runner, Active(r),
         NEW p \in LinesOfAll(File), NEW q \in LinesOfAll(File), LineBefore(q, p)
  PROVE  /\ p \in LinesOfAll(seen[r] \ todo[r]) => q \in LinesOfAll(seen[r] \ todo[r])
         /\ p \in Sending(r) => q \in Sending(r)
         /\ p \in Passed(r) => q \in Passed(r)
<1>1. p \in LinesOfAll(seen[r] \ todo[r]) => q \in LinesOfAll(seen[r] \ todo[r])
  <2> SUFFICES ASSUME p \in LinesOfAll(seen[r] \ todo[r])
               PROVE  q \in LinesOfAll(seen[r] \ todo[r])
    OBVIOUS
  <2>1. seen[r] \ todo[r] \subseteq File
    BY DEF IInv, TypeOK
  <2>2. /\ p[1] \in seen[r] \ todo[r] /\ p[1].version \in Nat
        /\ q[1] \in File /\ q[1].version \in Nat /\ q \in LinesOf(q[1])
    BY <2>1, LineFacts
  <2>3. q[1].version <= p[1].version
    BY <2>2 DEF LineBefore
  <2>4. SeenOK(r)
    BY DEF RunsApart
  <2>5. p[1] \in disk /\ p[1].version \in history
    BY <2>2, <2>4 DEF SeenOK, IInv, TodoOK
  <2>6. \A h \in disk : h.version < p[1].version => h.version \in history
    BY <2>5 DEF IInv, HistoryInOrder
  <2>7. q[1] = p[1] \/ q[1].version < p[1].version
        \/ (q[1].version = p[1].version /\ FileBefore(q[1], p[1]))
    BY DEF LineBefore
  <2>8. q[1] \in seen[r]
    BY <2>2, <2>6, <2>7, EarlierSeen
  <2>9. q[1] \notin todo[r]
    BY <2>2, <2>3, <2>4 DEF SeenOK
  <2> QED
    BY <2>2, <2>8, <2>9 DEF LinesOfAll
<1>2. p \in Sending(r) => q \in Sending(r)
  <2> SUFFICES ASSUME p \in sent[r] PROVE q \in Sending(r)
    BY <1>1 DEF Sending
  <2>1. SentOK(r) /\ ViewOK(r)
    BY DEF IInv, RunsApart
  <2>2. phase[r] \in UnitPhases
    BY <2>1 DEF SentOK
  <2>3. p \in LinesOfAll(UnitFiles(todo[r], unit[r]))
    BY <2>1, <2>2 DEF SentOK
  <2>4. phase[r] = "record" \/ FileBefore(p[1], file[r]) \/ (p[1] = file[r] /\ p[2] <= line[r] + 1)
    <3>1. line[r] \in Nat /\ p[2] \in Nat
      BY LineFacts DEF IInv, TypeOK
    <3> QED
      BY <2>1, <2>2, <3>1 DEF ViewOK, UnitPhases
  <2> QED
    BY <2>2, <2>3, <2>4, UnitEarlier
<1> QED
  BY <1>1, <1>2 DEF Passed, Sending

\* The line a run sends next: it has passed all before it and none after it.
LEMMA NextLine ==
  ASSUME IInv, RunsApart, Sane, NEW r \in Runner, ExecuteStatement(r)
  PROVE  LET place == <<file[r], line[r] + 1>>
         IN  /\ place \in LinesOfAll(File)
             /\ Statement(place) = NextStatement(r)
             /\ \A q \in LinesOfAll(File) : LineBefore(q, place) => q \in Sending(r)
             /\ \A q \in Sending(r) : ~LineBefore(place, q)
<1> DEFINE place == <<file[r], line[r] + 1>>
<1>1. place \in LinesOfAll(File) /\ Statement(place) = NextStatement(r) /\ place \in LinesOf(file[r])
  BY CurrentStatement DEF Statement, NextStatement
<1>2. phase[r] = "sql" /\ phase[r] \in UnitPhases
  BY DEF ExecuteStatement, UnitPhases
<1>3. /\ file[r] \in todo[r] /\ file[r].version = unit[r] /\ file[r] \in File
      /\ line[r] \in Nat /\ file[r].version \in Nat
  BY <1>2, CurrentFile, FileAssumption DEF IInv, TypeOK
<1>4. ASSUME NEW q \in LinesOfAll(File), LineBefore(q, place) PROVE q \in Sending(r)
  <2>1. place \in LinesOfAll(UnitFiles(todo[r], unit[r]))
    BY <1>1, <1>3 DEF LinesOfAll, UnitFiles
  <2>2. place[1] = file[r] /\ place[2] <= line[r] + 1
    BY <1>3
  <2> HIDE DEF place
  <2> QED
    BY <1>2, <1>4, <2>1, <2>2, UnitEarlier
<1>5. ASSUME NEW q \in Sending(r) PROVE ~LineBefore(place, q)
  <2>1. SeenOK(r) /\ ViewOK(r) /\ SentOK(r) /\ UnitOK(r)
    BY DEF IInv, RunsApart
  <2>2. CASE q \in LinesOfAll(seen[r] \ todo[r])
    <3>1. q[1] \in seen[r] \ todo[r] /\ q[1].version \in Nat
      <4>1. seen[r] \ todo[r] \subseteq File
        BY DEF IInv, TypeOK
      <4> QED
        BY <2>2, <4>1, LineFacts
    <3>2. ~(file[r].version <= q[1].version)
      BY <1>3, <2>1, <3>1 DEF SeenOK
    <3> QED
      BY <1>3, <3>1, <3>2 DEF LineBefore
  <2>3. CASE q \in sent[r]
    <3>1. q \in LinesOfAll(UnitFiles(todo[r], unit[r])) /\ UnitFiles(todo[r], unit[r]) \subseteq File
      BY <1>2, <2>1, <2>3 DEF SentOK, UnitFiles, IInv, TypeOK
    <3>2. q[1] \in UnitFiles(todo[r], unit[r]) /\ q[1] \in File /\ q[2] \in Nat
      BY <3>1, LineFacts
    <3>3. q[1].version = file[r].version
      BY <1>3, <3>2 DEF UnitFiles
    <3>4. FileBefore(q[1], file[r]) \/ (q[1] = file[r] /\ q[2] <= line[r])
      BY <1>2, <2>1, <2>3 DEF ViewOK
    <3>5. /\ ~FileBefore(file[r], file[r])
          /\ ~(FileBefore(file[r], q[1]) /\ FileBefore(q[1], file[r]))
      BY <1>3, <3>2, <3>3, FileOrderTotal
    <3> QED
      BY <1>3, <3>2, <3>3, <3>4, <3>5 DEF LineBefore
  <2> QED
    BY <2>2, <2>3 DEF Sending
<1> QED
  BY <1>1, <1>4, <1>5

\* The lines about the runs are lines of the files on disk.
LEMMA SendingOnDisk ==
  ASSUME IInv, RunsApart, NEW r \in Runner
  PROVE  /\ Passed(r) \subseteq Sending(r) /\ Sending(r) \subseteq LinesOfAll(disk)
         /\ Sending(r) \subseteq LinesOfAll(File)
         /\ Settled \subseteq LinesOfAll(File) /\ SettledFor(r) \subseteq Sending(r)
<1>1. Passed(r) \subseteq Sending(r)
  BY DEF Passed, Sending
<1>2. todo[r] \subseteq seen[r] /\ seen[r] \subseteq disk /\ disk \subseteq File
  BY DEF IInv, TypeOK, TodoOK
<1>3. LinesOfAll(seen[r] \ todo[r]) \subseteq LinesOfAll(disk)
  BY <1>2 DEF LinesOfAll
<1>4. sent[r] \subseteq LinesOfAll(disk)
  <2>1. SentOK(r)
    BY DEF IInv
  <2>2. LinesOfAll(UnitFiles(todo[r], unit[r])) \subseteq LinesOfAll(disk)
    BY <1>2 DEF UnitFiles, LinesOfAll
  <2> QED
    BY <2>1, <2>2 DEF SentOK
<1>5. LinesOfAll(disk) \subseteq LinesOfAll(File)
  BY <1>2 DEF LinesOfAll
<1>6. LinesOfAll(Applied(disk, history)) \subseteq LinesOfAll(File)
  BY <1>2 DEF LinesOfAll, Applied
<1> QED
  BY <1>1, <1>3, <1>4, <1>5, <1>6 DEF Sending, Settled, SettledFor

-----------------------------------------------------------------------------
(* What is left of each object, step by step. *)

\* The catalog and the transactions stay as they are, or end, and no line gets settled.
LEMMA LeftStays ==
  ASSUME SchemaOK, ViewsOK, UNCHANGED <<schema, executed>>, Settled' \subseteq Settled,
         \A q \in Runner : \/ view'[q] = EmptyView
                           \/ /\ UNCHANGED <<view[q], sent[q]>>
                              /\ \A o \in DOMAIN view[q] :
                                   SettledFor(q)' \cap About(o) \subseteq SettledFor(q)
  PROVE  SchemaOK' /\ ViewsOK'
<1>1. SchemaOK'
  <2> SUFFICES ASSUME NEW o \in Object PROVE LeftBy(schema[o], o, Settled', executed)
    BY DEF SchemaOK, LeftBy, About
  <2>1. LeftBy(schema[o], o, Settled, executed)
    BY DEF SchemaOK
  <2> QED
    BY <2>1, LeftByKept
<1>2. ViewsOK'
  <2> SUFFICES ASSUME NEW q \in Runner, NEW o \in DOMAIN view'[q]
               PROVE  LeftBy(view'[q][o], o, SettledFor(q)', executed \cup sent'[q])
    BY DEF ViewsOK, LeftBy, About
  <2>1. view'[q] # EmptyView
    BY DEF EmptyView
  <2>2. /\ UNCHANGED <<view[q], sent[q]>> /\ o \in DOMAIN view[q]
        /\ SettledFor(q)' \cap About(o) \subseteq SettledFor(q)
    BY <2>1
  <2>3. LeftBy(view[q][o], o, SettledFor(q), executed \cup sent[q])
    BY <2>2 DEF ViewsOK
  <2> QED
    BY <2>2, <2>3, LeftByKept
<1> QED
  BY <1>1, <1>2

\* Steps that leave what each run has passed, and who is in progress.
LEMMA PassedStays ==
  ASSUME IInv, RunsApart, SchemaOK, ViewsOK,
         UNCHANGED <<schema, executed, view, sent>>,
         Applied(disk, history)' = Applied(disk, history),
         \A q \in Runner : /\ Active(q)' <=> Active(q)
                           /\ Passed(q)' = Passed(q) /\ Sending(q)' = Sending(q)
  PROVE  SchemaOK' /\ ViewsOK'
<1>1. Settled' = Settled
  BY DEF Settled, Quiet
<1>2. \A q \in Runner : SettledFor(q)' = SettledFor(q)
  BY DEF SettledFor
<1> QED
  BY <1>1, <1>2, LeftStays

LEMMA WritesLeft ==
  ASSUME IInv, RunsApart, SchemaOK, ViewsOK, WriteMigration \/ WriteCompanion, missed' = {}
  PROVE  SchemaOK' /\ ViewsOK'
<1>1. UNCHANGED <<schema, executed, history, phase, todo, unit, sent, view, seen>>
  BY DEF WriteMigration, WriteCompanion, target, unitVars, observed
<1>2. Applied(disk, history)' = Applied(disk, history)
  BY WriteMigrationApart, WriteCompanionApart
<1>3. \A q \in Runner : /\ Active(q)' <=> Active(q)
                        /\ Passed(q)' = Passed(q) /\ Sending(q)' = Sending(q)
  BY <1>1 DEF Active, Passed, Sending, InTransaction
<1> QED
  BY <1>1, <1>2, <1>3, PassedStays

\* Connect, BeginUnit and NextUnitFile send nothing.
LEMMA NothingSentLeft ==
  ASSUME IInv, RunsApart, SchemaOK, ViewsOK, NEW r \in Runner,
         Connect(r) \/ BeginUnit(r) \/ NextUnitFile(r)
  PROVE  SchemaOK' /\ ViewsOK'
<1>1. /\ UNCHANGED <<schema, executed, history, disk, todo, sent, view, seen>>
      /\ \A q \in Runner \ {r} : phase'[q] = phase[q] /\ unit'[q] = unit[q]
      /\ phase[r] \notin IdlePhases /\ phase'[r] \notin IdlePhases
      /\ sent[r] = {} \/ ( /\ phase[r] \in UnitPhases /\ phase'[r] \in UnitPhases
                           /\ unit'[r] = unit[r])
  <2>1. CASE Connect(r)
    BY <2>1, NoView DEF Connect, target, unitVars, observed, IInv, TypeOK, IdlePhases, UnitPhases
  <2>2. CASE BeginUnit(r)
    BY <2>2, NoView DEF BeginUnit, target, observed, IInv, TypeOK, IdlePhases, UnitPhases
  <2>3. CASE NextUnitFile(r)
    BY <2>3 DEF NextUnitFile, target, observed, IInv, TypeOK, IdlePhases, UnitPhases
  <2> QED
    BY <2>1, <2>2, <2>3
<1>2. ASSUME NEW q \in Runner
      PROVE  /\ Active(q)' <=> Active(q)
             /\ Passed(q)' = Passed(q) /\ Sending(q)' = Sending(q)
  <2>1. sent[q] = {} \/ (InTransaction(q)' <=> InTransaction(q))
    BY <1>1 DEF InTransaction
  <2> QED
    BY <1>1, <2>1 DEF Active, Passed, Sending
<1>3. Applied(disk, history)' = Applied(disk, history)
  BY <1>1
<1> QED
  BY <1>1, <1>2, <1>3, PassedStays

LEMMA ReadStatusLeft ==
  ASSUME IInv, RunsApart, SchemaOK, ViewsOK, NEW r \in Runner, ReadStatus(r)
  PROVE  SchemaOK' /\ ViewsOK'
<1>1. /\ ~Active(r) /\ UNCHANGED <<disk, history, schema, executed, unit, file, line, sent, view>>
      /\ todo'[r] = Pending(disk, history) /\ seen'[r] = disk
      /\ \A q \in Runner \ {r} : UNCHANGED RunState(q)
      /\ phase'[r] \in {"refused", "done", "planned"}
  BY DEF ReadStatus, target, unitVars, RunState, IInv, TypeOK
<1>2. phase[r] \notin UnitPhases /\ phase'[r] \notin UnitPhases
  BY <1>1 DEF Active, IdlePhases, UnitPhases
<1>3. view[r] = EmptyView /\ sent[r] = {}
  BY <1>2, NoView
<1>4. ASSUME NEW q \in Runner \ {r}
      PROVE  (Active(q)' <=> Active(q)) /\ Passed(q)' = Passed(q) /\ Sending(q)' = Sending(q)
  BY <1>1 DEF RunState, Active, Passed, Sending, InTransaction
<1>5. Passed(r)' = LinesOfAll(Applied(disk, history))
  <2>1. seen'[r] \ todo'[r] = Applied(disk, history)
    BY <1>1 DEF Pending, Applied
  <2> QED
    BY <1>1, <1>3, <2>1 DEF Passed
<1>6. Settled' \subseteq Settled
  <2>1. CASE Active(r)'
    <3>1. ~Quiet'
      BY <2>1 DEF Quiet
    <3>2. Settled' = {p \in LinesOfAll(File) : \A q \in Runner : Active(q)' => p \in Passed(q)'}
      BY <3>1 DEF Settled
    <3>3. CASE Quiet
      BY <1>5, <2>1, <3>2, <3>3 DEF Settled
    <3>4. CASE ~Quiet
      BY <1>1, <1>4, <3>2, <3>4 DEF Settled
    <3> QED
      BY <3>3, <3>4
  <2>2. CASE ~Active(r)'
    <3>1. \A q \in Runner : (Active(q)' <=> Active(q)) /\ (Active(q) => Passed(q)' = Passed(q))
      BY <1>1, <1>4, <2>2
    <3>2. Quiet' <=> Quiet
      BY <3>1 DEF Quiet
    <3> QED
      BY <1>1, <3>1, <3>2 DEF Settled
  <2> QED
    BY <2>1, <2>2
<1>7. ASSUME NEW q \in Runner \ {r} PROVE SettledFor(q)' \subseteq SettledFor(q)
  BY <1>1, <1>4 DEF SettledFor
<1>8. \A q \in Runner : \/ view'[q] = EmptyView
                        \/ /\ UNCHANGED <<view[q], sent[q]>>
                           /\ \A o \in DOMAIN view[q] :
                                SettledFor(q)' \cap About(o) \subseteq SettledFor(q)
  BY <1>1, <1>3, <1>7
<1> QED
  BY <1>1, <1>6, <1>8, LeftStays

\* A run leaves that has passed what the others have, or what is recorded if there are none.
LEMMA RunEndsLeft ==
  ASSUME IInv, RunsApart, SchemaOK, ViewsOK, NEW r \in Runner, Active(r), ~Active(r)',
         UNCHANGED <<disk, history, schema, executed>>,
         \A q \in Runner \ {r} : UNCHANGED <<RunState(q), view[q]>>,
         view'[r] = EmptyView, missed = {},
         ~overlapped[r] \/ LinesOfAll(disk) \subseteq Passed(r)
  PROVE  SchemaOK' /\ ViewsOK'
<1>1. ASSUME NEW q \in Runner \ {r}
      PROVE  (Active(q)' <=> Active(q)) /\ Passed(q)' = Passed(q) /\ Sending(q)' = Sending(q)
  BY DEF RunState, Active, Passed, Sending, InTransaction
<1>2. AloneOK(r)
  BY DEF RunsApart
<1>3. ASSUME NEW q \in Runner \ {r}, Active(q)
      PROVE  Sending(q) \subseteq Passed(r) /\ Passed(q) \subseteq Passed(r)
  <2>1. overlapped[r]
    BY <1>2, <1>3 DEF AloneOK
  <2> QED
    BY <2>1, SendingOnDisk
<1>4. LinesOfAll(Applied(disk, history)) \subseteq Passed(r)
  <2>1. Applied(disk, history) \subseteq disk
    BY DEF Applied
  <2>2. CASE overlapped[r]
    BY <2>1, <2>2 DEF LinesOfAll
  <2>3. CASE ~overlapped[r]
    BY <1>2, <2>3 DEF AloneOK, Passed, LinesOfAll
  <2> QED
    BY <2>2, <2>3
<1>5. Settled = {p \in LinesOfAll(File) : \A q \in Runner : Active(q) => p \in Passed(q)}
  BY DEF Settled, Quiet
<1>6. Settled' \subseteq Settled
  <2>1. CASE Quiet'
    <3>1. \A q \in Runner \ {r} : ~Active(q)
      BY <1>1, <2>1 DEF Quiet
    <3>2. Settled' = LinesOfAll(Applied(disk, history))
      BY <2>1 DEF Settled
    <3>3. Passed(r) \subseteq LinesOfAll(File)
      BY SendingOnDisk
    <3> QED
      BY <1>4, <1>5, <3>1, <3>2, <3>3
  <2>2. CASE ~Quiet'
    <3>1. PICK q \in Runner \ {r} : Active(q)
      BY <1>1, <2>2 DEF Quiet
    <3>2. Settled' = {p \in LinesOfAll(File) : \A s \in Runner : Active(s)' => p \in Passed(s)'}
      BY <2>2 DEF Settled
    <3>3. ASSUME NEW p \in Settled', NEW s \in Runner, Active(s) PROVE p \in Passed(s)
      <4>1. p \in Passed(q)
        BY <1>1, <3>1, <3>2, <3>3
      <4>2. CASE s = r
        BY <1>3, <3>1, <4>1, <4>2
      <4>3. CASE s # r
        BY <1>1, <3>2, <3>3, <4>3
      <4> QED
        BY <4>2, <4>3
    <3> QED
      BY <1>5, <3>2, <3>3
  <2> QED
    BY <2>1, <2>2
<1>7. ASSUME NEW q \in Runner \ {r}, NEW o \in DOMAIN view[q]
      PROVE  SettledFor(q)' \subseteq SettledFor(q)
  <2>1. Active(q)
    <3>1. InTransaction(q)
      BY <1>7 DEF RunsApart, ViewOK, EmptyView
    <3> QED
      BY <3>1 DEF InTransaction, Active, UnitPhases, IdlePhases
  <2> QED
    BY <1>1, <1>3, <2>1 DEF SettledFor
<1>8. \A q \in Runner : \/ view'[q] = EmptyView
                        \/ /\ UNCHANGED <<view[q], sent[q]>>
                           /\ \A o \in DOMAIN view[q] :
                                SettledFor(q)' \cap About(o) \subseteq SettledFor(q)
  BY <1>7 DEF RunState
<1> QED
  BY <1>6, <1>8, LeftStays

LEMMA FinishLeft ==
  ASSUME IInv, RunsApart, SchemaOK, ViewsOK, NEW r \in Runner, Finish(r), Sane, ~spoiled'
  PROVE  SchemaOK' /\ ViewsOK'
<1>1. /\ UNCHANGED <<disk, history, schema, executed>> /\ view'[r] = view[r]
      /\ \A q \in Runner \ {r} : UNCHANGED <<RunState(q), view[q]>>
      /\ phase[r] = "ready" /\ phase'[r] = "done" /\ todo[r] = {}
      /\ ~overlapped[r] \/ disk \subseteq seen[r]
  BY DEF Finish, StopsShort, target, unitVars, observed, RunState, IInv, TypeOK
<1>2. Active(r) /\ ~Active(r)' /\ phase[r] \notin UnitPhases
  BY <1>1 DEF Active, IdlePhases, UnitPhases
<1>3. disk \subseteq seen[r] => LinesOfAll(disk) \subseteq Passed(r)
  BY <1>1 DEF Passed, LinesOfAll
<1>4. view[r] = EmptyView
  BY <1>2, NoView
<1> QED
  BY <1>1, <1>2, <1>3, <1>4, RunEndsLeft DEF Sane, Whole

LEMMA AbandonLeft ==
  ASSUME IInv, RunsApart, SchemaOK, ViewsOK, NEW r \in Runner, Fail(r), Sane, ~spoiled'
  PROVE  SchemaOK' /\ ViewsOK'
<1>1. /\ UNCHANGED <<disk, history, schema, executed>> /\ view'[r] = EmptyView
      /\ \A q \in Runner \ {r} : UNCHANGED <<RunState(q), view[q]>>
      /\ Active(r) /\ phase'[r] = "failed" /\ ~overlapped[r]
  BY DEF Fail, Abandon, LeaveUnit, target, observed, RunState, IInv, TypeOK
<1>2. ~Active(r)'
  BY <1>1 DEF Active, IdlePhases
<1> QED
  BY <1>1, <1>2, RunEndsLeft DEF Sane, Whole

\* Two transactions that wait for each other belong to runs that overlap.
LEMMA DeadlockSpoils ==
  ASSUME RunsApart, NEW r \in Runner, DeadlockVictim(r)
  PROVE  spoiled'
<1>1. PICK q \in Runner : WaitsFor(r, q) /\ WaitsFor(q, r)
  BY DEF DeadlockVictim
<1>2. q # r /\ Active(r) /\ Active(q)
  BY <1>1 DEF WaitsFor, Active, IdlePhases
<1>3. overlapped[r]
  BY <1>2 DEF RunsApart, AloneOK
<1> QED
  BY <1>3 DEF DeadlockVictim, Abandon

\* A statement that takes effect at once.
LEMMA ExecuteAtOnceLeft ==
  ASSUME IInv, RunsApart, Sane, SchemaOK, ViewsOK, NEW r \in Runner, ExecuteStatement(r),
         ~InTransaction(r)
  PROVE  SchemaOK' /\ ViewsOK'
<1> DEFINE place == <<file[r], line[r] + 1>>
           obj == Statement(place).obj
<1>1. /\ place \in LinesOfAll(File) /\ Statement(place) = NextStatement(r)
      /\ \A q \in LinesOfAll(File) : LineBefore(q, place) => q \in Sending(r)
      /\ \A q \in Sending(r) : ~LineBefore(place, q)
  BY NextLine
<1>2. obj \in Object
  BY <1>1, CurrentStatement
<1>3. view[r] = EmptyView
  BY DEF RunsApart, ViewOK
<1>4. Seen(r, obj) = schema[obj]
  BY <1>3 DEF Seen, EmptyView
<1> HIDE DEF place
<1>5. /\ UNCHANGED <<disk, history, phase, todo, unit, seen, view>>
      /\ sent' = [sent EXCEPT ![r] = @ \cup {place}]
      /\ schema' = [schema EXCEPT ![obj] = Effect(Statement(place), schema[obj])]
      /\ executed' = executed \cup {place}
      /\ phase[r] = "sql" /\ ~LockedFor(r, obj)
  BY <1>1, <1>4 DEF ExecuteStatement, observed, place
<1>6. /\ sent \in [Runner -> SUBSET LinesOfAll(File)] /\ schema \in [Object -> Value]
  BY DEF IInv, TypeOK
<1>7. Active(r) /\ \A q \in Runner : (Active(q)' <=> Active(q)) /\ (InTransaction(q)' <=> InTransaction(q))
  BY <1>5 DEF Active, IdlePhases, InTransaction
<1>8. \A q \in Runner \ {r} : Passed(q)' = Passed(q) /\ Sending(q)' = Sending(q)
  BY <1>5, <1>6, <1>7 DEF Passed, Sending
<1>9. Passed(r) = Sending(r) /\ Passed(r)' = Passed(r) \cup {place}
  BY <1>5, <1>6, <1>7 DEF Passed, Sending
<1>10. /\ Settled = {p \in LinesOfAll(File) : \A q \in Runner : Active(q) => p \in Passed(q)}
       /\ Settled' = {p \in LinesOfAll(File) : \A q \in Runner : Active(q)' => p \in Passed(q)'}
  BY <1>7 DEF Settled, Quiet
<1>11. Settled' \subseteq Settled \cup {place} /\ Settled \subseteq Sending(r)
  BY <1>7, <1>8, <1>9, <1>10
<1>12. place \in Settled' => \A q \in LinesOfAll(File) : LineBefore(q, place) => q \in Settled
  <2> SUFFICES ASSUME place \in Settled', NEW q \in LinesOfAll(File), LineBefore(q, place),
                      NEW s \in Runner, Active(s)
               PROVE  q \in Passed(s)
    BY <1>10
  <2>1. CASE s = r
    BY <1>1, <1>9, <2>1
  <2>2. CASE s # r
    <3>1. place \in Passed(s)
      BY <1>7, <1>8, <1>10, <2>2
    <3>2. place \in Passed(s) => q \in Passed(s)
      BY <1>1, PassedClosed
    <3> QED
      BY <3>1, <3>2
  <2> QED
    BY <2>1, <2>2
<1>13. SchemaOK'
  <2> SUFFICES ASSUME NEW o \in Object PROVE LeftBy(schema'[o], o, Settled', executed')
    BY DEF SchemaOK, LeftBy, About
  <2>1. LeftBy(schema[o], o, Settled, executed)
    BY DEF SchemaOK
  <2>2. CASE o = obj
    <3>1. schema'[o] = Effect(Statement(place), schema[o])
      BY <1>2, <1>5, <1>6, <2>2
    <3>2. \A q \in Settled \cap About(obj) : ~LineBefore(place, q)
      BY <1>1, <1>11
    <3>3. executed \cup {place} \subseteq executed'
      BY <1>5
    <3>4. Settled' \cap About(obj) \subseteq Settled \cup {place}
      BY <1>11
    <3>5. LeftBy(Effect(Statement(place), schema[o]), o, Settled', executed')
      BY <1>1, <1>12, <2>1, <2>2, <3>2, <3>3, <3>4, LeftByNext
    <3> QED
      BY <3>1, <3>5
  <2>3. CASE o # obj
    <3>1. schema'[o] = schema[o]
      BY <1>5, <1>6, <2>3
    <3>2. Settled' \cap About(o) \subseteq Settled
      BY <1>11, <2>3 DEF About
    <3> QED
      BY <1>5, <2>1, <3>1, <3>2, LeftByKept
  <2> QED
    BY <2>2, <2>3
<1>14. ViewsOK'
  <2> SUFFICES ASSUME NEW q \in Runner, NEW o \in DOMAIN view[q]
               PROVE  LeftBy(view[q][o], o, SettledFor(q)', executed' \cup sent'[q])
    BY <1>5 DEF ViewsOK, LeftBy, About
  <2>1. q # r /\ o # obj
    BY <1>3, <1>5 DEF EmptyView, LockedFor
  <2>2. LeftBy(view[q][o], o, SettledFor(q), executed \cup sent[q])
    BY DEF ViewsOK
  <2>3. SettledFor(q)' \subseteq SettledFor(q) \cup {place}
    BY <1>7, <1>8, <1>9, <2>1 DEF SettledFor
  <2>4. SettledFor(q)' \cap About(o) \subseteq SettledFor(q)
    BY <2>1, <2>3 DEF About
  <2>5. executed \cup sent[q] \subseteq executed' \cup sent'[q]
    BY <1>5, <1>6, <2>1
  <2> QED
    BY <2>2, <2>4, <2>5, LeftByKept
<1> QED
  BY <1>13, <1>14

\* A statement inside a transaction.
LEMMA ExecuteInsideLeft ==
  ASSUME IInv, RunsApart, Sane, SchemaOK, ViewsOK, NEW r \in Runner, ExecuteStatement(r),
         InTransaction(r)
  PROVE  SchemaOK' /\ ViewsOK'
<1> DEFINE place == <<file[r], line[r] + 1>>
           obj == Statement(place).obj
<1>1. /\ place \in LinesOfAll(File) /\ Statement(place) = NextStatement(r)
      /\ \A q \in LinesOfAll(File) : LineBefore(q, place) => q \in Sending(r)
      /\ \A q \in Sending(r) : ~LineBefore(place, q)
  BY NextLine
<1>2. obj \in Object
  BY <1>1, CurrentStatement
<1> HIDE DEF place
<1>3. /\ UNCHANGED <<disk, history, phase, todo, unit, seen, schema, executed>>
      /\ sent' = [sent EXCEPT ![r] = @ \cup {place}]
      /\ view' = [view EXCEPT ![r] = [o \in DOMAIN view[r] \cup {obj} |->
                    IF o = obj THEN Effect(Statement(place), Seen(r, obj)) ELSE view[r][o]]]
      /\ phase[r] = "sql"
  BY <1>1 DEF ExecuteStatement, observed, place
<1>4. sent \in [Runner -> SUBSET LinesOfAll(File)] /\ view \in [Runner -> View]
  BY DEF IInv, TypeOK
<1>5. Active(r) /\ \A q \in Runner : (Active(q)' <=> Active(q)) /\ (InTransaction(q)' <=> InTransaction(q))
  BY <1>3 DEF Active, IdlePhases, InTransaction
<1>6. \A q \in Runner : Passed(q)' = Passed(q) /\ (q # r => Sending(q)' = Sending(q))
  BY <1>3, <1>4, <1>5 DEF Passed, Sending
<1>7. Sending(r)' = Sending(r) \cup {place}
  BY <1>3, <1>4 DEF Sending
<1>8. Settled' = Settled
  BY <1>3, <1>5, <1>6 DEF Settled, Quiet
<1>9. SchemaOK'
  BY <1>3, <1>8 DEF SchemaOK, LeftBy, About
<1>10. SettledFor(r)' \subseteq SettledFor(r) \cup {place}
  BY <1>5, <1>6, <1>7 DEF SettledFor
<1>11. place \in SettledFor(r)' =>
         \A q \in LinesOfAll(File) : LineBefore(q, place) => q \in SettledFor(r)
  <2> SUFFICES ASSUME place \in SettledFor(r)', NEW q \in LinesOfAll(File), LineBefore(q, place)
               PROVE  q \in SettledFor(r)
    OBVIOUS
  <2>1. q \in Sending(r)
    BY <1>1
  <2>2. ASSUME NEW s \in Runner \ {r}, Active(s) PROVE q \in Passed(s)
    <3>1. place \in Passed(s)
      BY <1>5, <1>6, <2>2 DEF SettledFor
    <3>2. place \in Passed(s) => q \in Passed(s)
      BY <1>1, <2>2, PassedClosed
    <3> QED
      BY <3>1, <3>2
  <2> QED
    BY <2>1, <2>2 DEF SettledFor
<1>12. LeftBy(Seen(r, obj), obj, SettledFor(r), executed \cup sent[r])
  <2>1. CASE obj \in DOMAIN view[r]
    BY <2>1 DEF ViewsOK, Seen
  <2>2. CASE obj \notin DOMAIN view[r]
    <3>1. Seen(r, obj) = schema[obj] /\ LeftBy(schema[obj], obj, Settled, executed)
      BY <1>2, <2>2 DEF SchemaOK, Seen
    <3>2. SettledFor(r) \cap About(obj) \subseteq Settled
      <4> SUFFICES ASSUME NEW p \in SettledFor(r), p \in About(obj) PROVE p \in Settled
        OBVIOUS
      <4>1. p \notin sent[r]
        BY <2>2 DEF RunsApart, ViewOK, About
      <4>2. p \in Passed(r)
        BY <4>1 DEF SettledFor, Sending, Passed
      <4>3. p \in LinesOfAll(File)
        BY DEF About
      <4> QED
        BY <1>5, <4>2, <4>3 DEF Settled, SettledFor, Quiet
    <3> QED
      BY <3>1, <3>2, LeftByKept
  <2> QED
    BY <2>1, <2>2
<1>13. \A q \in SettledFor(r) \cap About(obj) : ~LineBefore(place, q)
  BY <1>1 DEF SettledFor
<1>14. ASSUME NEW o \in DOMAIN view'[r]
       PROVE  LeftBy(view'[r][o], o, SettledFor(r)', executed' \cup sent'[r])
  <2>1. /\ DOMAIN view'[r] = DOMAIN view[r] \cup {obj}
        /\ view'[r][o] = IF o = obj THEN Effect(Statement(place), Seen(r, obj)) ELSE view[r][o]
    BY <1>3, <1>4
  <2>2. executed' \cup sent'[r] = (executed \cup sent[r]) \cup {place}
    BY <1>3, <1>4
  <2>3. CASE o = obj
    <3>1. SettledFor(r)' \cap About(obj) \subseteq SettledFor(r) \cup {place}
      BY <1>10
    <3>2. (executed \cup sent[r]) \cup {place} \subseteq executed' \cup sent'[r]
      BY <2>2
    <3>3. LeftBy(Effect(Statement(place), Seen(r, obj)), obj, SettledFor(r)', executed' \cup sent'[r])
      BY <1>1, <1>11, <1>12, <1>13, <3>1, <3>2, LeftByNext
    <3> QED
      BY <2>1, <2>3, <3>3
  <2>4. CASE o # obj
    <3>1. o \in DOMAIN view[r] /\ view'[r][o] = view[r][o]
      BY <2>1, <2>4
    <3>2. LeftBy(view[r][o], o, SettledFor(r), executed \cup sent[r])
      BY <3>1 DEF ViewsOK
    <3>3. SettledFor(r)' \cap About(o) \subseteq SettledFor(r)
      BY <1>10, <2>4 DEF About
    <3>4. executed \cup sent[r] \subseteq executed' \cup sent'[r]
      BY <2>2
    <3> QED
      BY <3>1, <3>2, <3>3, <3>4, LeftByKept
  <2> QED
    BY <2>3, <2>4
<1>15. ViewsOK'
  <2> SUFFICES ASSUME NEW q \in Runner, NEW o \in DOMAIN view'[q]
               PROVE  LeftBy(view'[q][o], o, SettledFor(q)', executed' \cup sent'[q])
    BY DEF ViewsOK, LeftBy, About
  <2>1. CASE q = r
    BY <1>14, <2>1
  <2>2. CASE q # r
    <3>1. view'[q] = view[q] /\ sent'[q] = sent[q] /\ executed' = executed
      BY <1>3, <1>4, <2>2
    <3>2. SettledFor(q)' = SettledFor(q)
      BY <1>5, <1>6, <2>2 DEF SettledFor
    <3> QED
      BY <3>1, <3>2 DEF ViewsOK
  <2> QED
    BY <2>1, <2>2
<1> QED
  BY <1>9, <1>15

\* A unit that has been sent whole: its lines are passed once it leaves the list.
LEMMA UnitPassed ==
  ASSUME IInv, RunsApart, NEW r \in Runner, phase[r] = "record",
         NEW files \in SUBSET File, files \subseteq (seen[r] \ todo[r]) \cup UnitFiles(todo[r], unit[r])
  PROVE  LinesOfAll(files) \subseteq Sending(r)
<1>1. SentOK(r)
  BY DEF IInv
<1>2. LinesOfAll(UnitFiles(todo[r], unit[r])) \subseteq sent[r]
  BY <1>1 DEF SentOK
<1> QED
  BY <1>2 DEF Sending, LinesOfAll

\* RecordUnit: what was sent has taken effect already.
LEMMA RecordLeft ==
  ASSUME IInv, RunsApart, SchemaOK, ViewsOK, NEW r \in Runner, RecordUnit(r)
  PROVE  SchemaOK' /\ ViewsOK'
<1>1. /\ UNCHANGED <<disk, schema, executed>> /\ view'[r] = EmptyView /\ sent'[r] = {}
      /\ \A q \in Runner \ {r} : UNCHANGED <<RunState(q), view[q]>>
      /\ phase[r] = "record" /\ phase'[r] = "ready" /\ ~InTransaction(r)
      /\ todo'[r] = {f \in todo[r] : f.version # unit[r]} /\ seen'[r] = seen[r]
  BY DEF RecordUnit, UnitApplied, LeaveUnit, observed, RunState, IInv, TypeOK
<1>2. Active(r) /\ Active(r)'
  BY <1>1 DEF Active, IdlePhases
<1>3. ASSUME NEW q \in Runner \ {r}
      PROVE  (Active(q)' <=> Active(q)) /\ Passed(q)' = Passed(q) /\ Sending(q)' = Sending(q)
  BY <1>1 DEF RunState, Active, Passed, Sending, InTransaction
<1>4. Passed(r)' \subseteq Passed(r)
  <2>1. Passed(r)' = LinesOfAll(seen[r] \ todo'[r])
    BY <1>1 DEF Passed
  <2>2. seen[r] \ todo'[r] \subseteq (seen[r] \ todo[r]) \cup UnitFiles(todo[r], unit[r])
    BY <1>1 DEF UnitFiles
  <2>3. seen[r] \ todo'[r] \in SUBSET File
    BY DEF IInv, TypeOK
  <2>4. Passed(r) = Sending(r)
    BY <1>1 DEF Passed, Sending
  <2> QED
    BY <1>1, <2>1, <2>2, <2>3, <2>4, UnitPassed
<1>5. Settled' \subseteq Settled
  BY <1>2, <1>3, <1>4 DEF Settled, Quiet
<1>6. \A q \in Runner \ {r} : SettledFor(q)' \subseteq SettledFor(q)
  BY <1>2, <1>3, <1>4 DEF SettledFor
<1>7. \A q \in Runner : \/ view'[q] = EmptyView
                        \/ /\ UNCHANGED <<view[q], sent[q]>>
                           /\ \A o \in DOMAIN view[q] :
                                SettledFor(q)' \cap About(o) \subseteq SettledFor(q)
  BY <1>1, <1>6 DEF RunState
<1> QED
  BY <1>1, <1>5, <1>7, LeftStays

\* COMMIT makes what the transaction saw the catalog.
LEMMA CommittedSchema ==
  ASSUME IInv, RunsApart, SchemaOK, ViewsOK, NEW r \in Runner, Active(r),
         Committed(r), Settled' \subseteq SettledFor(r)
  PROVE  SchemaOK'
<1> SUFFICES ASSUME NEW o \in Object PROVE LeftBy(schema'[o], o, Settled', executed')
  BY DEF SchemaOK, LeftBy, About
<1>1. schema'[o] = Seen(r, o) /\ executed' = executed \cup sent[r]
  BY DEF Committed
<1>2. CASE o \in DOMAIN view[r]
  <2>1. LeftBy(view[r][o], o, SettledFor(r), executed \cup sent[r])
    BY <1>2 DEF ViewsOK
  <2> QED
    BY <1>1, <1>2, <2>1, LeftByKept DEF Seen
<1>3. CASE o \notin DOMAIN view[r]
  <2>1. LeftBy(schema[o], o, Settled, executed)
    BY DEF SchemaOK
  <2>2. Settled' \cap About(o) \subseteq Settled
    <3> SUFFICES ASSUME NEW p \in SettledFor(r), p \in About(o) PROVE p \in Settled
      OBVIOUS
    <3>1. p \in Sending(r) /\ p \in LinesOfAll(File)
      BY DEF SettledFor, About
    <3>2. InTransaction(r) => p \notin sent[r]
      BY <1>3 DEF RunsApart, ViewOK, About
    <3>3. p \in Passed(r)
      BY <3>1, <3>2 DEF Sending, Passed
    <3>4. \A q \in Runner : Active(q) => p \in Passed(q)
      BY <3>3 DEF SettledFor
    <3> QED
      BY <3>1, <3>4 DEF Settled, Quiet
  <2> QED
    BY <1>1, <1>3, <2>1, <2>2, LeftByKept DEF Seen
<1> QED
  BY <1>2, <1>3

LEMMA CommitLeft ==
  ASSUME IInv, RunsApart, SchemaOK, ViewsOK, NEW r \in Runner, CommitUnit(r)
  PROVE  SchemaOK' /\ ViewsOK'
<1>1. /\ UNCHANGED disk /\ view'[r] = EmptyView /\ sent'[r] = {} /\ Committed(r)
      /\ \A q \in Runner \ {r} : UNCHANGED <<RunState(q), view[q]>>
      /\ phase[r] = "record" /\ phase'[r] = "ready" /\ InTransaction(r)
      /\ todo'[r] = {f \in todo[r] : f.version # unit[r]} /\ seen'[r] = seen[r]
  BY DEF CommitUnit, UnitApplied, LeaveUnit, observed, RunState, IInv, TypeOK
<1>2. Active(r) /\ Active(r)'
  BY <1>1 DEF Active, IdlePhases
<1>3. ASSUME NEW q \in Runner \ {r}
      PROVE  (Active(q)' <=> Active(q)) /\ Passed(q)' = Passed(q) /\ Sending(q)' = Sending(q)
  BY <1>1 DEF RunState, Active, Passed, Sending, InTransaction
<1>4. Passed(r)' \subseteq Sending(r)
  <2>1. Passed(r)' = LinesOfAll(seen[r] \ todo'[r])
    BY <1>1 DEF Passed
  <2>2. seen[r] \ todo'[r] \subseteq (seen[r] \ todo[r]) \cup UnitFiles(todo[r], unit[r])
    BY <1>1 DEF UnitFiles
  <2>3. seen[r] \ todo'[r] \in SUBSET File
    BY DEF IInv, TypeOK
  <2> QED
    BY <1>1, <2>1, <2>2, <2>3, UnitPassed
<1>5. Settled' = {p \in LinesOfAll(File) : \A q \in Runner : Active(q)' => p \in Passed(q)'}
  BY <1>2 DEF Settled, Quiet
<1>6. Settled' \subseteq SettledFor(r)
  BY <1>2, <1>3, <1>4, <1>5 DEF SettledFor
<1>7. SchemaOK'
  BY <1>1, <1>2, <1>6, CommittedSchema
<1>8. ViewsOK'
  <2> SUFFICES ASSUME NEW q \in Runner, NEW o \in DOMAIN view'[q]
               PROVE  LeftBy(view'[q][o], o, SettledFor(q)', executed' \cup sent'[q])
    BY DEF ViewsOK, LeftBy, About
  <2>1. q # r
    BY <1>1 DEF EmptyView
  <2>2. view'[q] = view[q] /\ sent'[q] = sent[q] /\ executed' = executed \cup sent[r]
    BY <1>1, <2>1 DEF RunState, Committed
  <2>3. LeftBy(view[q][o], o, SettledFor(q), executed \cup sent[q])
    BY <2>2 DEF ViewsOK
  <2>4. o \notin DOMAIN view[r]
    BY <2>1, <2>2 DEF RunsApart, ViewsDisjoint
  <2>5. SettledFor(q)' \cap About(o) \subseteq SettledFor(q)
    <3> SUFFICES ASSUME NEW p \in SettledFor(q)', p \in About(o) PROVE p \in SettledFor(q)
      BY DEF About
    <3>1. p \in Sending(q) /\ \A s \in Runner \ {q, r} : Active(s) => p \in Passed(s)
      BY <1>3, <2>1 DEF SettledFor
    <3>2. p \in Passed(r)'
      BY <1>2, <2>1 DEF SettledFor
    <3>3. p \notin sent[r]
      BY <1>1, <2>4 DEF RunsApart, ViewOK, About
    <3>4. p \in Passed(r)
      BY <1>4, <3>2, <3>3 DEF Sending, Passed
    <3> QED
      BY <3>1, <3>4 DEF SettledFor
  <2> QED
    BY <2>2, <2>3, <2>5, LeftByKept
<1> QED
  BY <1>7, <1>8

LEMMA LoseCommitLeft ==
  ASSUME IInv, RunsApart, SchemaOK, ViewsOK, NEW r \in Runner, LoseCommitAnswer(r),
         ~spoiled', missed' = {}
  PROVE  SchemaOK' /\ ViewsOK'
<1>1. /\ UNCHANGED disk /\ view'[r] = EmptyView /\ Committed(r)
      /\ \A q \in Runner \ {r} : UNCHANGED <<RunState(q), view[q]>>
      /\ phase[r] = "record" /\ phase'[r] = "failed" /\ ~overlapped[r]
  BY DEF LoseCommitAnswer, Abandon, LeaveUnit, observed, RunState, IInv, TypeOK
<1>2. Active(r) /\ ~Active(r)' /\ phase[r] \in UnitPhases
  BY <1>1 DEF Active, IdlePhases, UnitPhases
<1>3. AloneOK(r) /\ SeenOK(r)
  BY DEF RunsApart
<1>4. \A q \in Runner \ {r} : ~Active(q)
  BY <1>1, <1>2, <1>3 DEF AloneOK
<1>5. Quiet'
  BY <1>1, <1>2, <1>4 DEF Quiet, RunState, Active
<1>6. Applied(disk, history)' \subseteq (seen[r] \ todo[r]) \cup UnitFiles(todo[r], unit[r])
  <2>1. history' = history \cup {unit[r]} /\ missed = {}
    BY <1>1 DEF Committed, Recorded
  <2>2. Applied(disk, history) \subseteq seen[r] \ todo[r]
    BY <1>1, <1>2, <1>3, <2>1 DEF AloneOK
  <2>3. CASE unit[r] \in history
    BY <1>1, <2>1, <2>2, <2>3 DEF Applied
  <2>4. CASE unit[r] \notin history
    <3>1. UnitFiles(disk, unit[r]) \subseteq seen[r]
      BY <1>1, <2>4 DEF Committed, Recorded
    <3>2. UnitFiles(todo[r], unit[r]) = UnitFiles(seen[r], unit[r])
      BY <1>2, UnitWhole
    <3> QED
      BY <1>1, <2>1, <2>2, <3>1, <3>2 DEF Applied, UnitFiles
  <2> QED
    BY <2>3, <2>4
<1>7. LinesOfAll(Applied(disk, history)') \subseteq Sending(r)
  <2>1. Applied(disk, history)' \in SUBSET File
    BY <1>1 DEF Applied, IInv, TypeOK
  <2> QED
    BY <1>1, <1>6, <2>1, UnitPassed
<1>8. Settled' \subseteq SettledFor(r)
  <2>1. Settled' = LinesOfAll(Applied(disk, history)')
    BY <1>5 DEF Settled, LinesOfAll, LinesOf
  <2> QED
    BY <1>4, <1>7, <2>1 DEF SettledFor
<1>9. SchemaOK'
  BY <1>1, <1>2, <1>8, CommittedSchema
<1>10. ASSUME NEW q \in Runner PROVE DOMAIN view'[q] = {}
  <2>1. q # r => ~InTransaction(q)
    BY <1>4 DEF InTransaction, Active, IdlePhases, UnitPhases
  <2>2. q # r => view[q] = EmptyView
    BY <2>1 DEF RunsApart, ViewOK
  <2> QED
    BY <1>1, <2>2 DEF EmptyView
<1>11. ViewsOK'
  BY <1>10 DEF ViewsOK
<1> QED
  BY <1>9, <1>11

LEMMA StutterLeft ==
  ASSUME IInv, RunsApart, SchemaOK, ViewsOK, UNCHANGED vars
  PROVE  SchemaOK' /\ ViewsOK'
<1>1. \A q \in Runner : /\ Active(q)' <=> Active(q)
                        /\ Passed(q)' = Passed(q) /\ Sending(q)' = Sending(q)
  BY DEF vars, target, unitVars, observed, Active, Passed, Sending, InTransaction
<1>2. UNCHANGED <<schema, executed, view, sent>> /\ Applied(disk, history)' = Applied(disk, history)
  BY DEF vars, target, unitVars
<1> QED
  BY <1>1, <1>2, PassedStays

\* What cannot be recovered from is never undone, and a run that is bound to stop
\* short does so in the end.
LEMMA SaneBefore ==
  ASSUME IInv, [Next]_vars, Sane'
  PROVE  Sane
<1>1. (spoiled => spoiled') /\ missed \subseteq missed'
  <2>1. spoiled => spoiled'
    BY DEF Next, Step, WriteMigration, WriteCompanion, ReadStatus, Connect, BeginUnit,
           ExecuteStatement, NextUnitFile, CommitUnit, RecordUnit, Finish, Fail,
           LoseCommitAnswer, DeadlockVictim, Abandon, vars
  <2>2. missed \subseteq missed'
    BY DEF Next, Step, WriteMigration, WriteCompanion, ReadStatus, Connect, BeginUnit,
           ExecuteStatement, NextUnitFile, CommitUnit, RecordUnit, Finish, Fail,
           LoseCommitAnswer, DeadlockVictim, Committed, Recorded, target, vars
  <2> QED
    BY <2>1, <2>2
<1>2. disk \subseteq disk' /\ history \subseteq history'
  BY DEF Next, Step, WriteMigration, WriteCompanion, ReadStatus, Connect, BeginUnit,
         ExecuteStatement, NextUnitFile, CommitUnit, RecordUnit, Finish, Fail, LoseCommitAnswer,
         DeadlockVictim, Committed, Recorded, target, vars
<1>3. ASSUME NEW g \in disk' \ disk PROVE g.version \notin history
  <2>1. CASE WriteMigration
    <3>1. g.version \notin VersionsOf(disk)
      BY <1>3, <2>1 DEF WriteMigration, FirstOf, UnitFiles
    <3> QED
      BY <3>1 DEF IInv, OnDisk
  <2>2. CASE WriteCompanion
    <3>1. missed' = {}
      BY DEF Sane, Whole
    <3> QED
      BY <1>3, <2>2, <3>1 DEF WriteCompanion
  <2>3. CASE ~WriteMigration /\ ~WriteCompanion
    BY <1>3, <2>3
    DEF Next, Step, ReadStatus, Connect, BeginUnit, ExecuteStatement, NextUnitFile, CommitUnit,
        RecordUnit, Finish, Fail, LoseCommitAnswer, DeadlockVictim, vars
  <2> QED
    BY <2>1, <2>2, <2>3
<1>4. Whole
  BY <1>1, <1>2, <1>3 DEF Sane, Whole, Hole
<1>5. ASSUME NEW r \in Runner, Active(r) PROVE ~StopsShort(r)
  <2>1. overlapped[r] => overlapped'[r]
    BY <1>5
    DEF Next, Step, WriteMigration, WriteCompanion, ReadStatus, Connect, BeginUnit,
        ExecuteStatement, NextUnitFile, CommitUnit, RecordUnit, Finish, Fail, LoseCommitAnswer,
        DeadlockVictim, observed, vars
  <2>2. seen'[r] = seen[r]
    BY <1>5
    DEF Next, Step, WriteMigration, WriteCompanion, ReadStatus, Connect, BeginUnit,
        ExecuteStatement, NextUnitFile, CommitUnit, RecordUnit, Finish, Fail, LoseCommitAnswer,
        DeadlockVictim, observed, vars, IInv, TypeOK
  <2>3. StopsShort(r) => StopsShort(r)'
    BY <1>2, <2>1, <2>2 DEF StopsShort
  <2>4. CASE Active(r)'
    BY <2>3, <2>4 DEF Sane
  <2>5. CASE ~Active(r)'
    <3>1. Finish(r) \/ Fail(r) \/ LoseCommitAnswer(r) \/ DeadlockVictim(r)
      <4>1. phase'[r] \in IdlePhases /\ phase[r] \notin IdlePhases
        BY <1>5, <2>5 DEF Active
      <4>2. phase \in [Runner -> Phases]
        BY DEF IInv, TypeOK
      <4>3. ASSUME NEW q \in Runner, q # r, phase' = [phase EXCEPT ![q] = phase'[q]]
            PROVE  FALSE
        BY <4>1, <4>2, <4>3
      <4>4. ASSUME NEW s, s \notin IdlePhases, phase' = [phase EXCEPT ![r] = s]
            PROVE  FALSE
        BY <4>1, <4>2, <4>4
      <4>5. phase' # phase
        BY <4>1
      <4>6. \A q \in Runner : ReadStatus(q) => q # r
        BY <1>5 DEF ReadStatus
      <4>7. ASSUME NEW q \in Runner,
                   \/ ReadStatus(q) \/ Connect(q) \/ BeginUnit(q) \/ CommitUnit(q)
                   \/ RecordUnit(q) \/ Finish(q) \/ Fail(q) \/ LoseCommitAnswer(q)
                   \/ DeadlockVictim(q) \/ NextUnitFile(q)
            PROVE  q = r
        <5>1. \E s : phase' = [phase EXCEPT ![q] = s]
          BY <4>7, <4>5 DEF ReadStatus, Connect, BeginUnit, CommitUnit, RecordUnit, UnitApplied,
                      Finish, Fail, LoseCommitAnswer, DeadlockVictim, Abandon, NextUnitFile
        <5> QED
          BY <4>2, <4>3, <5>1
      <4>8. ~(Connect(r) \/ BeginUnit(r) \/ CommitUnit(r) \/ RecordUnit(r) \/ NextUnitFile(r))
        BY <4>4, <4>5 DEF Connect, BeginUnit, CommitUnit, RecordUnit, UnitApplied, NextUnitFile,
                     IdlePhases
      <4>9. PICK q \in Runner : ReadStatus(q) \/ Step(q) \/ Fail(q) \/ LoseCommitAnswer(q)
        BY <4>5 DEF Next, WriteMigration, WriteCompanion, vars
      <4>10. ~ExecuteStatement(q)
        BY <4>5 DEF ExecuteStatement
      <4> QED
        BY <4>6, <4>7, <4>8, <4>9, <4>10 DEF Step
    <3> QED
      BY <3>1 DEF Finish, Fail, LoseCommitAnswer, DeadlockVictim, Abandon, StopsShort, Sane
  <2> QED
    BY <2>4, <2>5
<1>6. ~spoiled
  BY <1>1 DEF Sane
<1> QED
  BY <1>4, <1>5, <1>6 DEF Sane

LEMMA NextLeft ==
  ASSUME IInv, RunsApart, Sane => SchemaOK /\ ViewsOK, [Next]_vars, Sane'
  PROVE  SchemaOK' /\ ViewsOK'
<1>1. Sane /\ ~spoiled' /\ missed' = {}
  BY SaneBefore DEF Sane, Whole
<1>2. SchemaOK /\ ViewsOK
  BY <1>1
<1>3. CASE WriteMigration \/ WriteCompanion
  BY <1>1, <1>2, <1>3, WritesLeft
<1>4. ASSUME NEW r \in Runner, ReadStatus(r) PROVE SchemaOK' /\ ViewsOK'
  BY <1>2, <1>4, ReadStatusLeft
<1>5. ASSUME NEW r \in Runner, Connect(r) \/ BeginUnit(r) \/ NextUnitFile(r)
      PROVE  SchemaOK' /\ ViewsOK'
  BY <1>2, <1>5, NothingSentLeft
<1>6. ASSUME NEW r \in Runner, ExecuteStatement(r) PROVE SchemaOK' /\ ViewsOK'
  BY <1>1, <1>2, <1>6, ExecuteAtOnceLeft, ExecuteInsideLeft
<1>7. ASSUME NEW r \in Runner, CommitUnit(r) PROVE SchemaOK' /\ ViewsOK'
  BY <1>2, <1>7, CommitLeft
<1>8. ASSUME NEW r \in Runner, RecordUnit(r) PROVE SchemaOK' /\ ViewsOK'
  BY <1>2, <1>8, RecordLeft
<1>9. ASSUME NEW r \in Runner, Finish(r) PROVE SchemaOK' /\ ViewsOK'
  BY <1>1, <1>2, <1>9, FinishLeft
<1>10. ASSUME NEW r \in Runner, Fail(r) PROVE SchemaOK' /\ ViewsOK'
  BY <1>1, <1>2, <1>10, AbandonLeft
<1>11. ASSUME NEW r \in Runner, LoseCommitAnswer(r) PROVE SchemaOK' /\ ViewsOK'
  BY <1>1, <1>2, <1>11, LoseCommitLeft
<1>12. ASSUME NEW r \in Runner, DeadlockVictim(r) PROVE SchemaOK' /\ ViewsOK'
  BY <1>1, <1>12, DeadlockSpoils
<1>13. CASE UNCHANGED vars
  BY <1>2, <1>13, StutterLeft
<1> QED
  BY <1>3, <1>4, <1>5, <1>6, <1>7, <1>8, <1>9, <1>10, <1>11, <1>12, <1>13 DEF Next, Step

LEMMA InitLeft == Init => SchemaOK /\ ViewsOK
<1> SUFFICES ASSUME Init PROVE SchemaOK /\ ViewsOK
  OBVIOUS
<1>1. Quiet
  BY DEF Init, Quiet, Active, IdlePhases
<1>2. Settled = {}
  BY <1>1 DEF Init, Settled, Applied, LinesOfAll
<1>3. SchemaOK
  BY <1>2 DEF Init, SchemaOK, LeftBy
<1>4. ViewsOK
  BY DEF Init, ViewsOK, EmptyView
<1> QED
  BY <1>3, <1>4

\* Who has passed what, and what that leaves of each object.
THEOREM ConvergenceInvariance == Spec => []ConvergenceInv
<1>1. Init => ConvergenceInv
  BY InitInv, InitApart, InitLeft DEF ConvergenceInv
<1>2. ConvergenceInv /\ [Next]_vars => ConvergenceInv'
  <2> SUFFICES ASSUME ConvergenceInv, [Next]_vars PROVE ConvergenceInv'
    OBVIOUS
  <2>1. IInv'
    BY NextType, RunsAndLedger DEF ConvergenceInv, IInv, RunOK, LedgerOK
  <2>2. RunsApart'
    BY NextApart DEF ConvergenceInv
  <2>3. Sane' => SchemaOK' /\ ViewsOK'
    BY NextLeft DEF ConvergenceInv
  <2> QED
    BY <2>1, <2>2, <2>3 DEF ConvergenceInv
<1> QED
  BY <1>1, <1>2, PTL DEF Spec

LEMMA ReplayedSchema ==
  ASSUME ConvergenceInv, Quiet, ~spoiled, Whole, NEW files \in SUBSET File, Closed(files),
         Applied(disk, history) = files, executed \subseteq LinesOfAll(files)
  PROVE  schema = Replay(files)
<1>1. Settled = LinesOfAll(files)
  BY DEF Settled
<1>2. ASSUME NEW o \in Object PROVE schema[o] = Replay(files)[o]
  <2>1. LeftBy(schema[o], o, LinesOfAll(files), executed)
    BY <1>1 DEF ConvergenceInv, SchemaOK, Sane, Quiet
  <2> QED
    BY <2>1, ReplayLeft
<1>3. schema \in [Object -> Value] /\ Replay(files) \in [Object -> Value]
  BY ReplayType DEF ConvergenceInv, IInv, TypeOK
<1> QED
  BY <1>2, <1>3

\* A run may have recorded a version before its companion was written; when no
\* newer file is there and none was missed, the files up to a recorded version
\* are all on disk.
LEMMA RecordedClosed ==
  ASSUME IInv, RunsApart, Whole
  PROVE  Closed(Applied(disk, history))
<1> SUFFICES ASSUME NEW f \in Applied(disk, history), NEW g \in File,
                    g.version < f.version \/ (g.version = f.version /\ FileBefore(g, f))
             PROVE  g \in Applied(disk, history)
  BY DEF Closed
<1>1. f \in disk /\ f.version \in history /\ Beginnings(disk)
  BY DEF Applied, RunsApart
<1>2. CASE g.version < f.version
  <2>1. PICK h \in disk : h.version = g.version
    BY <1>1, <1>2 DEF Beginnings, VersionsOf
  <2>2. g.version \in history
    BY <1>1, <1>2, <2>1 DEF IInv, HistoryInOrder
  <2> QED
    BY <1>1, <1>2, <2>2 DEF Whole, Hole, Applied
<1>3. CASE g.version = f.version /\ FileBefore(g, f)
  BY <1>1, <1>3 DEF Beginnings, Applied
<1> QED
  BY <1>2, <1>3

\* However many runs failed, were retried, applied stale lists or interleaved
\* their statements: when none is in progress and every version on disk is
\* recorded, the catalog is the one the files describe. It is not when a version
\* was recorded without a companion that its run had not seen, or when a run that
\* overlapped another one stopped short of the newest version.
THEOREM ConvergedCorrect == Spec => []Converged
<1>1. ConvergenceInv => Converged
  <2> SUFFICES ASSUME ConvergenceInv, Quiet, ~spoiled, Whole, history = VersionsOf(disk)
               PROVE  schema = Replay(disk)
    BY DEF Converged
  <2>1. Applied(disk, history) = disk
    BY DEF Applied, VersionsOf
  <2>2. Closed(disk)
    BY <2>1, RecordedClosed DEF ConvergenceInv
  <2>3. disk \in SUBSET File /\ executed \subseteq LinesOfAll(disk)
    BY DEF ConvergenceInv, IInv, TypeOK, OnDisk
  <2> QED
    BY <2>1, <2>2, <2>3, ReplayedSchema
<1> QED
  BY <1>1, ConvergenceInvariance, PTL

\* At rest, with nothing left behind of a unit that is not recorded, the
\* catalog is the one the recorded versions describe, with the same exceptions.
THEOREM RecordedSchemaCorrect == Spec => []RecordedSchema
<1>1. ConvergenceInv => RecordedSchema
  <2> SUFFICES ASSUME ConvergenceInv, Quiet, ~spoiled, Whole,
                      \A p \in executed : p[1].version \in history
               PROVE  schema = Replay(Applied(disk, history))
    BY DEF RecordedSchema
  <2> DEFINE files == Applied(disk, history)
  <2>1. disk \in SUBSET File /\ executed \subseteq LinesOfAll(disk)
    BY DEF ConvergenceInv, IInv, TypeOK, OnDisk
  <2>2. files \in SUBSET File
    BY <2>1 DEF Applied
  <2>3. Closed(files)
    BY RecordedClosed DEF ConvergenceInv
  <2>4. executed \subseteq LinesOfAll(files)
    <3> SUFFICES ASSUME NEW p \in executed PROVE p \in LinesOfAll(files)
      OBVIOUS
    <3>1. p[1] \in disk /\ p \in LinesOf(p[1]) /\ p[1].version \in history
      BY <2>1, LineFacts
    <3> QED
      BY <3>1 DEF Applied, LinesOfAll
  <2> QED
    BY <2>2, <2>3, <2>4, ReplayedSchema
<1> QED
  BY <1>1, ConvergenceInvariance, PTL

-----------------------------------------------------------------------------
(* Refinement. *)

\* Recording a unit records the ledger's next version, but for the files the run
\* has not seen; or catches up with those that another run has missed.
LEMMA RecordRefines ==
  ASSUME IInv, RunsApart, NEW r \in Runner, phase[r] = "record", disk' = disk,
         Recorded(r), executed' = executed \cup sent[r]
  PROVE  Ledger!Next
<1> DEFINE v    == unit[r]
           late == UnitFiles(disk, v) \ seen[r]
<1>1. /\ UnitFiles(todo[r], v) = UnitFiles(seen[r], v)
      /\ UnitFiles(todo[r], v) \subseteq UnitFiles(disk, v)
      /\ \A f \in disk : f.version < v => f.version \in history
      /\ v \in VersionsOf(disk)
  BY UnitWhole DEF UnitPhases
<1>2. LinesOfAll(UnitFiles(todo[r], v)) = sent[r]
  BY DEF IInv, SentOK, UnitPhases
<1>3. CASE v \in history
  <2>1. UNCHANGED <<disk, history, missed>>
    BY <1>3 DEF Recorded
  <2>2. sent[r] \subseteq executed \cup Ledger!LinesOfAll(missed)
    <3> SUFFICES ASSUME NEW f \in UnitFiles(todo[r], v)
                 PROVE  LinesOf(f) \subseteq executed \cup Ledger!LinesOfAll(missed)
      BY <1>2 DEF LinesOfAll
    <3>1. f \in disk /\ f.version \in history
      BY <1>1, <1>3 DEF UnitFiles
    <3>2. CASE f \in missed
      BY <3>2 DEF LinesOf, Ledger!LinesOfAll, Ledger!LinesOf
    <3>3. CASE f \notin missed
      BY <3>1, <3>3 DEF IInv, HistorySound
    <3> QED
      BY <3>2, <3>3
  <2>3. Ledger!CatchUp
    BY <2>1, <2>2 DEF Ledger!CatchUp
  <2> QED
    BY <2>3 DEF Ledger!Next
<1>4. CASE v \notin history
  <2>1. \A f \in disk : f.version \in Nat
    BY FileAssumption DEF IInv, TypeOK
  <2>2. \A w \in VersionsOf(disk) \ history : v <= w
    BY <1>1, <2>1 DEF VersionsOf
  <2>3. Ledger!Frontier(v) /\ v \in Ledger!VersionsOf(disk)
    BY <1>1, <1>4, <2>2 DEF Ledger!Frontier, Ledger!VersionsOf, VersionsOf
  <2>4. late \in SUBSET Ledger!UnitFiles(disk, v)
    BY DEF UnitFiles, Ledger!UnitFiles
  <2>5. Ledger!UnitFiles(disk, v) \ late = UnitFiles(todo[r], v)
    BY <1>1 DEF UnitFiles, Ledger!UnitFiles, IInv, TodoOK
  <2>6. UnitFiles(todo[r], v) # {}
    BY DEF IInv, UnitOK, UnitPhases
  <2>7. ASSUME NEW f \in UnitFiles(todo[r], v), NEW g \in late PROVE ~Ledger!FileBefore(g, f)
    <3> SUFFICES ASSUME FileBefore(g, f) PROVE FALSE
      BY DEF FileBefore, Ledger!FileBefore
    <3>1. f \in seen[r] /\ f.version = v /\ g \in File /\ g.version = v /\ g \notin seen[r]
      BY <1>1 DEF UnitFiles, IInv, TypeOK
    <3> QED
      BY <3>1 DEF RunsApart, SeenOK, Beginnings
  <2>8. executed' = executed \cup Ledger!LinesOfAll(UnitFiles(todo[r], v))
    BY <1>2 DEF Ledger!LinesOfAll, Ledger!LinesOf, LinesOfAll, LinesOf
  <2>9. UNCHANGED disk /\ history' = history \cup {v} /\ missed' = missed \cup late
    BY <1>4 DEF Recorded
  <2> HIDE DEF v, late
  <2>10. Ledger!Record
    BY <2>3, <2>4, <2>5, <2>6, <2>7, <2>8, <2>9 DEF Ledger!Record
  <2> QED
    BY <2>10 DEF Ledger!Next
<1> QED
  BY <1>3, <1>4

LEMMA ExecuteRefines ==
  ASSUME IInv, NEW r \in Runner, ExecuteStatement(r)
  PROVE  Ledger!Next \/ UNCHANGED <<disk, history, executed, missed>>
<1> DEFINE place == <<file[r], line[r] + 1>>
           v     == unit[r]
<1>1. UNCHANGED <<disk, history, missed>> /\ phase[r] \in UnitPhases
  BY DEF ExecuteStatement, UnitPhases
<1>2. CASE InTransaction(r)
  BY <1>1, <1>2 DEF ExecuteStatement
<1>3. CASE ~InTransaction(r)
  <2>1. executed' = executed \cup {place}
    BY <1>3 DEF ExecuteStatement
  <2>2. /\ UnitFiles(todo[r], v) \subseteq UnitFiles(disk, v)
        /\ \A f \in disk : f.version < v => f.version \in history
        /\ v \in VersionsOf(disk)
    BY <1>1, UnitWhole
  <2>3. file[r] \in disk /\ file[r].version = v /\ place \in LinesOf(file[r])
    BY <1>1, CurrentFile, CurrentStatement DEF IInv, TodoOK
  <2>4. CASE v \in history
    <3>1. place \in executed \cup Ledger!LinesOfAll(missed)
      BY <2>3, <2>4 DEF IInv, HistorySound, LinesOf, Ledger!LinesOfAll, Ledger!LinesOf
    <3>2. Ledger!CatchUp
      BY <1>1, <2>1, <3>1 DEF Ledger!CatchUp
    <3> QED
      BY <3>2 DEF Ledger!Next
  <2>5. CASE v \notin history
    <3>1. \A f \in disk : f.version \in Nat
      BY FileAssumption DEF IInv, TypeOK
    <3>2. \A w \in VersionsOf(disk) \ history : v <= w
      BY <2>2, <3>1 DEF VersionsOf
    <3>3. Ledger!Frontier(v)
      BY <2>2, <2>5, <3>2 DEF Ledger!Frontier, Ledger!VersionsOf, VersionsOf
    <3>4. ~Ledger!Transactional(Ledger!UnitFiles(disk, v))
      BY <1>1, <1>3, <2>2
      DEF InTransaction, Transactional, UnitFiles, Ledger!Transactional, Ledger!UnitFiles
    <3>5. place \in Ledger!LinesOfAll(Ledger!UnitFiles(disk, v))
      BY <2>3 DEF LinesOf, Ledger!LinesOfAll, Ledger!LinesOf, Ledger!UnitFiles
    <3>6. v \in Ledger!VersionsOf(disk)
      BY <2>2 DEF VersionsOf, Ledger!VersionsOf
    <3>7. Ledger!PrepareOutsideTransaction
      BY <1>1, <2>1, <3>3, <3>4, <3>5, <3>6 DEF Ledger!PrepareOutsideTransaction
    <3> QED
      BY <3>7 DEF Ledger!Next
  <2> QED
    BY <2>4, <2>5
<1> QED
  BY <1>2, <1>3

LEMMA WritesRefine ==
  ASSUME IInv, WriteMigration \/ WriteCompanion
  PROVE  Ledger!Next
<1>1. CASE WriteMigration
  <2>1. PICK v \in Versions \ VersionsOf(disk), f \in File :
          (\A g \in disk : g.version < v) /\ f.version = v /\ disk' = disk \cup {f}
    BY <1>1 DEF WriteMigration, FirstOf, UnitFiles
  <2>2. f \notin disk /\ f.version \notin history
    BY <2>1 DEF IInv, OnDisk, VersionsOf
  <2>3. UNCHANGED <<history, executed, missed>>
    BY <1>1 DEF WriteMigration, target
  <2>4. Ledger!Publish
    BY <2>1, <2>2, <2>3 DEF Ledger!Publish
  <2> QED
    BY <2>4 DEF Ledger!Next
<1>2. CASE WriteCompanion
  <2>1. Ledger!Publish
    BY <1>2 DEF WriteCompanion, VersionsOf, Ledger!Publish, Ledger!VersionsOf
  <2> QED
    BY <2>1 DEF Ledger!Next
<1> QED
  BY <1>1, <1>2

\* The direct runner implements the ledger: whatever runs overlap, and whenever
\* the files of a unit are written, every change of the history and of the
\* executed statements is a step of it; a version is recorded with all its files
\* but those its run has not seen.
THEOREM RunnerImplementsLedger == Spec => LedgerSpec
<1>1. Init => Ledger!Init
  BY DEF Init, Ledger!Init
<1>2. ConvergenceInv /\ [Next]_vars => [Ledger!Next]_(Ledger!ledgerVars)
  <2> SUFFICES ASSUME IInv, RunsApart, [Next]_vars
               PROVE  Ledger!Next \/ UNCHANGED <<disk, history, executed, missed>>
    BY DEF Ledger!ledgerVars, ConvergenceInv
  <2>1. CASE WriteMigration \/ WriteCompanion
    BY <2>1, WritesRefine
  <2>2. ASSUME NEW r \in Runner,
               \/ ReadStatus(r) \/ Connect(r) \/ BeginUnit(r) \/ NextUnitFile(r)
               \/ Finish(r) \/ Fail(r) \/ DeadlockVictim(r)
        PROVE  UNCHANGED <<disk, history, executed, missed>>
    BY <2>2 DEF ReadStatus, Connect, BeginUnit, NextUnitFile, Finish, Fail, DeadlockVictim, target
  <2>3. ASSUME NEW r \in Runner, ExecuteStatement(r)
        PROVE  Ledger!Next \/ UNCHANGED <<disk, history, executed, missed>>
    BY <2>3, ExecuteRefines
  <2>4. ASSUME NEW r \in Runner, CommitUnit(r) \/ LoseCommitAnswer(r)
        PROVE  Ledger!Next
    BY <2>4, RecordRefines DEF CommitUnit, LoseCommitAnswer, Committed
  <2>5. ASSUME NEW r \in Runner, RecordUnit(r)
        PROVE  Ledger!Next
    <3>1. sent[r] \subseteq executed
      BY <2>5 DEF RecordUnit, IInv, SentOK, UnitPhases
    <3> QED
      BY <2>5, <3>1, RecordRefines DEF RecordUnit
  <2>6. CASE UNCHANGED vars
    BY <2>6 DEF vars, target
  <2> QED
    BY <2>1, <2>2, <2>3, <2>4, <2>5, <2>6 DEF Next, Step
<1> QED
  BY <1>1, <1>2, ConvergenceInvariance, PTL DEF Spec, LedgerSpec, Ledger!Spec
=============================================================================
